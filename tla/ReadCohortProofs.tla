-------------------------- MODULE ReadCohortProofs --------------------------
(***************************************************************************)
(* Proof that linearizable reads are fresh, for any membership, any pair   *)
(* of intersecting quorums, any clients and any number of lost links and   *)
(* restarts.                                                               *)
(*                                                                         *)
(* The argument: a write that was acknowledged before a member of the      *)
(* cohort was invoked had a write quorum of votes before the cohort began. *)
(* Covers keeps that quorum: each of its nodes, once counted, has raised   *)
(* the frontier to the write.  A read quorum that is counted meets it.     *)
(***************************************************************************)
EXTENDS ReadCohort, FiniteSetTheorems, WellFoundedInduction, TLAPS

\* The nodes that have voted for slot x, by their votes V.
Voters(V, x) == {n \in Nodes : x \in V[n]}

\* A slot that may be acknowledged: zero stands for none.
Written(V, x) == x = 0 \/ Cardinality(Voters(V, x)) >= WriteQuorum

\* A node has seen what it voted for; what is applied is decided; what was
\* acknowledged, to whomever, is written.
SeenInv ==
    /\ \A n \in Nodes : \A s \in voted[n] : s <= highest_seen[n]
    /\ \A n \in Nodes : \A s \in Slots : s <= applied[n] => Decided(s)
    /\ Written(voted, acked)
    /\ \A c \in Clients : Written(voted, need[c])

\* Tickets, tokens and the count of replies belong to the active cohort.
CohortInv ==
    /\ read_cohort \in {0, frontier_token}
    /\ read_cohort # 0 => \E c \in Clients : ticket[c] = read_cohort
    /\ \A c \in Clients : ticket[c] \in {0, read_cohort}
    /\ \A c \in Clients : conn[c] # "waiting" => ticket[c] = 0
    /\ \A m \in requests : m.token <= frontier_token
    /\ \A m \in replies : m.token <= frontier_token
    /\ frontier_replies = Cardinality(frontier_voters)
    /\ read_cohort # 0 /\ frontier_ready => frontier_replies >= ReadQuorum - 1

\* A write quorum whose every counted node reported slot x or more.
Covers(x) ==
    \E W \in SUBSET Nodes :
        /\ Cardinality(W) >= WriteQuorum
        /\ \A p \in W : x \in voted[p]
        /\ Reader \in W => x <= frontier_high
        /\ \A p \in W : p \in frontier_voters => x <= frontier_high
        /\ \A m \in replies : m.token = read_cohort /\ m.peer \in W => x <= m.frontier

\* Slot x is a write that a member of the active cohort must observe.
Needed(x) == \E c \in Clients : ticket[c] = read_cohort /\ need[c] = x

MembersInv == read_cohort # 0 => \A x \in Slots : Needed(x) => Covers(x)

\* The inductive invariant.
FreshInv == TypeOK /\ SeenInv /\ CohortInv /\ MembersInv

-----------------------------------------------------------------------------
\* A set of naturals has a least element.
LEMMA LeastElement ==
  ASSUME NEW T, T \subseteq Nat, T # {}
  PROVE  \E x \in T : \A y \in T : x <= y
<1> DEFINE R == OpToRel(<, Nat)
<1>1. \A x, y \in Nat : x < y => <<x, y>> \in R
  BY DEF OpToRel
<1>2. IsWellFoundedOn(R, Nat)
  BY NatLessThanWellFounded, Zenon
<1> HIDE DEF R
<1>3. PICK x \in T : \A y \in T : ~(<<y, x>> \in R)
  BY <1>2, WFMin
<1>4. ASSUME NEW y \in T PROVE x <= y
  <2>1. x \in Nat /\ y \in Nat /\ ~(<<y, x>> \in R)
    BY <1>3
  <2>2. ~(y < x)
    BY <1>1, <2>1
  <2> QED
    BY <2>1, <2>2
<1> QED
  BY <1>4

\* A bounded set of naturals has a greatest element, so Largest is one.
LEMMA LargestProperty ==
  ASSUME NEW top \in Nat, NEW S, S \subseteq 1..top
  PROVE  Largest(S) \in 0..top /\ \A y \in S : y <= Largest(S)
<1>1. CASE S = {}
  BY <1>1 DEF Largest
<1>2. CASE S # {}
  <2> DEFINE T == {top - y : y \in S}
  <2>1. T \subseteq Nat
    OBVIOUS
  <2>2. T # {}
    BY <1>2
  <2>3. PICK t \in T : \A u \in T : t <= u
    <3> HIDE DEF T
    <3> QED
      BY <2>1, <2>2, LeastElement
  <2>4. PICK x \in S : t = top - x
    OBVIOUS
  <2>5. ASSUME NEW y \in S PROVE y <= x
    <3>1. top - y \in T
      OBVIOUS
    <3>2. t <= top - y /\ y \in 1..top /\ x \in 1..top
      BY <2>3, <3>1
    <3> QED
      BY <2>4, <3>2
  <2> DEFINE g == CHOOSE z \in S : \A y \in S : y <= z
  <2>6. g \in S /\ \A y \in S : y <= g
    BY <2>5
  <2>7. Largest(S) = g
    BY <1>2 DEF Largest
  <2> HIDE DEF g
  <2> QED
    BY <2>6, <2>7
<1> QED
  BY <1>1, <1>2

\* The larger of two slots.
LEMMA LargerProperty ==
  ASSUME NEW top \in Nat, NEW a \in 0..top, NEW b \in 0..top
  PROVE  Larger(a, b) \in 0..top /\ a <= Larger(a, b) /\ b <= Larger(a, b)
BY DEF Larger

\* A restarted node resumes above everything it has voted for.
LEMMA ResumedProperty ==
  ASSUME TypeOK, NEW n \in Nodes
  PROVE  Resumed(n) \in 0..MaxSlot /\ \A s \in voted[n] : s <= Resumed(n)
<1>1. MaxSlot \in Nat /\ voted[n] \subseteq 1..MaxSlot /\ applied[n] \in 0..MaxSlot
  BY ReadAssumption DEF TypeOK, Slots
<1>2. Largest(voted[n]) \in 0..MaxSlot /\ \A s \in voted[n] : s <= Largest(voted[n])
  BY <1>1, LargestProperty
<1>3. Resumed(n) \in 0..MaxSlot /\ Largest(voted[n]) <= Resumed(n)
  BY <1>1, <1>2, LargerProperty DEF Resumed
<1> QED
  BY <1>1, <1>2, <1>3

\* The members are a finite set of N.
LEMMA NodesFinite ==
  /\ IsFiniteSet(Nodes) /\ Cardinality(Nodes) = N /\ N \in Nat
  /\ ReadQuorum \in Nat /\ WriteQuorum \in Nat /\ ReadQuorum + WriteQuorum > N
<1>1. N \in Nat /\ N >= 1 /\ 1 \in Int /\ N \in Int
  BY ReadAssumption
<1>2. IsFiniteSet(1..N) /\ Cardinality(1..N) = IF 1 > N THEN 0 ELSE N - 1 + 1
  BY <1>1, FS_Interval
<1> QED
  BY <1>1, <1>2, ReadAssumption DEF Nodes

\* Sets of nodes have natural cardinalities, and larger sets larger ones.
LEMMA NodeSets ==
  ASSUME NEW A, NEW B, A \subseteq B, B \subseteq Nodes
  PROVE  /\ IsFiniteSet(A) /\ IsFiniteSet(B)
         /\ Cardinality(A) \in Nat /\ Cardinality(B) \in Nat
         /\ Cardinality(A) <= Cardinality(B) /\ Cardinality(B) <= N
<1>1. IsFiniteSet(B) /\ Cardinality(B) <= N
  BY NodesFinite, FS_Subset
<1>2. IsFiniteSet(A) /\ Cardinality(A) <= Cardinality(B)
  BY <1>1, FS_Subset
<1> QED
  BY <1>1, <1>2, FS_CardinalityType

\* Votes are never taken back, and so neither are decisions.
LEMMA WrittenStays ==
  ASSUME NEW V, NEW V1, \A n \in Nodes : V[n] \subseteq V1[n], NEW x, Written(V, x)
  PROVE  Written(V1, x)
<1>1. Voters(V, x) \subseteq Voters(V1, x) /\ Voters(V1, x) \subseteq Nodes
  BY DEF Voters
<1>2. /\ Cardinality(Voters(V, x)) <= Cardinality(Voters(V1, x))
      /\ Cardinality(Voters(V, x)) \in Nat /\ Cardinality(Voters(V1, x)) \in Nat
  BY <1>1, NodeSets
<1> QED
  BY <1>2, NodesFinite DEF Written

\* A decided slot stays decided.
LEMMA DecidedStays ==
  ASSUME \A n \in Nodes : voted[n] \subseteq voted'[n], NEW s \in Slots, Decided(s)
  PROVE  Decided(s)'
<1>1. CASE Cardinality(Voters(voted, s)) >= WriteQuorum
  <2>1. s # 0
    BY DEF Slots
  <2>2. Cardinality(Voters(voted', s)) >= WriteQuorum
    BY <1>1, <2>1, WrittenStays DEF Written
  <2> QED
    BY <2>2 DEF Decided, Voters
<1>2. CASE s \in Skips /\ s \in voted[((s - 1) % N) + 1]
  <2>1. ((s - 1) % N) + 1 \in Nodes
    BY ReadAssumption DEF Nodes, Slots
  <2> QED
    BY <1>2, <2>1 DEF Decided
<1> QED
  BY <1>1, <1>2 DEF Decided, Voters

-----------------------------------------------------------------------------
\* Types are kept by every step.
LEMMA TypeStep ==
  ASSUME TypeOK, CohortInv, [Next]_vars
  PROVE  TypeOK'
<1>0. /\ MaxSlot \in Nat /\ MaxToken \in Nat /\ MaxFaults \in Nat /\ N \in Nat
      /\ Reader \in Nodes
  BY ReadAssumption
<1> USE <1>0 DEF consensus, reads, cohort, links
<1>1. ASSUME NEW n \in Nodes, NEW s \in Slots, Vote(n, s) \/ See(n, s) \/ Acknowledge(n, s)
      PROVE  TypeOK'
  <2>1. s \in 0..MaxSlot /\ highest_seen[n] \in 0..MaxSlot
    BY DEF TypeOK, Slots
  <2>2. Larger(highest_seen[n], s) \in 0..MaxSlot
    BY <2>1, LargerProperty
  <2>3. CASE Vote(n, s)
    BY <2>2, <2>3 DEF TypeOK, Vote
  <2>4. CASE See(n, s)
    BY <2>1, <2>4 DEF TypeOK, See
  <2>5. CASE Acknowledge(n, s)
    BY <2>1, <2>5 DEF TypeOK, Acknowledge
  <2> QED
    BY <1>1, <2>3, <2>4, <2>5
<1>2. ASSUME NEW n \in Nodes, Apply(n) PROVE TypeOK'
  <2>1. applied[n] + 1 \in 0..MaxSlot /\ highest_seen[n] \in 0..MaxSlot
    BY <1>2 DEF TypeOK, Apply
  <2>2. Larger(highest_seen[n], applied[n] + 1) \in 0..MaxSlot
    BY <2>1, LargerProperty
  <2> QED
    BY <1>2, <2>1, <2>2 DEF TypeOK, Apply
<1>3. ASSUME NEW c \in Clients, Invoke(c) PROVE TypeOK'
  BY <1>3 DEF TypeOK, Invoke
<1>4. ASSUME NEW c \in Clients, Leave(c) PROVE TypeOK'
  BY <1>4 DEF TypeOK, Leave, release_read, Tokens
<1>5. CASE begin_read_cohort
  <2>1. frontier_token + 1 \in Tokens /\ frontier_token' = frontier_token + 1
    BY <1>5 DEF begin_read_cohort, TypeOK, Tokens
  <2>2. requests' \subseteq [peer : Peers, token : Tokens]
    <3>1. PICK peers \in SUBSET Peers : send_frontier_requests(peers, frontier_token + 1)
      BY <1>5 DEF begin_read_cohort
    <3> QED
      BY <2>1, <3>1 DEF send_frontier_requests, TypeOK
  <2>3. frontier_ready' \in BOOLEAN
    BY <1>5 DEF begin_read_cohort
  <2>4. ticket' \in [Clients -> Tokens] /\ frontier_high' \in 0..MaxSlot
    BY <1>5, <2>1 DEF begin_read_cohort, TypeOK
  <2>5. /\ read_cohort' \in Tokens /\ frontier_replies' \in 0..N /\ frontier_voters' = {}
        /\ frontier_replied' \in [Peers -> Tokens]
    BY <1>5, <2>1 DEF begin_read_cohort, Tokens
  <2>6. UNCHANGED <<consensus, conn, need, replies, faults>>
    BY <1>5 DEF begin_read_cohort
  <2> QED
    BY <2>1, <2>2, <2>3, <2>4, <2>5, <2>6 DEF TypeOK
<1>6. ASSUME NEW peers \in SUBSET Peers, Retry(peers) PROVE TypeOK'
  <2>1. requests' \subseteq [peer : Peers, token : Tokens]
    BY <1>6 DEF Retry, send_frontier_requests, TypeOK
  <2> QED
    BY <1>6, <2>1 DEF Retry, TypeOK
<1>7. ASSUME NEW m \in requests, respond_frontier(m) PROVE TypeOK'
  <2>1. /\ m.peer \in Peers /\ m.token \in Tokens
        /\ highest_seen[m.peer] \in 0..MaxSlot
    BY DEF TypeOK, Peers
  <2> QED
    BY <1>7, <2>1 DEF respond_frontier, TypeOK
<1>8. ASSUME NEW m \in replies, receive_frontier(m) PROVE TypeOK'
  <2>1. m.peer \in Peers /\ m.token \in Tokens /\ m.frontier \in 0..MaxSlot
    BY DEF TypeOK
  <2>2. CASE Counts(m)
    <3>1. Larger(frontier_high, m.frontier) \in 0..MaxSlot
      BY <2>1, LargerProperty DEF TypeOK
    <3>2. frontier_replies + 1 \in 0..N
      <4>1. /\ frontier_voters \subseteq Nodes /\ m.peer \in Nodes
            /\ m.peer \notin frontier_voters
        BY <2>1, <2>2 DEF TypeOK, Peers, Counts
      <4>2. IsFiniteSet(frontier_voters)
        BY <4>1, NodeSets
      <4>3. Cardinality(frontier_voters \cup {m.peer}) = Cardinality(frontier_voters) + 1
        BY <4>1, <4>2, FS_AddElement
      <4>4. frontier_voters \cup {m.peer} \subseteq Nodes
        BY <4>1
      <4>5. Cardinality(frontier_voters \cup {m.peer}) <= N
        BY <4>4, NodeSets
      <4>6. frontier_replies \in Nat /\ frontier_replies = Cardinality(frontier_voters)
        BY DEF TypeOK, CohortInv
      <4> QED
        BY <4>3, <4>5, <4>6
    <3>3. /\ replies' = replies \ {m}
          /\ frontier_replied' = [frontier_replied EXCEPT ![m.peer] = read_cohort]
          /\ frontier_voters' = frontier_voters \cup {m.peer}
          /\ frontier_high' = Larger(frontier_high, m.frontier)
          /\ frontier_replies' = frontier_replies + 1
          /\ frontier_ready' \in BOOLEAN
          /\ UNCHANGED <<read_cohort, frontier_token, consensus, reads, requests, faults>>
      BY <1>8, <2>2 DEF receive_frontier
    <3> QED
      BY <2>1, <3>1, <3>2, <3>3 DEF TypeOK
  <2>3. CASE ~Counts(m)
    BY <1>8, <2>3 DEF receive_frontier, TypeOK
  <2> QED
    BY <2>2, <2>3
<1>9. CASE finish_read_cohort
  BY <1>9 DEF finish_read_cohort, TypeOK, Tokens
<1>10. ASSUME NEW p \in Peers, Reconnect(p) PROVE TypeOK'
  BY <1>10 DEF Reconnect, Fault, LoseLink, TypeOK, Tokens
<1>11. ASSUME NEW p \in Peers, PeerRestart(p) PROVE TypeOK'
  <2>1. p \in Nodes /\ Resumed(p) \in 0..MaxSlot
    BY ResumedProperty DEF Peers
  <2> QED
    BY <1>11, <2>1 DEF PeerRestart, Fault, LoseLink, TypeOK, Tokens
<1>12. CASE ReaderRestart
  <2>1. Resumed(Reader) \in 0..MaxSlot
    BY ResumedProperty
  <2>2. frontier_ready' \in BOOLEAN
    BY <1>12 DEF ReaderRestart
  <2> QED
    BY <1>12, <2>1, <2>2 DEF ReaderRestart, Fault, TypeOK, Tokens
<1>13. CASE UNCHANGED vars
  BY <1>13 DEF vars, TypeOK
<1> QED
  BY <1>1, <1>2, <1>3, <1>4, <1>5, <1>6, <1>7, <1>8, <1>9, <1>10, <1>11, <1>12, <1>13
  DEF Next

\* What was acknowledged stays written, what is applied stays decided, and no
\* restart forgets a vote.
LEMMA SeenStep ==
  ASSUME TypeOK, SeenInv, [Next]_vars
  PROVE  SeenInv'
<1>0. MaxSlot \in Nat /\ Reader \in Nodes /\ Peers \subseteq Nodes
  BY ReadAssumption DEF Peers
<1> USE <1>0 DEF consensus, reads, cohort, links
<1>a. ASSUME \A n \in Nodes : voted[n] \subseteq voted'[n],
             \A n \in Nodes : \A s \in voted'[n] : s <= highest_seen'[n],
             \A n \in Nodes : \A s \in Slots : s <= applied'[n] =>
                 s <= applied[n] \/ Decided(s),
             Written(voted, acked') \/ acked' = acked,
             \A c \in Clients : need'[c] \in {0, acked, need[c]}
      PROVE  SeenInv'
  <2>1. \A x : Written(voted, x) => Written(voted', x)
    BY <1>a, WrittenStays
  <2>2. \A s \in Slots : Decided(s) => Decided(s)'
    BY <1>a, DecidedStays
  <2>3. \A n \in Nodes : \A s \in Slots : s <= applied'[n] => Decided(s)'
    BY <1>a, <2>2 DEF SeenInv
  <2>4. Written(voted', acked')
    BY <1>a, <2>1 DEF SeenInv
  <2>5. ASSUME NEW c \in Clients PROVE Written(voted', need'[c])
    <3>1. Written(voted, 0) /\ Written(voted, acked) /\ Written(voted, need[c])
      BY DEF SeenInv, Written
    <3>2. Written(voted, need'[c])
      BY <1>a, <3>1
    <3> QED
      BY <2>1, <3>2
  <2> QED
    BY <1>a, <2>3, <2>4, <2>5 DEF SeenInv
<1>t. /\ \A n \in Nodes : /\ voted[n] \subseteq Slots /\ highest_seen[n] \in 0..MaxSlot
                          /\ applied[n] \in 0..MaxSlot
      /\ \A n \in Nodes : \A s \in voted[n] : s <= highest_seen[n]
      /\ Slots \subseteq 0..MaxSlot
      /\ voted \in [Nodes -> SUBSET Slots] /\ DOMAIN highest_seen = Nodes
      /\ DOMAIN applied = Nodes /\ DOMAIN need = Clients
  BY DEF TypeOK, SeenInv, Slots
<1>1. ASSUME NEW n \in Nodes, NEW s \in Slots, Vote(n, s) PROVE SeenInv'
  <2>1. /\ Larger(highest_seen[n], s) \in 0..MaxSlot
        /\ highest_seen[n] <= Larger(highest_seen[n], s) /\ s <= Larger(highest_seen[n], s)
    BY <1>t, LargerProperty
  <2>2. /\ voted' = [voted EXCEPT ![n] = @ \cup {s}]
        /\ highest_seen' = [highest_seen EXCEPT ![n] = Larger(@, s)]
        /\ UNCHANGED <<applied, acked, need>>
    BY <1>1 DEF Vote
  <2>3. \A k \in Nodes : voted[k] \subseteq voted'[k]
    BY <1>t, <2>2
  <2>4. ASSUME NEW k \in Nodes, NEW t \in voted'[k] PROVE t <= highest_seen'[k]
    <3>1. CASE k = n
      <4>1. highest_seen'[k] = Larger(highest_seen[n], s) /\ (t \in voted[n] \/ t = s)
        BY <1>t, <2>2, <2>4, <3>1
      <4>2. CASE t = s
        BY <2>1, <4>1, <4>2
      <4>3. CASE t \in voted[n]
        <5>1. t \in 0..MaxSlot /\ t <= highest_seen[n]
          BY <1>t, <4>3
        <5> QED
          BY <1>t, <2>1, <4>1, <5>1
      <4> QED
        BY <4>1, <4>2, <4>3
    <3>2. CASE k # n
      BY <1>t, <2>2, <2>4, <3>2
    <3> QED
      BY <3>1, <3>2
  <2> QED
    BY <1>a, <2>2, <2>3, <2>4
<1>2. ASSUME NEW n \in Nodes, NEW s \in Slots, See(n, s) PROVE SeenInv'
  <2>1. /\ voted' = voted /\ UNCHANGED <<applied, acked, need>>
        /\ s > highest_seen[n] /\ highest_seen' = [highest_seen EXCEPT ![n] = s]
    BY <1>2 DEF See
  <2>2. ASSUME NEW k \in Nodes, NEW t \in voted[k] PROVE t <= highest_seen'[k]
    <3>1. t <= highest_seen[k] /\ t \in 0..MaxSlot /\ s \in 0..MaxSlot
      BY <1>t
    <3> QED
      BY <1>t, <2>1, <3>1
  <2> QED
    BY <1>a, <2>1, <2>2
<1>3. ASSUME NEW n \in Nodes, NEW s \in Slots, Acknowledge(n, s) PROVE SeenInv'
  <2>1. /\ UNCHANGED <<voted, highest_seen, applied, need>>
        /\ s \notin Skips /\ s <= applied[n] /\ acked' = s
    BY <1>3 DEF Acknowledge
  <2>2. Written(voted, s)
    BY <2>1 DEF SeenInv, Decided, Written, Voters
  <2> QED
    BY <1>a, <1>t, <2>1, <2>2
<1>4. ASSUME NEW n \in Nodes, Apply(n) PROVE SeenInv'
  <2>1. /\ UNCHANGED <<voted, acked, need>> /\ Decided(applied[n] + 1)
        /\ applied' = [applied EXCEPT ![n] = @ + 1]
        /\ highest_seen' = [highest_seen EXCEPT ![n] = Larger(@, applied[n] + 1)]
        /\ applied[n] + 1 \in 0..MaxSlot
    BY <1>4, <1>t DEF Apply
  <2>2. /\ Larger(highest_seen[n], applied[n] + 1) \in 0..MaxSlot
        /\ highest_seen[n] <= Larger(highest_seen[n], applied[n] + 1)
    BY <1>t, <2>1, LargerProperty
  <2>3. ASSUME NEW k \in Nodes, NEW t \in voted[k] PROVE t <= highest_seen'[k]
    <3>1. t <= highest_seen[k] /\ t \in 0..MaxSlot
      BY <1>t
    <3>2. highest_seen'[k] = IF k = n THEN Larger(highest_seen[n], applied[n] + 1)
                             ELSE highest_seen[k]
      BY <1>t, <2>1
    <3> QED
      BY <1>t, <2>2, <3>1, <3>2
  <2>4. ASSUME NEW k \in Nodes, NEW t \in Slots, t <= applied'[k]
        PROVE  t <= applied[k] \/ Decided(t)
    <3>1. t \in Int /\ applied[k] \in Int
      BY <1>t
    <3>2. applied'[k] = IF k = n THEN applied[n] + 1 ELSE applied[k]
      BY <1>t, <2>1
    <3>3. t <= applied[k] \/ t = applied[n] + 1
      BY <2>4, <3>1, <3>2
    <3> QED
      BY <2>1, <3>3
  <2> QED
    BY <1>a, <2>1, <2>3, <2>4
<1>5. ASSUME NEW c \in Clients, Invoke(c) PROVE SeenInv'
  BY <1>5, <1>a, <1>t DEF Invoke
<1>6. ASSUME NEW c \in Clients, Leave(c) PROVE SeenInv'
  BY <1>6, <1>a, <1>t DEF Leave
<1>7. CASE begin_read_cohort
  BY <1>7, <1>a, <1>t DEF begin_read_cohort
<1>8. ASSUME NEW peers \in SUBSET Peers, Retry(peers) PROVE SeenInv'
  BY <1>8, <1>a, <1>t DEF Retry
<1>9. ASSUME NEW m \in requests, respond_frontier(m) PROVE SeenInv'
  BY <1>9, <1>a, <1>t DEF respond_frontier
<1>10. ASSUME NEW m \in replies, receive_frontier(m) PROVE SeenInv'
  BY <1>10, <1>a, <1>t DEF receive_frontier
<1>11. CASE finish_read_cohort
  <2>1. UNCHANGED consensus /\ \A c \in Clients : need'[c] \in {0, need[c]}
    BY <1>11 DEF finish_read_cohort
  <2> QED
    BY <2>1, <1>a, <1>t
<1>12. ASSUME NEW p \in Peers, Reconnect(p) PROVE SeenInv'
  BY <1>12, <1>a, <1>t DEF Reconnect
<1>13. ASSUME NEW p \in Peers, PeerRestart(p) PROVE SeenInv'
  <2>1. p \in Nodes /\ \A s \in voted[p] : s <= Resumed(p)
    BY ResumedProperty
  <2>2. /\ UNCHANGED <<voted, applied, acked, need>>
        /\ highest_seen' = [highest_seen EXCEPT ![p] = Resumed(p)]
    BY <1>13 DEF PeerRestart
  <2>3. \A k \in Nodes : \A t \in voted[k] : t <= highest_seen'[k]
    BY <1>t, <2>1, <2>2
  <2> QED
    BY <1>a, <2>2, <2>3
<1>14. CASE ReaderRestart
  <2>1. \A s \in voted[Reader] : s <= Resumed(Reader)
    BY ResumedProperty
  <2>2. /\ UNCHANGED <<voted, applied, acked>> /\ need' = [c \in Clients |-> 0]
        /\ highest_seen' = [highest_seen EXCEPT ![Reader] = Resumed(Reader)]
    BY <1>14 DEF ReaderRestart
  <2>3. \A k \in Nodes : \A t \in voted[k] : t <= highest_seen'[k]
    BY <1>t, <2>1, <2>2
  <2> QED
    BY <1>a, <2>2, <2>3
<1>15. CASE UNCHANGED vars
  BY <1>15, <1>a, <1>t DEF vars
<1> QED
  BY <1>1, <1>2, <1>3, <1>4, <1>5, <1>6, <1>7, <1>8, <1>9, <1>10, <1>11, <1>12, <1>13,
     <1>14, <1>15 DEF Next

\* Tickets, tokens and counts stay those of the active cohort: nobody joins a
\* cohort after it began, and the last member to leave retires it.
LEMMA CohortStep ==
  ASSUME TypeOK, CohortInv, [Next]_vars
  PROVE  CohortInv'
<1>0. /\ MaxToken \in Nat /\ ReadQuorum \in Nat /\ Tokens \subseteq Nat
      /\ frontier_token \in Nat /\ read_cohort \in Nat
      /\ ticket \in [Clients -> Tokens] /\ conn \in [Clients -> {"idle", "waiting", "answered"}]
      /\ \A m \in requests : m.token \in Nat
      /\ \A m \in replies : m.token \in Nat
      /\ Cardinality({}) = 0
  BY ReadAssumption, FS_EmptySet DEF TypeOK, Tokens
<1> USE <1>0 DEF consensus, reads, cohort, links
<1>1. ASSUME NEW n \in Nodes, NEW s \in Slots, Vote(n, s) \/ See(n, s) \/ Acknowledge(n, s)
      PROVE  CohortInv'
  BY <1>1 DEF Vote, See, Acknowledge, CohortInv
<1>2. ASSUME NEW n \in Nodes, Apply(n) PROVE CohortInv'
  BY <1>2 DEF Apply, CohortInv
<1>3. ASSUME NEW c \in Clients, Invoke(c) PROVE CohortInv'
  BY <1>3 DEF Invoke, CohortInv
<1>4. ASSUME NEW c \in Clients, Leave(c) PROVE CohortInv'
  <2>1. /\ conn' = [conn EXCEPT ![c] = "idle"] /\ ticket' = [ticket EXCEPT ![c] = 0]
        /\ read_cohort' = IF ticket[c] # 0 /\ ticket[c] = read_cohort
                             /\ \A d \in Clients \ {c} : ticket[d] # ticket[c]
                          THEN 0 ELSE read_cohort
        /\ UNCHANGED <<frontier_token, frontier_high, frontier_replies,
                       frontier_voters, frontier_ready, frontier_replied, links>>
    BY <1>4 DEF Leave, release_read
  <2>2. \A d \in Clients : ticket'[d] = IF d = c THEN 0 ELSE ticket[d]
    BY <2>1
  <2>3. CASE read_cohort' = 0
    <3>1. \A d \in Clients : ticket'[d] = 0
      BY <2>1, <2>2, <2>3 DEF CohortInv
    <3> QED
      BY <2>1, <2>3, <3>1 DEF CohortInv
  <2>4. CASE read_cohort' # 0
    <3>1. read_cohort' = read_cohort
      BY <2>1, <2>4
    <3>2. \E d \in Clients : ticket'[d] = read_cohort
      BY <2>1, <2>2, <2>4 DEF CohortInv
    <3>3. \A d \in Clients : conn'[d] # "waiting" => ticket'[d] = 0
      BY <2>1, <2>2 DEF CohortInv
    <3> QED
      BY <2>1, <2>2, <3>1, <3>2, <3>3 DEF CohortInv
  <2> QED
    BY <2>3, <2>4
<1>5. CASE begin_read_cohort
  <2>1. /\ read_cohort = 0 /\ \E c \in Clients : conn[c] = "waiting"
        /\ frontier_token' = frontier_token + 1 /\ read_cohort' = frontier_token + 1
        /\ ticket' = [c \in Clients |-> IF conn[c] = "waiting" THEN frontier_token + 1
                                        ELSE ticket[c]]
        /\ frontier_replies' = 0 /\ frontier_voters' = {}
        /\ frontier_ready' = (ReadQuorum <= 1)
        /\ UNCHANGED <<conn, replies>>
    BY <1>5 DEF begin_read_cohort
  <2>2. PICK peers \in SUBSET Peers :
            requests' = requests \cup {[peer |-> p, token |-> frontier_token + 1] : p \in peers}
    BY <1>5 DEF begin_read_cohort, send_frontier_requests
  <2>3. \A m \in requests' : m.token <= frontier_token'
    BY <2>1, <2>2 DEF CohortInv
  <2>4. \A m \in replies' : m.token <= frontier_token'
    BY <2>1 DEF CohortInv
  <2>5. \A c \in Clients : ticket'[c] = IF conn[c] = "waiting" THEN frontier_token + 1 ELSE 0
    BY <2>1 DEF CohortInv
  <2>6. frontier_replies' = Cardinality(frontier_voters')
    BY <2>1
  <2>7. ASSUME frontier_ready' PROVE frontier_replies' >= ReadQuorum - 1
    <3>1. ReadQuorum <= 1
      BY <2>1, <2>7, Zenon
    <3> QED
      BY <2>1, <3>1
  <2> QED
    BY <2>1, <2>3, <2>4, <2>5, <2>6, <2>7 DEF CohortInv
<1>6. ASSUME NEW peers \in SUBSET Peers, Retry(peers) PROVE CohortInv'
  <2>1. /\ requests' = requests \cup {[peer |-> p, token |-> read_cohort] : p \in peers}
        /\ read_cohort # 0 /\ UNCHANGED <<reads, cohort, replies>>
    BY <1>6 DEF Retry, send_frontier_requests
  <2>2. \A m \in requests' : m.token <= frontier_token
    BY <2>1 DEF CohortInv
  <2> QED
    BY <2>1, <2>2 DEF CohortInv
<1>7. ASSUME NEW m \in requests, respond_frontier(m) PROVE CohortInv'
  <2>1. m.token <= frontier_token
    BY DEF CohortInv
  <2> QED
    BY <1>7, <2>1 DEF respond_frontier, CohortInv
<1>8. ASSUME NEW m \in replies, receive_frontier(m) PROVE CohortInv'
  <2>1. CASE Counts(m)
    <3>1. /\ frontier_voters \subseteq Nodes /\ m.peer \notin frontier_voters
      BY <2>1 DEF TypeOK, Peers, Counts
    <3>2. IsFiniteSet(frontier_voters)
      BY <3>1, NodeSets
    <3>3. Cardinality(frontier_voters \cup {m.peer}) = Cardinality(frontier_voters) + 1
      BY <3>1, <3>2, FS_AddElement
    <3>4. /\ replies' = replies \ {m}
          /\ frontier_voters' = frontier_voters \cup {m.peer}
          /\ frontier_replies' = frontier_replies + 1
          /\ frontier_ready' = (frontier_replies + 1 >= ReadQuorum - 1)
          /\ UNCHANGED <<read_cohort, frontier_token, reads, requests>>
      BY <1>8, <2>1 DEF receive_frontier
    <3>5. frontier_replies' = Cardinality(frontier_voters')
      BY <3>3, <3>4 DEF CohortInv
    <3>6. ASSUME frontier_ready' PROVE frontier_replies' >= ReadQuorum - 1
      <4>1. frontier_replies + 1 >= ReadQuorum - 1
        BY <3>4, <3>6, Zenon
      <4> QED
        BY <3>4, <4>1
    <3> QED
      BY <3>4, <3>5, <3>6 DEF CohortInv
  <2>2. CASE ~Counts(m)
    BY <1>8, <2>2 DEF receive_frontier, CohortInv
  <2> QED
    BY <2>1, <2>2
<1>9. CASE finish_read_cohort
  <2>1. /\ read_cohort' = 0
        /\ \A c \in Clients : ticket'[c] = IF ticket[c] = read_cohort THEN 0 ELSE ticket[c]
        /\ UNCHANGED <<frontier_token, frontier_replies, frontier_voters, frontier_ready, links>>
    BY <1>9 DEF finish_read_cohort
  <2>2. \A c \in Clients : ticket'[c] = 0
    BY <2>1 DEF CohortInv
  <2> QED
    BY <2>1, <2>2 DEF CohortInv
<1>10. ASSUME NEW p \in Peers, Reconnect(p) PROVE CohortInv'
  BY <1>10 DEF Reconnect, LoseLink, CohortInv
<1>11. ASSUME NEW p \in Peers, PeerRestart(p) PROVE CohortInv'
  BY <1>11 DEF PeerRestart, LoseLink, CohortInv
<1>12. CASE ReaderRestart
  BY <1>12 DEF ReaderRestart, CohortInv
<1>13. CASE UNCHANGED vars
  BY <1>13 DEF vars, CohortInv
<1> QED
  BY <1>1, <1>2, <1>3, <1>4, <1>5, <1>6, <1>7, <1>8, <1>9, <1>10, <1>11, <1>12, <1>13
  DEF Next

\* Steps that leave the active cohort, its frontier and its replies alone, or
\* lose some of the replies, keep the quorum behind a slot.
LEMMA CoversStays ==
  ASSUME NEW x, Covers(x),
         \A n \in Nodes : voted[n] \subseteq voted'[n], replies' \subseteq replies,
         UNCHANGED <<frontier_high, frontier_voters, read_cohort>>
  PROVE  Covers(x)'
<1>1. PICK W \in SUBSET Nodes :
        /\ Cardinality(W) >= WriteQuorum
        /\ \A p \in W : x \in voted[p]
        /\ Reader \in W => x <= frontier_high
        /\ \A p \in W : p \in frontier_voters => x <= frontier_high
        /\ \A m \in replies : m.token = read_cohort /\ m.peer \in W => x <= m.frontier
  BY DEF Covers
<1>2. \A p \in W : x \in voted'[p]
  BY <1>1
<1> QED
  BY <1>1, <1>2 DEF Covers

\* A cohort begins with the voters of every write acknowledged so far; a reply
\* of one of them reports at least that write, and so does the count of it.
LEMMA MembersStep ==
  ASSUME FreshInv, [Next]_vars
  PROVE  MembersInv'
<1>0. /\ MaxSlot \in Nat /\ MaxToken \in Nat /\ Reader \in Nodes /\ Peers \subseteq Nodes
      /\ Tokens \subseteq Nat /\ frontier_token \in Nat /\ read_cohort \in Nat
      /\ TypeOK /\ SeenInv /\ CohortInv /\ MembersInv
      /\ voted \in [Nodes -> SUBSET Slots] /\ ticket \in [Clients -> Tokens]
      /\ DOMAIN need = Clients /\ DOMAIN conn = Clients
  BY ReadAssumption DEF FreshInv, TypeOK, Tokens, Peers
<1> USE <1>0 DEF consensus, reads, cohort, links
<1>m. ASSUME read_cohort' = read_cohort,
             \A c \in Clients : ticket'[c] = read_cohort =>
                 ticket[c] = read_cohort /\ need'[c] = need[c],
             \A x \in Slots : Covers(x) => Covers(x)'
      PROVE  MembersInv'
  <2>1. \A x \in Slots : Needed(x)' => Needed(x)
    BY <1>m DEF Needed
  <2> QED
    BY <1>m, <2>1 DEF MembersInv
<1>s. ASSUME \A n \in Nodes : voted[n] \subseteq voted'[n], replies' \subseteq replies,
             UNCHANGED <<reads, frontier_high, frontier_voters, read_cohort>>
      PROVE  MembersInv'
  <2>1. \A x \in Slots : Covers(x) => Covers(x)'
    BY <1>s, CoversStays
  <2> QED
    BY <1>m, <1>s, <2>1
<1>1. ASSUME NEW n \in Nodes, NEW s \in Slots, Vote(n, s) \/ See(n, s) \/ Acknowledge(n, s)
      PROVE  MembersInv'
  BY <1>1, <1>s DEF Vote, See, Acknowledge
<1>2. ASSUME NEW n \in Nodes, Apply(n) PROVE MembersInv'
  BY <1>2, <1>s DEF Apply
<1>z. ASSUME read_cohort' = 0 PROVE MembersInv'
  BY <1>z DEF MembersInv
<1>3. ASSUME NEW c \in Clients, Invoke(c) PROVE MembersInv'
  <2>1. /\ read_cohort' = read_cohort /\ ticket' = ticket
        /\ need' = [need EXCEPT ![c] = acked]
        /\ UNCHANGED <<voted, replies, frontier_high, frontier_voters>>
    BY <1>3 DEF Invoke
  <2>2. CASE read_cohort = 0
    BY <1>z, <2>1, <2>2
  <2>3. CASE read_cohort # 0
    <3>1. ticket[c] # read_cohort
      BY <1>3, <2>3 DEF Invoke, CohortInv
    <3>2. \A x \in Slots : Covers(x) => Covers(x)'
      BY <2>1, CoversStays
    <3> QED
      BY <1>m, <2>1, <3>1, <3>2
  <2> QED
    BY <2>2, <2>3
<1>4. ASSUME NEW c \in Clients, Leave(c) PROVE MembersInv'
  <2>1. /\ read_cohort' \in {0, read_cohort} /\ ticket' = [ticket EXCEPT ![c] = 0]
        /\ need' = [need EXCEPT ![c] = 0]
        /\ UNCHANGED <<voted, replies, frontier_high, frontier_voters>>
    BY <1>4 DEF Leave, release_read
  <2>2. CASE read_cohort' = 0
    BY <1>z, <2>2
  <2>3. CASE read_cohort' = read_cohort /\ read_cohort # 0
    <3>1. \A d \in Clients : ticket'[d] = read_cohort =>
              ticket[d] = read_cohort /\ need'[d] = need[d]
      BY <2>1, <2>3
    <3>2. \A x \in Slots : Covers(x) => Covers(x)'
      BY <2>1, <2>3, CoversStays
    <3> QED
      BY <1>m, <2>3, <3>1, <3>2
  <2> QED
    BY <2>1, <2>2, <2>3
<1>5. CASE begin_read_cohort
  <2>1. /\ read_cohort = 0 /\ read_cohort' = frontier_token + 1
        /\ ticket' = [c \in Clients |-> IF conn[c] = "waiting" THEN frontier_token + 1
                                        ELSE ticket[c]]
        /\ frontier_high' = highest_seen[Reader] /\ frontier_voters' = {}
        /\ UNCHANGED <<voted, need, replies>>
    BY <1>5 DEF begin_read_cohort
  <2>2. ASSUME NEW x \in Slots, Needed(x)' PROVE Covers(x)'
    <3>1. x # 0 /\ Written(voted, x)
      BY <2>1, <2>2 DEF Needed, SeenInv, Slots
    <3>2. Voters(voted, x) \in SUBSET Nodes /\ Cardinality(Voters(voted, x)) >= WriteQuorum
      BY <3>1 DEF Written, Voters
    <3>3. \A p \in Voters(voted, x) : x \in voted'[p]
      BY <2>1 DEF Voters
    <3>4. Reader \in Voters(voted, x) => x <= frontier_high'
      BY <2>1 DEF Voters, SeenInv
    <3>5. \A m \in replies' : m.token # read_cohort'
      <4>1. ASSUME NEW m \in replies PROVE m.token # frontier_token + 1
        <5>1. m.token \in Nat /\ m.token <= frontier_token
          BY DEF TypeOK, CohortInv
        <5> QED
          BY <5>1
      <4> QED
        BY <2>1, <4>1
    <3> QED
      BY <2>1, <3>2, <3>3, <3>4, <3>5 DEF Covers
  <2> QED
    BY <2>2 DEF MembersInv
<1>6. ASSUME NEW peers \in SUBSET Peers, Retry(peers) PROVE MembersInv'
  BY <1>6, <1>s DEF Retry
<1>7. ASSUME NEW m \in requests, respond_frontier(m) PROVE MembersInv'
  <2>1. /\ m.peer \in Nodes
        /\ replies' = replies \cup {[peer |-> m.peer, token |-> m.token,
                                     frontier |-> highest_seen[m.peer]]}
        /\ UNCHANGED <<voted, reads, frontier_high, frontier_voters, read_cohort>>
    BY <1>7 DEF respond_frontier, TypeOK
  <2>2. ASSUME NEW x \in Slots, Covers(x) PROVE Covers(x)'
    <3>1. PICK W \in SUBSET Nodes :
            /\ Cardinality(W) >= WriteQuorum
            /\ \A p \in W : x \in voted[p]
            /\ Reader \in W => x <= frontier_high
            /\ \A p \in W : p \in frontier_voters => x <= frontier_high
            /\ \A r \in replies : r.token = read_cohort /\ r.peer \in W => x <= r.frontier
      BY <2>2 DEF Covers
    <3>2. m.peer \in W => x <= highest_seen[m.peer]
      BY <2>1, <3>1 DEF SeenInv
    <3>3. \A r \in replies' : r.token = read_cohort /\ r.peer \in W => x <= r.frontier
      BY <2>1, <3>1, <3>2
    <3> QED
      BY <2>1, <3>1, <3>3 DEF Covers
  <2> QED
    BY <1>m, <2>1, <2>2
<1>8. ASSUME NEW m \in replies, receive_frontier(m) PROVE MembersInv'
  <2>1. CASE Counts(m)
    <3>1. /\ replies' = replies \ {m} /\ m.token = read_cohort
          /\ frontier_voters' = frontier_voters \cup {m.peer}
          /\ frontier_high' = Larger(frontier_high, m.frontier)
          /\ UNCHANGED <<voted, reads, read_cohort>>
      BY <1>8, <2>1 DEF receive_frontier, Counts
    <3>2. m.frontier \in 0..MaxSlot /\ frontier_high \in 0..MaxSlot
      BY DEF TypeOK
    <3>3. /\ frontier_high' \in 0..MaxSlot
          /\ frontier_high <= frontier_high' /\ m.frontier <= frontier_high'
      BY <3>1, <3>2, LargerProperty
    <3>4. ASSUME NEW x \in Slots, Covers(x) PROVE Covers(x)'
      <4>1. PICK W \in SUBSET Nodes :
              /\ Cardinality(W) >= WriteQuorum
              /\ \A p \in W : x \in voted[p]
              /\ Reader \in W => x <= frontier_high
              /\ \A p \in W : p \in frontier_voters => x <= frontier_high
              /\ \A r \in replies : r.token = read_cohort /\ r.peer \in W => x <= r.frontier
        BY <3>4 DEF Covers
      <4>2. x \in Nat /\ \A h \in 0..MaxSlot : h <= frontier_high' /\ x <= h => x <= frontier_high'
        BY <3>3 DEF Slots
      <4>3. Reader \in W => x <= frontier_high'
        BY <3>2, <3>3, <4>1, <4>2
      <4>4. ASSUME NEW p \in W, p \in frontier_voters' PROVE x <= frontier_high'
        <5>1. CASE p \in frontier_voters
          BY <3>2, <3>3, <4>1, <4>2, <5>1
        <5>2. CASE p = m.peer
          <6>1. x <= m.frontier
            BY <3>1, <4>1, <5>2
          <6> QED
            BY <3>2, <3>3, <4>2, <6>1
        <5> QED
          BY <3>1, <4>4, <5>1, <5>2
      <4> QED
        BY <3>1, <4>1, <4>3, <4>4 DEF Covers
    <3> QED
      BY <1>m, <3>1, <3>4
  <2>2. CASE ~Counts(m)
    <3>1. replies' \subseteq replies /\ UNCHANGED <<voted, reads, cohort>>
      BY <1>8, <2>2 DEF receive_frontier
    <3> QED
      BY <1>s, <3>1
  <2> QED
    BY <2>1, <2>2
<1>9. CASE finish_read_cohort
  BY <1>9, <1>z DEF finish_read_cohort
<1>10. ASSUME NEW p \in Peers, Reconnect(p) PROVE MembersInv'
  BY <1>10, <1>s DEF Reconnect, LoseLink
<1>11. ASSUME NEW p \in Peers, PeerRestart(p) PROVE MembersInv'
  BY <1>11, <1>s DEF PeerRestart, LoseLink
<1>12. CASE ReaderRestart
  BY <1>12, <1>z DEF ReaderRestart
<1>13. CASE UNCHANGED vars
  BY <1>13, <1>s DEF vars
<1> QED
  BY <1>1, <1>2, <1>3, <1>4, <1>5, <1>6, <1>7, <1>8, <1>9, <1>10, <1>11, <1>12, <1>13
  DEF Next

-----------------------------------------------------------------------------
\* The counted nodes and the reader are a read quorum; it meets the write
\* quorum behind every write a member must observe.
LEMMA FreshBounds ==
  ASSUME FreshInv
  PROVE  FrontierBoundsMembers
<1> SUFFICES ASSUME read_cohort # 0, frontier_ready, NEW c \in Clients, ticket[c] = read_cohort
             PROVE  need[c] <= frontier_high
  BY DEF FrontierBoundsMembers
<1>0. /\ TypeOK /\ CohortInv /\ MembersInv /\ Reader \in Nodes
      /\ frontier_high \in Nat /\ need[c] \in 0..MaxSlot /\ MaxSlot \in Nat
      /\ frontier_voters \subseteq Nodes /\ Reader \notin frontier_voters
  BY ReadAssumption DEF FreshInv, TypeOK, Peers
<1>1. CASE need[c] = 0
  BY <1>0, <1>1
<1>2. CASE need[c] # 0
  <2> DEFINE x == need[c]
             R == frontier_voters \cup {Reader}
  <2>1. x \in Slots /\ Needed(x)
    BY <1>0, <1>2 DEF Slots, Needed
  <2> HIDE DEF x
  <2>2. Covers(x)
    BY <1>0, <2>1 DEF MembersInv
  <2>3. PICK W \in SUBSET Nodes :
          /\ Cardinality(W) >= WriteQuorum
          /\ Reader \in W => x <= frontier_high
          /\ \A p \in W : p \in frontier_voters => x <= frontier_high
    BY <2>2 DEF Covers
  <2>4. IsFiniteSet(frontier_voters)
    BY <1>0, NodeSets
  <2>5. Cardinality(R) = Cardinality(frontier_voters) + 1
    BY <1>0, <2>4, FS_AddElement
  <2>6. R \subseteq Nodes
    BY <1>0
  <2>7. Cardinality(frontier_voters) >= ReadQuorum - 1
    BY <1>0 DEF CohortInv
  <2>8. Cardinality(frontier_voters) \in Nat /\ Cardinality(W) \in Nat
    BY <1>0, <2>3, NodeSets
  <2>9. Cardinality(R) + Cardinality(W) > Cardinality(Nodes)
    <3> HIDE DEF R
    <3> QED
      BY <2>3, <2>5, <2>7, <2>8, NodesFinite
  <2>10. R \cap W # {}
    <3> HIDE DEF R
    <3> QED
      BY <2>3, <2>6, <2>9, NodesFinite, FS_MajoritiesIntersect
  <2>11. x <= frontier_high
    BY <2>3, <2>10
  <2> QED
    BY <2>11 DEF x
<1> QED
  BY <1>1, <1>2

\* Only finish_read_cohort answers a read, and it answers the members from a
\* prefix that has reached the frontier.
LEMMA AnswerStep ==
  ASSUME FreshInv, [Next]_vars, NEW c \in Clients,
         conn[c] = "waiting", conn'[c] = "answered"
  PROVE  applied[Reader] >= need[c]
<1>0. TypeOK /\ conn \in [Clients -> {"idle", "waiting", "answered"}]
  BY DEF FreshInv, TypeOK
<1> USE <1>0 DEF consensus, reads, cohort, links
<1>1. finish_read_cohort
  <2>1. conn' # conn
    OBVIOUS
  <2>2. \A d \in Clients : ~Invoke(d) /\ ~Leave(d)
    BY DEF Invoke, Leave
  <2>3. ~begin_read_cohort /\ ~ReaderRestart
    BY <2>1 DEF begin_read_cohort, ReaderRestart
  <2>4. \A n \in Nodes, s \in Slots : ~Vote(n, s) /\ ~See(n, s) /\ ~Acknowledge(n, s)
    BY <2>1 DEF Vote, See, Acknowledge
  <2>5. \A n \in Nodes : ~Apply(n)
    BY <2>1 DEF Apply
  <2>6. \A peers \in SUBSET Peers : ~Retry(peers)
    BY <2>1 DEF Retry
  <2>7. \A m \in requests : ~respond_frontier(m)
    BY <2>1 DEF respond_frontier
  <2>8. \A m \in replies : ~receive_frontier(m)
    BY <2>1 DEF receive_frontier
  <2>9. \A p \in Peers : ~Reconnect(p) /\ ~PeerRestart(p)
    BY <2>1 DEF Reconnect, PeerRestart
  <2>10. vars' # vars
    BY <2>1 DEF vars
  <2> QED
    BY <2>2, <2>3, <2>4, <2>5, <2>6, <2>7, <2>8, <2>9, <2>10 DEF Next
<1>2. /\ read_cohort # 0 /\ frontier_ready /\ applied[Reader] >= frontier_high
      /\ ticket[c] = read_cohort
  BY <1>1 DEF finish_read_cohort
<1>3. need[c] <= frontier_high
  BY <1>2, FreshBounds DEF FrontierBoundsMembers
<1>4. applied[Reader] \in Int /\ frontier_high \in Int /\ need[c] \in Int
  BY ReadAssumption DEF TypeOK
<1> QED
  BY <1>2, <1>3, <1>4

\* Initially nobody has voted, nothing is acknowledged and nobody reads.
LEMMA FreshInit ==
  ASSUME Init
  PROVE  FreshInv
<1>0. /\ MaxSlot \in Nat /\ MaxToken \in Nat /\ MaxFaults \in Nat /\ N \in Nat
      /\ Cardinality({}) = 0
  BY ReadAssumption, FS_EmptySet
<1>1. TypeOK
  <2>1. frontier_ready \in BOOLEAN
    BY DEF Init
  <2> QED
    BY <1>0, <2>1 DEF Init, TypeOK, Tokens
<1>2. SeenInv
  BY <1>0 DEF Init, SeenInv, Written, Slots
<1>3. CohortInv
  BY <1>0 DEF Init, CohortInv
<1>4. MembersInv
  BY DEF Init, MembersInv
<1> QED
  BY <1>1, <1>2, <1>3, <1>4 DEF FreshInv

\* The inductive invariant holds in every reachable state.
THEOREM FreshTheorem == Spec => []FreshInv
<1>1. Init => FreshInv
  BY FreshInit
<1>2. FreshInv /\ [Next]_vars => FreshInv'
  <2> SUFFICES ASSUME FreshInv, [Next]_vars PROVE FreshInv'
    OBVIOUS
  <2>1. TypeOK /\ SeenInv /\ CohortInv
    BY DEF FreshInv
  <2>2. TypeOK'
    BY <2>1, TypeStep
  <2>3. SeenInv'
    BY <2>1, SeenStep
  <2>4. CohortInv'
    BY <2>1, CohortStep
  <2>5. MembersInv'
    BY MembersStep
  <2> QED
    BY <2>2, <2>3, <2>4, <2>5 DEF FreshInv
<1> QED
  BY <1>1, <1>2, PTL DEF Spec

\* A cohort that everyone left is retired, and no connection holds a ticket of
\* a cohort that is over (release_read, finish_read_cohort).
THEOREM CohortHasMembersTheorem == Spec => []CohortHasMembers
<1>1. FreshInv => CohortHasMembers
  BY DEF FreshInv, CohortInv, CohortHasMembers
<1> QED
  BY <1>1, FreshTheorem, PTL

\* Once the quorum has answered, the frontier bounds every write acknowledged
\* before any member of the cohort was invoked (receive_frontier).
THEOREM FrontierBoundsMembersTheorem == Spec => []FrontierBoundsMembers
<1>1. FreshInv => FrontierBoundsMembers
  BY FreshBounds
<1> QED
  BY <1>1, FreshTheorem, PTL

\* Linearizable reads are fresh: an answered read observes every write that
\* any node acknowledged before the read was invoked, for every membership
\* with intersecting quorums, any clients and any number of lost links and
\* restarts (finish_read_cohort).
THEOREM ReadsAreFreshTheorem == Spec => ReadsAreFresh
<1>1. FreshInv /\ [Next]_vars =>
          [\A c \in Clients : conn[c] = "waiting" /\ conn'[c] = "answered" =>
              applied[Reader] >= need[c]]_vars
  BY AnswerStep
<1> QED
  BY <1>1, FreshTheorem, PTL DEF Spec, ReadsAreFresh
=============================================================================
