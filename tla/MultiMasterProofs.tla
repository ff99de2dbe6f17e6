------------------------- MODULE MultiMasterProofs -------------------------
(***************************************************************************)
(* Proof that the multi-master protocol agrees, for any membership, any    *)
(* slots, values and ballots, and any pair of intersecting quorums.        *)
(*                                                                         *)
(* A crash takes a host back to its journal, and closing a group makes its *)
(* memory durable and its messages public.  The invariant therefore speaks *)
(* of every state the cluster could be brought to by closing the groups of *)
(* some hosts and crashing the others: Worlds.  In each of those the       *)
(* ledgers and messages satisfy the invariant of a plain Paxos with fast   *)
(* round-zero ballots, PaxosInv.  Closing a group or crashing only changes *)
(* which world is the present one; every other step is a step of plain     *)
(* Paxos in the worlds where its host has closed its group.                *)
(***************************************************************************)
EXTENDS MultiMaster, FiniteSetTheorems, TLAPS

-----------------------------------------------------------------------------
\* The present state after the hosts in S have closed their groups and the
\* others have crashed.
WorldLedger(S) == [k \in Nodes |-> IF k \in S THEN ledger[k] ELSE disk[k]]
WorldMsgs(S) == msgs \cup UNION {staged[k] : k \in S}

\* Some Accept for value v in slot s at ballot b is in M.
AcceptIn(M, s, b, v) ==
    \E m \in M : m.type = "Accept" /\ m.slot = s /\ m.bal = b /\ m.val = v

\* Node k has voted in slot s at ballot b: as the proposer or as an acceptor.
VotedIn(M, k, s, b) ==
    \E m \in M : /\ m.type \in {"Accept", "Accepted"}
                 /\ m.from = k /\ m.slot = s /\ m.bal = b

\* A value is decided by a write quorum of votes or, a no-op, by its owner (M2).
ByQuorum(M, s, b, v) ==
    /\ AcceptIn(M, s, b, v)
    /\ \E W \in SUBSET Nodes : /\ Cardinality(W) >= WriteQuorum
                               /\ \A k \in W : VotedIn(M, k, s, b)

DecidedIn(M, s, v) ==
    \/ v = Noop /\ AcceptIn(M, s, 0, Noop)
    \/ \E b \in Ballots : ByQuorum(M, s, b, v)

\* No quorum of votes at ballot c is possible any more.
Blocked(D, M, s, c) ==
    \E Q \in SUBSET Nodes :
        /\ Cardinality(Q) >= ReadQuorum
        /\ \A k \in Q : D[k].promise[s] > c /\ ~VotedIn(M, k, s, c)

\* No value but v is or will be decided by a quorum below ballot b.
SafeAt(D, M, s, b, v) ==
    \A c \in Ballots : c < b => AcceptIn(M, s, c, v) \/ Blocked(D, M, s, c)

-----------------------------------------------------------------------------
\* What a ledger holds is covered by messages, and the messages of its node by it.
LedgerInv(D, M, n, s) ==
    /\ D[n].vote[s] # NoVote =>
          /\ D[n].vote[s].bal <= D[n].promise[s]
          /\ AcceptIn(M, s, D[n].vote[s].bal, D[n].vote[s].val)
          /\ VotedIn(M, n, s, D[n].vote[s].bal)
    /\ \A b \in Ballots : VotedIn(M, n, s, b) => b <= D[n].vote[s].bal
    /\ D[n].chosen[s] # None => DecidedIn(M, s, D[n].chosen[s])

PrepareInv(D, M, m) ==
    /\ m.from = ballot_node(m.bal, m.slot)
    /\ m.bal <= D[m.from].promise[m.slot]

\* A promise reports the last vote before it, and is given once.
PromiseInv(D, M, m) ==
    /\ m.bal <= D[m.from].promise[m.slot]
    /\ m.from # ballot_node(m.bal, m.slot)
    /\ m.vote.bal < m.bal
    /\ m.vote # NoVote => AcceptIn(M, m.slot, m.vote.bal, m.vote.val)
    /\ \A c \in Ballots : m.vote.bal < c /\ c < m.bal => ~VotedIn(M, m.from, m.slot, c)
    /\ m.chosen # None => DecidedIn(M, m.slot, m.chosen)
    /\ \A k \in M : k.type = "Promise" /\ k.from = m.from /\ k.slot = m.slot /\ k.bal = m.bal
                       => k = m

\* A ballot has one proposer and one value, which is safe; values come from
\* round zero, all others are no-ops.
AcceptInv(D, M, m) ==
    /\ m.from = ballot_node(m.bal, m.slot)
    /\ SafeAt(D, M, m.slot, m.bal, m.val)
    /\ m.val = Noop \/ AcceptIn(M, m.slot, 0, m.val)
    /\ \A k \in M : k.type = "Accept" /\ k.slot = m.slot /\ k.bal = m.bal => k.val = m.val

AcceptedInv(M, m) == \E v \in Proposals : AcceptIn(M, m.slot, m.bal, v)

MessageInv(D, M, m) ==
    /\ m.type = "Prepare" => PrepareInv(D, M, m)
    /\ m.type = "Promise" => PromiseInv(D, M, m)
    /\ m.type = "Accept" => AcceptInv(D, M, m)
    /\ m.type = "Accepted" => AcceptedInv(M, m)
    /\ m.type = "Commit" => DecidedIn(M, m.slot, m.val)

PaxosInv(D, M) ==
    /\ \A n \in Nodes, s \in Slots : LedgerInv(D, M, n, s)
    /\ \A m \in M : MessageInv(D, M, m)

\* Memory extends the journal.
JournalBehindLedger ==
    \A n \in Nodes, s \in Slots :
        /\ disk[n].promise[s] <= ledger[n].promise[s]
        /\ disk[n].vote[s].bal <= ledger[n].vote[s].bal
        /\ disk[n].chosen[s] # None => ledger[n].chosen[s] = disk[n].chosen[s]

\* The inductive invariant.
WorldsInv ==
    /\ TypeOK
    /\ JournalBehindLedger
    /\ \A S \in SUBSET Nodes : PaxosInv(WorldLedger(S), WorldMsgs(S))

-----------------------------------------------------------------------------
\* The fields of a message, by its type.
LEMMA MessageTypes ==
  ASSUME NEW m \in Messages
  PROVE  /\ m.type \in {"Prepare", "Promise", "Accept", "Accepted", "Commit"}
         /\ m.slot \in Slots
         /\ m.type # "Commit" => m.from \in Nodes /\ m.bal \in Ballots
         /\ m.type = "Promise" => m.vote \in Votes /\ m.chosen \in Proposals \cup {None}
         /\ m.type \in {"Accept", "Commit"} => m.val \in Proposals
BY DEF Messages

\* Ballots are numbers, and a vote is none or has one.
LEMMA BallotTypes ==
  /\ \A b \in Ballots : b \in Nat
  /\ 0 \in Ballots
  /\ NoVote.bal = -1
  /\ \A w \in Votes : w = NoVote \/ (w.bal \in Ballots /\ w.val \in Proposals)
  /\ \A w \in Votes : w.bal \in Int /\ w.bal >= -1
  /\ \A w \in Votes : w # NoVote <=> w.bal >= 0
<1>1. \A b \in Ballots : b \in Nat
  BY MembersAssumption
<1>2. 0 \in Ballots
  BY MembersAssumption
<1>3. NoVote.bal = -1
  BY DEF NoVote
<1>4. \A w \in Votes : w = NoVote \/ (w.bal \in Ballots /\ w.val \in Proposals)
  BY DEF Votes
<1> QED
  BY <1>1, <1>2, <1>3, <1>4

\* A read quorum and a write quorum have a node in common.
LEMMA QuorumsMeet ==
  ASSUME NEW Q \in SUBSET Nodes, NEW W \in SUBSET Nodes,
         Cardinality(Q) >= ReadQuorum, Cardinality(W) >= WriteQuorum
  PROVE  \E k \in Nodes : k \in Q /\ k \in W
<1>1. N \in Nat /\ N >= 1
  BY MembersAssumption
<1>2. IsFiniteSet(Nodes) /\ Cardinality(Nodes) = N
  BY <1>1, FS_Interval DEF Nodes
<1>3. Cardinality(Q) \in Nat /\ Cardinality(W) \in Nat
  BY <1>2, FS_Subset, FS_CardinalityType
<1>4. Cardinality(Q) + Cardinality(W) > Cardinality(Nodes)
  BY <1>1, <1>2, <1>3, QuorumAssumption
<1>5. Q \cap W # {}
  BY <1>2, <1>4, FS_MajoritiesIntersect
<1> QED
  BY <1>5

\* Messages only accumulate, and with them what they witness.
LEMMA Monotone ==
  ASSUME NEW M, NEW M1, M \subseteq M1
  PROVE  /\ \A s, b, v : AcceptIn(M, s, b, v) => AcceptIn(M1, s, b, v)
         /\ \A k, s, b : VotedIn(M, k, s, b) => VotedIn(M1, k, s, b)
         /\ \A s, v : DecidedIn(M, s, v) => DecidedIn(M1, s, v)
<1>1. \A s, b, v : AcceptIn(M, s, b, v) => AcceptIn(M1, s, b, v)
  BY DEF AcceptIn
<1>2. \A k, s, b : VotedIn(M, k, s, b) => VotedIn(M1, k, s, b)
  BY DEF VotedIn
<1>3. \A s, b, v : ByQuorum(M, s, b, v) => ByQuorum(M1, s, b, v)
  BY <1>1, <1>2 DEF ByQuorum
<1>4. \A s, v : DecidedIn(M, s, v) => DecidedIn(M1, s, v)
  BY <1>1, <1>3 DEF DecidedIn
<1> QED
  BY <1>1, <1>2, <1>4

-----------------------------------------------------------------------------
\* The types of a world.
World(D, M) == D \in [Nodes -> Ledgers] /\ M \subseteq Messages

\* Accepts of one slot and ballot carry one value.
LEMMA OneValue ==
  ASSUME NEW D, NEW M, PaxosInv(D, M), NEW s, NEW b, NEW v, NEW w,
         AcceptIn(M, s, b, v), AcceptIn(M, s, b, w)
  PROVE  v = w
BY DEF PaxosInv, MessageInv, AcceptInv, AcceptIn

\* Whoever voted did so for a value that was offered.
LEMMA VoteHasAccept ==
  ASSUME NEW D, NEW M, World(D, M), PaxosInv(D, M), NEW k, NEW s, NEW b, VotedIn(M, k, s, b)
  PROVE  \E v \in Proposals : AcceptIn(M, s, b, v)
<1>1. PICK m \in M : /\ m.type \in {"Accept", "Accepted"}
                     /\ m.from = k /\ m.slot = s /\ m.bal = b
  BY DEF VotedIn
<1>2. CASE m.type = "Accept"
  <2>1. m.val \in Proposals
    BY <1>2, MessageTypes DEF World
  <2> QED
    BY <1>1, <1>2, <2>1 DEF AcceptIn
<1>3. CASE m.type = "Accepted"
  BY <1>1, <1>3 DEF PaxosInv, MessageInv, AcceptedInv
<1> QED
  BY <1>1, <1>2, <1>3

\* A quorum's decision at ballot c binds every later ballot.
LEMMA DecisionBinds ==
  ASSUME NEW D, NEW M, World(D, M), PaxosInv(D, M),
         NEW s \in Slots, NEW c \in Ballots, NEW v, ByQuorum(M, s, c, v),
         NEW b \in Ballots, NEW w, AcceptIn(M, s, b, w), c <= b
  PROVE  w = v
<1>1. PICK W \in SUBSET Nodes : /\ Cardinality(W) >= WriteQuorum
                                /\ \A k \in W : VotedIn(M, k, s, c)
  BY DEF ByQuorum
<1>2. AcceptIn(M, s, c, v)
  BY DEF ByQuorum
<1>3. CASE c = b
  BY <1>2, <1>3, OneValue
<1>4. CASE c < b
  <2>1. SafeAt(D, M, s, b, w)
    BY DEF PaxosInv, MessageInv, AcceptInv, AcceptIn
  <2>2. ~Blocked(D, M, s, c)
    BY <1>1, QuorumsMeet DEF Blocked
  <2>3. AcceptIn(M, s, c, w)
    BY <1>4, <2>1, <2>2 DEF SafeAt
  <2> QED
    BY <1>2, <2>3, OneValue
<1> QED
  BY <1>3, <1>4, BallotTypes

\* Once the owner has offered a no-op in round zero nothing else is offered (M2).
LEMMA OwnersNoopBinds ==
  ASSUME NEW D, NEW M, PaxosInv(D, M), NEW s, AcceptIn(M, s, 0, Noop),
         NEW b, NEW w, AcceptIn(M, s, b, w)
  PROVE  w = Noop
<1>1. w = Noop \/ AcceptIn(M, s, 0, w)
  BY DEF PaxosInv, MessageInv, AcceptInv, AcceptIn
<1> QED
  BY <1>1, OneValue

\* A decided value has been offered.
LEMMA DecidedIsOffered ==
  ASSUME NEW M, NEW s, NEW v, DecidedIn(M, s, v)
  PROVE  \E b \in Ballots : AcceptIn(M, s, b, v)
BY BallotTypes DEF DecidedIn, ByQuorum

\* Two decisions of one slot in one world are the same.
LEMMA WorldAgrees ==
  ASSUME NEW D, NEW M, World(D, M), PaxosInv(D, M), NEW s \in Slots,
         NEW v, NEW w, DecidedIn(M, s, v), DecidedIn(M, s, w)
  PROVE  v = w
<1>1. CASE v = Noop /\ AcceptIn(M, s, 0, Noop)
  BY <1>1, DecidedIsOffered, OwnersNoopBinds
<1>2. CASE w = Noop /\ AcceptIn(M, s, 0, Noop)
  BY <1>2, DecidedIsOffered, OwnersNoopBinds
<1>3. ASSUME NEW b \in Ballots, NEW c \in Ballots, ByQuorum(M, s, b, v), ByQuorum(M, s, c, w)
      PROVE  v = w
  <2>1. AcceptIn(M, s, b, v) /\ AcceptIn(M, s, c, w)
    BY <1>3 DEF ByQuorum
  <2>2. b <= c \/ c <= b
    BY BallotTypes
  <2> QED
    BY <1>3, <2>1, <2>2, DecisionBinds
<1> QED
  BY <1>1, <1>2, <1>3 DEF DecidedIn

-----------------------------------------------------------------------------
\* A step of node n in a world: it may raise promises, and votes only at
\* ballots its promises allow.
Extends(D, M, n, l, out) ==
    /\ \A s \in Slots : D[n].promise[s] <= l.promise[s]
    /\ \A m \in out : m.type \in {"Accept", "Accepted"} =>
          m.from = n /\ D[n].promise[m.slot] <= m.bal

\* Nobody votes below its promise, so a ballot that is blocked stays blocked.
LEMMA NewVotes ==
  ASSUME NEW D, NEW M, World(D, M), NEW n \in Nodes, NEW l \in Ledgers,
         NEW out \in SUBSET Messages, Extends(D, M, n, l, out),
         NEW k \in Nodes, NEW s \in Slots, NEW c \in Ballots,
         VotedIn(M \cup out, k, s, c), ~VotedIn(M, k, s, c)
  PROVE  k = n /\ D[n].promise[s] <= c
BY DEF VotedIn, Extends

\* A safe value stays safe: a blocked ballot stays blocked.
LEMMA SafeStable ==
  ASSUME NEW D, NEW M, World(D, M), NEW n \in Nodes, NEW l \in Ledgers,
         NEW out \in SUBSET Messages, Extends(D, M, n, l, out),
         NEW s \in Slots, NEW b \in Ballots, NEW v, SafeAt(D, M, s, b, v)
  PROVE  SafeAt([D EXCEPT ![n] = l], M \cup out, s, b, v)
<1> DEFINE D1 == [D EXCEPT ![n] = l]
           M1 == M \cup out
<1> SUFFICES ASSUME NEW c \in Ballots, c < b, ~AcceptIn(M1, s, c, v)
             PROVE  Blocked(D1, M1, s, c)
  BY DEF SafeAt
<1>1. ~AcceptIn(M, s, c, v)
  BY Monotone
<1>2. PICK Q \in SUBSET Nodes :
        /\ Cardinality(Q) >= ReadQuorum
        /\ \A k \in Q : D[k].promise[s] > c /\ ~VotedIn(M, k, s, c)
  BY <1>1 DEF SafeAt, Blocked
<1>3. ASSUME NEW k \in Q PROVE D1[k].promise[s] > c /\ ~VotedIn(M1, k, s, c)
  <2>0. /\ D[k].promise[s] \in Nat /\ l.promise[s] \in Nat /\ c \in Nat
        /\ D[k].promise[s] > c /\ ~VotedIn(M, k, s, c)
    BY <1>2, <1>3, BallotTypes DEF World, Ledgers
  <2>1. D1[k].promise[s] >= D[k].promise[s]
    BY <2>0 DEF Extends, World, Ledgers
  <2>2. ~VotedIn(M1, k, s, c)
    BY <2>0, NewVotes
  <2>3. D1[k].promise[s] \in Nat
    BY <2>0 DEF World
  <2> QED
    BY <2>0, <2>1, <2>2, <2>3
<1> QED
  BY <1>2, <1>3 DEF Blocked

\* What the step adds does not contradict what was sent before.
Consistent(M, out) ==
    \A k \in M, m \in out :
        /\ k.type = "Promise" /\ m.type = "Promise" /\ k.from = m.from /\ k.slot = m.slot
              /\ k.bal = m.bal => k = m
        /\ k.type = "Accept" /\ m.type = "Accept" /\ k.slot = m.slot /\ k.bal = m.bal
              => k.val = m.val

\* A step keeps what was true of the earlier messages.
LEMMA OldMessages ==
  ASSUME NEW D, NEW M, World(D, M), PaxosInv(D, M), NEW n \in Nodes, NEW l \in Ledgers,
         NEW out \in SUBSET Messages, Extends(D, M, n, l, out), Consistent(M, out),
         NEW m \in M
  PROVE  MessageInv([D EXCEPT ![n] = l], M \cup out, m)
<1> DEFINE D1 == [D EXCEPT ![n] = l]
           M1 == M \cup out
<1> USE MessageTypes
<1>0. m \in Messages /\ MessageInv(D, M, m)
  BY DEF World, PaxosInv
<1>1. ASSUME NEW k \in Nodes, NEW s \in Slots
      PROVE  /\ D[k].promise[s] \in Nat /\ D1[k].promise[s] \in Nat
             /\ D[k].promise[s] <= D1[k].promise[s]
  <2>1. D[k].promise[s] \in Nat /\ l.promise[s] \in Nat
    BY BallotTypes DEF World, Ledgers
  <2> QED
    BY <2>1 DEF World, Extends
<1>2. CASE m.type = "Prepare"
  <2>1. m.slot \in Slots /\ m.from \in Nodes /\ m.bal \in Nat
    BY <1>0, <1>2, BallotTypes
  <2>2. PrepareInv(D, M, m)
    BY <1>0, <1>2 DEF MessageInv
  <2>3. PrepareInv(D1, M1, m)
    BY <2>1, <2>2, <1>1 DEF PrepareInv
  <2> QED
    BY <1>2, <2>3 DEF MessageInv
<1>3. CASE m.type = "Promise"
  <2>1. m.slot \in Slots /\ m.from \in Nodes /\ m.bal \in Ballots /\ m.bal \in Nat
    BY <1>0, <1>3, BallotTypes
  <2>2. PromiseInv(D, M, m)
    BY <1>0, <1>3 DEF MessageInv
  <2>3. m.bal <= D1[m.from].promise[m.slot]
    BY <2>1, <2>2, <1>1 DEF PromiseInv
  <2>4. ASSUME NEW c \in Ballots, m.vote.bal < c, c < m.bal
        PROVE  ~VotedIn(M1, m.from, m.slot, c)
    <3>1. ~VotedIn(M, m.from, m.slot, c)
      BY <2>2, <2>4 DEF PromiseInv
    <3>2. ~(D[m.from].promise[m.slot] <= c)
      BY <2>1, <2>2, <2>4, <1>1, BallotTypes DEF PromiseInv
    <3> QED
      BY <2>1, <3>1, <3>2, NewVotes
  <2>5. ASSUME NEW k \in M1, k.type = "Promise", k.from = m.from, k.slot = m.slot,
               k.bal = m.bal
        PROVE  k = m
    BY <1>3, <2>2, <2>5 DEF PromiseInv, Consistent
  <2>6. /\ m.from # ballot_node(m.bal, m.slot) /\ m.vote.bal < m.bal
        /\ m.vote # NoVote => AcceptIn(M1, m.slot, m.vote.bal, m.vote.val)
        /\ m.chosen # None => DecidedIn(M1, m.slot, m.chosen)
    <3>1. M \subseteq M1
      OBVIOUS
    <3> HIDE DEF M1
    <3>2. /\ \A s, b, v : AcceptIn(M, s, b, v) => AcceptIn(M1, s, b, v)
          /\ \A s, v : DecidedIn(M, s, v) => DecidedIn(M1, s, v)
      BY <3>1, Monotone
    <3> QED
      BY <2>2, <3>2, Zenon DEF PromiseInv
  <2>7. PromiseInv(D1, M1, m)
    BY <2>3, <2>4, <2>5, <2>6, Zenon DEF PromiseInv
  <2> QED
    BY <1>3, <2>7 DEF MessageInv
<1>4. CASE m.type = "Accept"
  <2>1. m.slot \in Slots /\ m.from \in Nodes /\ m.bal \in Ballots
    BY <1>0, <1>4
  <2>2. AcceptInv(D, M, m)
    BY <1>0, <1>4 DEF MessageInv
  <2>3. SafeAt(D1, M1, m.slot, m.bal, m.val)
    BY <2>1, <2>2, SafeStable DEF AcceptInv
  <2>4. ASSUME NEW k \in M1, k.type = "Accept", k.slot = m.slot, k.bal = m.bal
        PROVE  k.val = m.val
    BY <1>4, <2>2, <2>4 DEF AcceptInv, Consistent
  <2>5. AcceptInv(D1, M1, m)
    BY <2>2, <2>3, <2>4, Monotone DEF AcceptInv
  <2> QED
    BY <1>4, <2>5 DEF MessageInv
<1>5. CASE m.type = "Accepted"
  <2>1. AcceptedInv(M1, m)
    BY <1>0, <1>5, Monotone DEF MessageInv, AcceptedInv
  <2> QED
    BY <1>5, <2>1 DEF MessageInv
<1>6. CASE m.type = "Commit"
  <2>1. DecidedIn(M1, m.slot, m.val)
    BY <1>0, <1>6, Monotone DEF MessageInv
  <2> QED
    BY <1>6, <2>1 DEF MessageInv
<1> QED
  BY <1>0, <1>2, <1>3, <1>4, <1>5, <1>6

\* ... and of the ledgers of the other nodes.
LEMMA OtherLedgers ==
  ASSUME NEW D, NEW M, World(D, M), PaxosInv(D, M), NEW n \in Nodes, NEW l \in Ledgers,
         NEW out \in SUBSET Messages, Extends(D, M, n, l, out),
         NEW k \in Nodes, k # n, NEW s \in Slots
  PROVE  LedgerInv([D EXCEPT ![n] = l], M \cup out, k, s)
<1> DEFINE D1 == [D EXCEPT ![n] = l]
           M1 == M \cup out
<1>1. D1[k] = D[k]
  BY DEF World
<1>2. LedgerInv(D, M, k, s)
  BY DEF PaxosInv
<1>3. ASSUME NEW b \in Ballots, VotedIn(M1, k, s, b) PROVE VotedIn(M, k, s, b)
  BY <1>3, NewVotes
<1> QED
  BY <1>1, <1>2, <1>3, Monotone DEF LedgerInv

\* So a step of a world is a matter of its own ledger and its own messages.
LEMMA WorldStep ==
  ASSUME NEW D, NEW M, World(D, M), PaxosInv(D, M), NEW n \in Nodes, NEW l \in Ledgers,
         NEW out \in SUBSET Messages, Extends(D, M, n, l, out), Consistent(M, out),
         \A s \in Slots : LedgerInv([D EXCEPT ![n] = l], M \cup out, n, s),
         \A m \in out : MessageInv([D EXCEPT ![n] = l], M \cup out, m)
  PROVE  PaxosInv([D EXCEPT ![n] = l], M \cup out)
BY OldMessages, OtherLedgers DEF PaxosInv

-----------------------------------------------------------------------------
\* The ledger of the node that takes the step, slot by slot: it keeps its vote
\* or casts the one vote the step announces.
KeepsVote(D, n, l, out, t) ==
    /\ l.vote[t] = D[n].vote[t]
    /\ D[n].promise[t] <= l.promise[t]
    /\ \A m \in out : m.type \in {"Accept", "Accepted"} => m.slot # t

CastsVote(D, M, n, l, out, t) ==
    /\ l.vote[t] # NoVote
    /\ D[n].promise[t] <= l.vote[t].bal /\ l.vote[t].bal <= l.promise[t]
    /\ AcceptIn(M \cup out, t, l.vote[t].bal, l.vote[t].val)
    /\ VotedIn(M \cup out, n, t, l.vote[t].bal)
    /\ \A m \in out : m.type \in {"Accept", "Accepted"} /\ m.slot = t => m.bal = l.vote[t].bal

KeepsChosen(D, M, n, l, out, t) ==
    l.chosen[t] = D[n].chosen[t] \/ DecidedIn(M \cup out, t, l.chosen[t])

\* The ledger of the stepping node satisfies the invariant, slot by slot.
LEMMA OwnLedger ==
  ASSUME NEW D, NEW M, World(D, M), PaxosInv(D, M), NEW n \in Nodes, NEW l \in Ledgers,
         NEW out \in SUBSET Messages, NEW t \in Slots,
         KeepsVote(D, n, l, out, t) \/ CastsVote(D, M, n, l, out, t),
         KeepsChosen(D, M, n, l, out, t)
  PROVE  LedgerInv([D EXCEPT ![n] = l], M \cup out, n, t)
<1> DEFINE D1 == [D EXCEPT ![n] = l]
           M1 == M \cup out
<1>0. D1[n] = l
  BY DEF World
<1>1. LedgerInv(D, M, n, t)
  BY DEF PaxosInv
<1>2. /\ D[n].vote[t] \in Votes /\ l.vote[t] \in Votes
      /\ D[n].promise[t] \in Nat /\ l.promise[t] \in Nat
  BY BallotTypes DEF World, Ledgers
<1>3. l.chosen[t] # None => DecidedIn(M1, t, l.chosen[t])
  <2>1. CASE l.chosen[t] = D[n].chosen[t]
    <3>1. l.chosen[t] # None => DecidedIn(M, t, l.chosen[t])
      BY <1>1, <2>1 DEF LedgerInv
    <3> QED
      BY <3>1, Monotone
  <2> QED
    BY <2>1 DEF KeepsChosen
<1>4. CASE KeepsVote(D, n, l, out, t)
  <2>1. \A b \in Ballots : VotedIn(M1, n, t, b) => VotedIn(M, n, t, b)
    BY <1>4 DEF VotedIn, KeepsVote
  <2>2. \A b \in Ballots : VotedIn(M1, n, t, b) => b <= l.vote[t].bal
    BY <1>1, <1>4, <2>1 DEF LedgerInv, KeepsVote
  <2>3. ASSUME l.vote[t] # NoVote
        PROVE  /\ l.vote[t].bal <= l.promise[t]
               /\ AcceptIn(M1, t, l.vote[t].bal, l.vote[t].val)
               /\ VotedIn(M1, n, t, l.vote[t].bal)
    <3>1. /\ l.vote[t].bal <= D[n].promise[t]
          /\ AcceptIn(M, t, l.vote[t].bal, l.vote[t].val)
          /\ VotedIn(M, n, t, l.vote[t].bal)
      BY <1>1, <1>4, <2>3 DEF LedgerInv, KeepsVote
    <3>2. l.vote[t].bal <= l.promise[t]
      BY <1>2, <1>4, <3>1, BallotTypes DEF KeepsVote
    <3> QED
      BY <3>1, <3>2, Monotone
  <2> QED
    BY <1>0, <1>3, <2>2, <2>3 DEF LedgerInv
<1>5. CASE CastsVote(D, M, n, l, out, t)
  <2>1. D[n].vote[t].bal <= l.vote[t].bal
    BY <1>1, <1>2, <1>5, BallotTypes DEF LedgerInv, CastsVote
  <2>2. ASSUME NEW b \in Ballots, VotedIn(M1, n, t, b) PROVE b <= l.vote[t].bal
    <3>1. CASE VotedIn(M, n, t, b)
      BY <1>1, <1>2, <2>1, <3>1, BallotTypes DEF LedgerInv
    <3>2. CASE ~VotedIn(M, n, t, b)
      <4>1. b = l.vote[t].bal
        BY <1>5, <2>2, <3>2 DEF VotedIn, CastsVote
      <4> QED
        BY <4>1, <1>2, BallotTypes
    <3> QED
      BY <3>1, <3>2
  <2> QED
    BY <1>0, <1>3, <1>5, <2>2 DEF LedgerInv, CastsVote
<1> QED
  BY <1>4, <1>5

\* Promising raises the promise, in its slot only.
LEMMA PromiseLedger ==
  ASSUME NEW l \in Ledgers, NEW s \in Slots, NEW b \in Ballots
  PROVE  /\ WithPromise(l, s, b) \in Ledgers
         /\ WithPromise(l, s, b).vote = l.vote /\ WithPromise(l, s, b).chosen = l.chosen
         /\ WithPromise(l, s, b).promise[s] = b
         /\ \A t \in Slots : t # s => WithPromise(l, s, b).promise[t] = l.promise[t]
BY DEF Ledgers, WithPromise

\* Voting raises the promise and records the vote, in its slot only.
LEMMA VoteLedger ==
  ASSUME NEW l \in Ledgers, NEW s \in Slots, NEW b \in Ballots, NEW v \in Proposals
  PROVE  /\ WithVote(l, s, b, v) \in Ledgers
         /\ WithVote(l, s, b, v).chosen = l.chosen
         /\ WithVote(l, s, b, v).promise[s] = b
         /\ WithVote(l, s, b, v).vote[s] = [bal |-> b, val |-> v]
         /\ WithVote(l, s, b, v).vote[s] # NoVote
         /\ \A t \in Slots : t # s => /\ WithVote(l, s, b, v).promise[t] = l.promise[t]
                                      /\ WithVote(l, s, b, v).vote[t] = l.vote[t]
<1>1. [bal |-> b, val |-> v] \in Votes /\ [bal |-> b, val |-> v] # NoVote
  BY BallotTypes DEF Votes, NoVote
<1> QED
  BY <1>1 DEF Ledgers, WithVote

\* Learning records the decision, in its slot only.
LEMMA ChosenLedger ==
  ASSUME NEW l \in Ledgers, NEW s \in Slots, NEW v \in Proposals
  PROVE  /\ WithChosen(l, s, v) \in Ledgers
         /\ WithChosen(l, s, v).vote = l.vote /\ WithChosen(l, s, v).promise = l.promise
         /\ WithChosen(l, s, v).chosen[s] = v
         /\ \A t \in Slots : t # s => WithChosen(l, s, v).chosen[t] = l.chosen[t]
BY DEF Ledgers, WithChosen

-----------------------------------------------------------------------------
\* A proposer votes for a safe value at a ballot of its own that it has not used.
LEMMA OfferStep ==
  ASSUME NEW D, NEW M, World(D, M), PaxosInv(D, M), NEW n \in Nodes, NEW s \in Slots,
         NEW b \in Ballots, NEW v \in Proposals, ballot_node(b, s) = n,
         D[n].promise[s] <= b, D[n].vote[s].bal < b, SafeAt(D, M, s, b, v),
         v = Noop \/ b = 0 \/ AcceptIn(M, s, 0, v)
  PROVE  PaxosInv([D EXCEPT ![n] = WithVote(D[n], s, b, v)],
                  M \cup {[type |-> "Accept", from |-> n, slot |-> s, bal |-> b, val |-> v]})
<1> DEFINE l == WithVote(D[n], s, b, v)
           a == [type |-> "Accept", from |-> n, slot |-> s, bal |-> b, val |-> v]
           out == {a}
           D1 == [D EXCEPT ![n] = l]
           M1 == M \cup out
<1>0. D[n] \in Ledgers /\ out \subseteq Messages
  BY DEF World, Messages
<1>1. /\ l \in Ledgers /\ l.chosen = D[n].chosen
      /\ l.promise[s] = b /\ l.vote[s] = [bal |-> b, val |-> v] /\ l.vote[s] # NoVote
      /\ \A t \in Slots : t # s => l.promise[t] = D[n].promise[t] /\ l.vote[t] = D[n].vote[t]
  BY <1>0, VoteLedger
<1>b. a.type = "Accept" /\ a.from = n /\ a.slot = s /\ a.bal = b /\ a.val = v
  OBVIOUS
<1>a. /\ a.type = "Accept" /\ a.from = n /\ a.slot = s /\ a.bal = b /\ a.val = v
      /\ AcceptIn(M1, s, b, v) /\ VotedIn(M1, n, s, b)
  <2>1. a \in M1
    OBVIOUS
  <2> HIDE DEF a, M1
  <2> QED
    BY <1>b, <2>1 DEF AcceptIn, VotedIn
<1>p. \A t \in Slots : D[n].promise[t] \in Nat
  BY <1>0, BallotTypes DEF Ledgers
<1> HIDE DEF l, a
<1>2. Extends(D, M, n, l, out)
  BY <1>1, <1>a, <1>p DEF Extends
<1>3. ~VotedIn(M, n, s, b)
  <2>1. LedgerInv(D, M, n, s) /\ D[n].vote[s].bal \in Int /\ b \in Int
    BY <1>0, BallotTypes DEF PaxosInv, Ledgers
  <2> QED
    BY <2>1 DEF LedgerInv
<1>4. Consistent(M, out)
  <2>1. ASSUME NEW k \in M, k.type = "Accept", k.slot = s, k.bal = b PROVE FALSE
    <3>1. k.from = n
      BY <2>1 DEF PaxosInv, MessageInv, AcceptInv
    <3> QED
      BY <1>3, <2>1, <3>1 DEF VotedIn
  <2> QED
    BY <1>a, <2>1 DEF Consistent
<1>5. ASSUME NEW t \in Slots PROVE LedgerInv(D1, M1, n, t)
  <2>1. KeepsChosen(D, M, n, l, out, t)
    BY <1>1 DEF KeepsChosen
  <2>2. CASE t = s
    <3>1. CastsVote(D, M, n, l, out, t)
      BY <1>1, <1>a, <1>p, <2>2, BallotTypes DEF CastsVote
    <3> QED
      BY <1>0, <1>1, <2>1, <3>1, OwnLedger
  <2>3. CASE t # s
    <3>1. KeepsVote(D, n, l, out, t)
      BY <1>1, <1>a, <1>p, <2>3 DEF KeepsVote
    <3> QED
      BY <1>0, <1>1, <2>1, <3>1, OwnLedger
  <2> QED
    BY <2>2, <2>3
<1>6. MessageInv(D1, M1, a)
  <2>1. SafeAt(D1, M1, s, b, v)
    BY <1>0, <1>1, <1>2, SafeStable
  <2>2. v = Noop \/ AcceptIn(M1, s, 0, v)
    BY <1>a, Monotone
  <2>3. \A k \in M1 : k.type = "Accept" /\ k.slot = s /\ k.bal = b => k.val = v
    BY <1>4, <1>a DEF Consistent
  <2> QED
    BY <1>a, <2>1, <2>2, <2>3 DEF MessageInv, AcceptInv
<1>7. PaxosInv(D1, M1)
  BY <1>0, <1>1, <1>2, <1>4, <1>5, <1>6, WorldStep
<1> QED
  BY <1>7 DEF l, a

\* A node takes over a slot, or promises it to the node that does.
LEMMA PrepareStep ==
  ASSUME NEW D, NEW M, World(D, M), PaxosInv(D, M), NEW n \in Nodes, NEW s \in Slots,
         NEW b \in Ballots, ballot_node(b, s) = n, D[n].promise[s] < b
  PROVE  PaxosInv([D EXCEPT ![n] = WithPromise(D[n], s, b)],
                  M \cup {[type |-> "Prepare", from |-> n, slot |-> s, bal |-> b]})
<1> DEFINE l == WithPromise(D[n], s, b)
           a == [type |-> "Prepare", from |-> n, slot |-> s, bal |-> b]
           out == {a}
           D1 == [D EXCEPT ![n] = l]
           M1 == M \cup out
<1>0. D[n] \in Ledgers /\ out \subseteq Messages
  BY DEF World, Messages
<1>1. /\ l \in Ledgers /\ l.chosen = D[n].chosen /\ l.vote = D[n].vote
      /\ l.promise[s] = b
      /\ \A t \in Slots : t # s => l.promise[t] = D[n].promise[t]
  BY <1>0, PromiseLedger
<1>a. a.type = "Prepare" /\ a.from = n /\ a.slot = s /\ a.bal = b
  OBVIOUS
<1>p. b \in Nat /\ \A t \in Slots : D[n].promise[t] \in Nat
  BY <1>0, BallotTypes DEF Ledgers
<1> HIDE DEF l, a
<1>q. \A t \in Slots : D[n].promise[t] <= l.promise[t]
  BY <1>1, <1>p
<1>2. Extends(D, M, n, l, out)
  BY <1>q, <1>a DEF Extends
<1>3. Consistent(M, out)
  BY <1>a DEF Consistent
<1>4. ASSUME NEW t \in Slots PROVE LedgerInv(D1, M1, n, t)
  <2>1. KeepsVote(D, n, l, out, t) /\ KeepsChosen(D, M, n, l, out, t)
    BY <1>1, <1>q, <1>a DEF KeepsVote, KeepsChosen
  <2> QED
    BY <1>0, <1>1, <2>1, OwnLedger
<1>5. MessageInv(D1, M1, a)
  <2>1. D1[n] = l
    BY DEF World
  <2> QED
    BY <1>a, <1>1, <1>p, <2>1 DEF MessageInv, PrepareInv
<1>6. PaxosInv(D1, M1)
  BY <1>0, <1>1, <1>2, <1>3, <1>4, <1>5, WorldStep
<1> QED
  BY <1>6 DEF l, a

\* The promise reports the vote and the decision of the ledger that gives it.
LEMMA PromiseStep ==
  ASSUME NEW D, NEW M, World(D, M), PaxosInv(D, M), NEW n \in Nodes, NEW s \in Slots,
         NEW b \in Ballots, ballot_node(b, s) # n, D[n].promise[s] < b
  PROVE  PaxosInv([D EXCEPT ![n] = WithPromise(D[n], s, b)],
                  M \cup {[type |-> "Promise", from |-> n, slot |-> s, bal |-> b,
                           vote |-> D[n].vote[s], chosen |-> D[n].chosen[s]]})
<1> DEFINE l == WithPromise(D[n], s, b)
           a == [type |-> "Promise", from |-> n, slot |-> s, bal |-> b,
                 vote |-> D[n].vote[s], chosen |-> D[n].chosen[s]]
           out == {a}
           D1 == [D EXCEPT ![n] = l]
           M1 == M \cup out
<1>0. D[n] \in Ledgers /\ out \subseteq Messages
  BY DEF World, Messages, Ledgers
<1>1. /\ l \in Ledgers /\ l.chosen = D[n].chosen /\ l.vote = D[n].vote
      /\ l.promise[s] = b
      /\ \A t \in Slots : t # s => l.promise[t] = D[n].promise[t]
  BY <1>0, PromiseLedger
<1>a. /\ a.type = "Promise" /\ a.from = n /\ a.slot = s /\ a.bal = b
      /\ a.vote = D[n].vote[s] /\ a.chosen = D[n].chosen[s]
  OBVIOUS
<1>p. b \in Nat /\ \A t \in Slots : D[n].promise[t] \in Nat
  BY <1>0, BallotTypes DEF Ledgers
<1> HIDE DEF l, a
<1>q. \A t \in Slots : D[n].promise[t] <= l.promise[t]
  BY <1>1, <1>p
<1>2. Extends(D, M, n, l, out)
  BY <1>q, <1>a DEF Extends
<1>3. ASSUME NEW k \in M, k.type = "Promise", k.from = n, k.slot = s, k.bal = b PROVE FALSE
  BY <1>3, <1>p DEF PaxosInv, MessageInv, PromiseInv
<1>4. Consistent(M, out)
  BY <1>3, <1>a DEF Consistent
<1>5. ASSUME NEW t \in Slots PROVE LedgerInv(D1, M1, n, t)
  <2>1. KeepsVote(D, n, l, out, t) /\ KeepsChosen(D, M, n, l, out, t)
    BY <1>1, <1>q, <1>a DEF KeepsVote, KeepsChosen
  <2> QED
    BY <1>0, <1>1, <2>1, OwnLedger
<1>6. MessageInv(D1, M1, a)
  <2>0. LedgerInv(D, M, n, s) /\ D[n].vote[s] \in Votes
    BY <1>0 DEF PaxosInv, Ledgers
  <2>1. a.bal <= D1[a.from].promise[a.slot] /\ a.from # ballot_node(a.bal, a.slot)
    BY <1>a, <1>1, <1>p DEF World
  <2>2. a.vote.bal < a.bal
    BY <1>a, <1>p, <2>0, BallotTypes DEF LedgerInv
  <2>3. \A t, c, w : AcceptIn(M, t, c, w) => AcceptIn(M1, t, c, w)
    BY Monotone
  <2>4. a.vote # NoVote => AcceptIn(M1, a.slot, a.vote.bal, a.vote.val)
    BY <1>a, <2>0, <2>3 DEF LedgerInv
  <2>5. ASSUME NEW c \in Ballots, a.vote.bal < c, VotedIn(M1, n, s, c) PROVE FALSE
    <3>1. VotedIn(M, n, s, c)
      BY <1>a, <2>5 DEF VotedIn
    <3>2. c <= D[n].vote[s].bal /\ D[n].vote[s].bal \in Int /\ c \in Int
      BY <2>0, <3>1, BallotTypes DEF LedgerInv
    <3> QED
      BY <1>a, <2>5, <3>2
  <2>6. a.chosen # None => DecidedIn(M1, a.slot, a.chosen)
    BY <1>a, <2>0, Monotone DEF LedgerInv
  <2>7. \A k \in M1 : k.type = "Promise" /\ k.from = a.from /\ k.slot = a.slot /\ k.bal = a.bal
                         => k = a
    BY <1>3, <1>a
  <2>8. PromiseInv(D1, M1, a)
    BY <1>a, <2>1, <2>2, <2>4, <2>5, <2>6, <2>7 DEF PromiseInv
  <2> QED
    BY <1>a, <2>8 DEF MessageInv
<1>7. PaxosInv(D1, M1)
  BY <1>0, <1>1, <1>2, <1>4, <1>5, <1>6, WorldStep
<1> QED
  BY <1>7 DEF l, a

\* A node learns a value, as far as the messages decide it, and may broadcast it.
LEMMA LearnStep ==
  ASSUME NEW D, NEW M, World(D, M), PaxosInv(D, M), NEW n \in Nodes, NEW s \in Slots,
         NEW v \in Proposals, DecidedIn(M, s, v),
         NEW out, out \subseteq {[type |-> "Commit", slot |-> s, val |-> v]}
  PROVE  PaxosInv([D EXCEPT ![n] = WithChosen(D[n], s, v)], M \cup out)
<1> DEFINE l == WithChosen(D[n], s, v)
           D1 == [D EXCEPT ![n] = l]
           M1 == M \cup out
<1>0. D[n] \in Ledgers /\ out \subseteq Messages
  BY DEF World, Messages
<1>1. /\ l \in Ledgers /\ l.promise = D[n].promise /\ l.vote = D[n].vote
      /\ l.chosen[s] = v
      /\ \A t \in Slots : t # s => l.chosen[t] = D[n].chosen[t]
  BY <1>0, ChosenLedger
<1>a. \A m \in out : m.type = "Commit" /\ m.slot = s /\ m.val = v
  OBVIOUS
<1>p. \A t \in Slots : D[n].promise[t] <= l.promise[t]
  BY <1>0, <1>1, BallotTypes DEF Ledgers
<1> HIDE DEF l
<1>2. Extends(D, M, n, l, out)
  BY <1>a, <1>p DEF Extends
<1>3. Consistent(M, out)
  BY <1>a DEF Consistent
<1>4. DecidedIn(M1, s, v)
  BY Monotone
<1>5. ASSUME NEW t \in Slots PROVE LedgerInv(D1, M1, n, t)
  <2>1. KeepsVote(D, n, l, out, t)
    BY <1>1, <1>p, <1>a DEF KeepsVote
  <2>2. KeepsChosen(D, M, n, l, out, t)
    BY <1>1, <1>4 DEF KeepsChosen
  <2> QED
    BY <1>0, <1>1, <2>1, <2>2, OwnLedger
<1>6. \A m \in out : MessageInv(D1, M1, m)
  BY <1>a, <1>4 DEF MessageInv
<1>7. PaxosInv(D1, M1)
  BY <1>0, <1>1, <1>2, <1>3, <1>5, <1>6, WorldStep
<1> QED
  BY <1>7 DEF l

\* A voter accepts what a proposer offers, unless it has promised a higher ballot.
LEMMA VoteStep ==
  ASSUME NEW D, NEW M, World(D, M), PaxosInv(D, M), NEW n \in Nodes, NEW s \in Slots,
         NEW b \in Ballots, NEW v \in Proposals, AcceptIn(M, s, b, v), D[n].promise[s] <= b
  PROVE  PaxosInv([D EXCEPT ![n] = WithVote(D[n], s, b, v)],
                  M \cup {[type |-> "Accepted", from |-> n, slot |-> s, bal |-> b]})
<1> DEFINE l == WithVote(D[n], s, b, v)
           a == [type |-> "Accepted", from |-> n, slot |-> s, bal |-> b]
           out == {a}
           D1 == [D EXCEPT ![n] = l]
           M1 == M \cup out
<1>0. D[n] \in Ledgers /\ out \subseteq Messages
  BY DEF World, Messages
<1>1. /\ l \in Ledgers /\ l.chosen = D[n].chosen
      /\ l.promise[s] = b /\ l.vote[s] = [bal |-> b, val |-> v] /\ l.vote[s] # NoVote
      /\ \A t \in Slots : t # s => l.promise[t] = D[n].promise[t] /\ l.vote[t] = D[n].vote[t]
  BY <1>0, VoteLedger
<1>b. a.type = "Accepted" /\ a.from = n /\ a.slot = s /\ a.bal = b
  OBVIOUS
<1>c. AcceptIn(M1, s, b, v)
  BY Monotone
<1>a. VotedIn(M1, n, s, b)
  <2>1. a \in M1
    OBVIOUS
  <2> HIDE DEF a, M1
  <2> QED
    BY <1>b, <2>1 DEF VotedIn
<1>p. \A t \in Slots : D[n].promise[t] \in Nat
  BY <1>0, BallotTypes DEF Ledgers
<1> HIDE DEF l, a
<1>2. Extends(D, M, n, l, out)
  BY <1>1, <1>b, <1>p DEF Extends
<1>4. Consistent(M, out)
  BY <1>b DEF Consistent
<1>5. ASSUME NEW t \in Slots PROVE LedgerInv(D1, M1, n, t)
  <2>1. KeepsChosen(D, M, n, l, out, t)
    BY <1>1 DEF KeepsChosen
  <2>2. CASE t = s
    <3>1. CastsVote(D, M, n, l, out, t)
      BY <1>1, <1>a, <1>b, <1>c, <1>p, <2>2, BallotTypes DEF CastsVote
    <3> QED
      BY <1>0, <1>1, <2>1, <3>1, OwnLedger
  <2>3. CASE t # s
    <3>1. KeepsVote(D, n, l, out, t)
      BY <1>1, <1>b, <1>p, <2>3 DEF KeepsVote
    <3> QED
      BY <1>0, <1>1, <2>1, <3>1, OwnLedger
  <2> QED
    BY <2>2, <2>3
<1>6. MessageInv(D1, M1, a)
  BY <1>b, <1>c DEF MessageInv, AcceptedInv
<1>7. PaxosInv(D1, M1)
  BY <1>0, <1>1, <1>2, <1>4, <1>5, <1>6, WorldStep
<1> QED
  BY <1>7 DEF l, a

\* Two different nodes make a set of two.
LEMMA PairHasTwo ==
  ASSUME NEW x, NEW y, x # y
  PROVE  Cardinality({x, y}) = 2
<1>1. IsFiniteSet({x}) /\ Cardinality({x}) = 1
  BY FS_Singleton
<1>2. y \notin {x}
  OBVIOUS
<1>3. Cardinality({x} \cup {y}) = Cardinality({x}) + 1
  BY <1>1, <1>2, FS_AddElement
<1>4. {x, y} = {x} \cup {y}
  OBVIOUS
<1> QED
  BY <1>1, <1>3, <1>4

\* owner_fast_commit learns what the messages decide: the owner's round-zero
\* no-op (M2), or the owner's and this node's votes as a quorum of two (M5).
LEMMA FastCommitDecides ==
  ASSUME NEW D, NEW M, World(D, M), PaxosInv(D, M), NEW n \in Nodes, NEW l,
         NEW m \in M, m.type = "Accept", owner_fast_commit(n, l, m),
         l.vote[m.slot] = [bal |-> m.bal, val |-> m.val] => VotedIn(M, n, m.slot, m.bal)
  PROVE  DecidedIn(M, m.slot, m.val)
<1>1. /\ m.bal = 0 /\ m.from # n /\ m.from \in Nodes /\ 0 \in Ballots
  BY MessageTypes, BallotTypes DEF owner_fast_commit, World
<1>2. AcceptIn(M, m.slot, 0, m.val) /\ VotedIn(M, m.from, m.slot, 0)
  BY <1>1 DEF AcceptIn, VotedIn
<1>3. CASE m.val = Noop
  BY <1>2, <1>3 DEF DecidedIn
<1>4. CASE m.val # Noop
  <2>1. WriteQuorum = 2 /\ VotedIn(M, n, m.slot, 0)
    BY <1>1, <1>4 DEF owner_fast_commit
  <2>2. Cardinality({n, m.from}) = 2
    BY <1>1, PairHasTwo
  <2>3. /\ {n, m.from} \in SUBSET Nodes /\ Cardinality({n, m.from}) >= WriteQuorum
        /\ \A k \in {n, m.from} : VotedIn(M, k, m.slot, 0)
    BY <1>1, <1>2, <2>1, <2>2
  <2>4. ByQuorum(M, m.slot, 0, m.val)
    BY <1>2, <2>3 DEF ByQuorum
  <2> QED
    BY <1>1, <2>4 DEF DecidedIn
<1> QED
  BY <1>3, <1>4

-----------------------------------------------------------------------------
\* A read quorum of promises: one from each of ReadQuorum - 1 others, and the
\* revoker's own.
LEMMA PromisersAreAQuorum ==
  ASSUME NEW D, NEW M, World(D, M), PaxosInv(D, M), NEW n \in Nodes, NEW s \in Slots,
         NEW b \in Ballots, ballot_node(b, s) = n, NEW P \in SUBSET M,
         \A p \in P : p.type = "Promise" /\ p.slot = s /\ p.bal = b,
         Cardinality(P) + 1 = ReadQuorum
  PROVE  Cardinality({p.from : p \in P} \cup {n}) = ReadQuorum
<1> DEFINE F == {p.from : p \in P}
           f == [p \in P |-> p.from]
<1>1. \A p \in P : p \in M /\ p.from \in Nodes /\ p.from # n
  <2> TAKE p \in P
  <2>1. p \in M /\ p \in Messages /\ PromiseInv(D, M, p)
    BY DEF World, PaxosInv, MessageInv
  <2> QED
    BY <2>1, MessageTypes DEF PromiseInv
<1>2. \A p, q \in P : p.from = q.from => p = q
  <2> TAKE p, q \in P
  <2>1. PromiseInv(D, M, q)
    BY <1>1 DEF PaxosInv, MessageInv
  <2> QED
    BY <1>1, <2>1 DEF PromiseInv
<1>3. f \in Injection(P, Nodes) /\ f \in Bijection(P, F)
  <2>1. /\ f \in [P -> Nodes] /\ f \in [P -> F]
        /\ DOMAIN f = P
        /\ \A p \in P : f[p] = p.from
    BY <1>1
  <2>2. \A p, q \in P : f[p] = f[q] => p = q
    BY <1>2, <2>1
  <2>3. \A k \in F : \E p \in P : f[p] = k
    BY <2>1
  <2> HIDE DEF f, F
  <2> QED
    BY <2>1, <2>2, <2>3 DEF Injection, Surjection, Bijection, IsInjective
<1>4. IsFiniteSet(Nodes)
  <2>1. N \in Int
    BY MembersAssumption
  <2> QED
    BY <2>1, FS_Interval DEF Nodes
<1>5. IsFiniteSet(P)
  BY <1>3, <1>4, FS_Injection
<1>6. IsFiniteSet(F) /\ Cardinality(F) = Cardinality(P)
  BY <1>3, <1>5, FS_Bijection DEF ExistsBijection
<1>7. n \notin F
  BY <1>1
<1>8. Cardinality(F \cup {n}) = Cardinality(F) + 1
  BY <1>6, <1>7, FS_AddElement
<1> QED
  BY <1>6, <1>8

\* What a node that has promised ballot b reports of slot s.
Report(D, M, s, b, p) ==
    /\ p.from \in Nodes /\ D[p.from].promise[s] >= b
    /\ p.vote \in Votes /\ p.vote.bal < b
    /\ p.vote # NoVote => AcceptIn(M, s, p.vote.bal, p.vote.val)
    /\ \A c \in Ballots : p.vote.bal < c /\ c < b => ~VotedIn(M, p.from, s, c)
    /\ p.chosen \in Proposals \cup {None}
    /\ p.chosen # None => DecidedIn(M, s, p.chosen)

\* A ballot below b that no promiser of b voted in is blocked.
LEMMA PromisersBlock ==
  ASSUME NEW D, NEW M, World(D, M), NEW s \in Slots, NEW b \in Ballots, NEW R,
         \A p \in R : Report(D, M, s, b, p), Cardinality({p.from : p \in R}) >= ReadQuorum,
         NEW c \in Ballots, c < b, \A p \in R : ~VotedIn(M, p.from, s, c)
  PROVE  Blocked(D, M, s, c)
<1> DEFINE Q == {p.from : p \in R}
<1>1. Q \in SUBSET Nodes
  BY DEF Report
<1>2. ASSUME NEW k \in Q PROVE D[k].promise[s] > c /\ ~VotedIn(M, k, s, c)
  <2>1. PICK p \in R : p.from = k
    BY <1>2
  <2>2. /\ k \in Nodes /\ D[k].promise[s] >= b
        /\ D[k].promise[s] \in Nat /\ b \in Nat /\ c \in Nat
    BY <2>1, BallotTypes DEF Report, World, Ledgers
  <2> QED
    BY <2>1, <2>2
<1> HIDE DEF Q
<1>3. Cardinality(Q) >= ReadQuorum
  BY DEF Q
<1> QED
  BY <1>1, <1>2, <1>3 DEF Blocked

\* A decided value is safe below every ballot that has an Accept.
LEMMA DecidedIsSafe ==
  ASSUME NEW D, NEW M, World(D, M), PaxosInv(D, M), NEW s \in Slots, NEW v,
         DecidedIn(M, s, v), NEW c \in Ballots, NEW w, AcceptIn(M, s, c, w)
  PROVE  AcceptIn(M, s, c, v) \/ Blocked(D, M, s, c)
<1>1. CASE v = Noop /\ AcceptIn(M, s, 0, Noop)
  BY <1>1, OwnersNoopBinds
<1>2. ASSUME NEW d \in Ballots, ByQuorum(M, s, d, v)
      PROVE  AcceptIn(M, s, c, v) \/ Blocked(D, M, s, c)
  <2>1. CASE d <= c
    BY <1>2, <2>1, DecisionBinds
  <2>2. CASE c < d
    <3>1. AcceptIn(M, s, d, v)
      BY <1>2 DEF ByQuorum
    <3>2. SafeAt(D, M, s, d, v)
      BY <3>1 DEF PaxosInv, MessageInv, AcceptInv, AcceptIn
    <3> QED
      BY <2>2, <3>2 DEF SafeAt
  <2> QED
    BY <2>1, <2>2, BallotTypes
<1> QED
  BY <1>1, <1>2 DEF DecidedIn

\* An offered value is a no-op or was proposed by the owner.
LEMMA OfferedByOwner ==
  ASSUME NEW D, NEW M, PaxosInv(D, M), NEW s, NEW b, NEW v, AcceptIn(M, s, b, v)
  PROVE  v = Noop \/ AcceptIn(M, s, 0, v)
BY DEF PaxosInv, MessageInv, AcceptInv, AcceptIn

\* The value Offer takes from a read quorum of reports is safe at the
\* revoker's ballot: the heart of the revocation.
LEMMA OfferIsSafe ==
  ASSUME NEW D, NEW M, World(D, M), PaxosInv(D, M), NEW s \in Slots, NEW b \in Ballots,
         NEW R, \A p \in R : Report(D, M, s, b, p),
         Cardinality({p.from : p \in R}) >= ReadQuorum, NEW v \in Offer(R)
  PROVE  /\ v \in Proposals
         /\ SafeAt(D, M, s, b, v)
         /\ v = Noop \/ AcceptIn(M, s, 0, v)
<1>0. ASSUME NEW c \in Ballots, c < b, ~Blocked(D, M, s, c)
      PROVE  /\ \E w : AcceptIn(M, s, c, w)
             /\ \E p \in R : c <= p.vote.bal
  <2>1. PICK p \in R : VotedIn(M, p.from, s, c)
    BY <1>0, PromisersBlock
  <2>2. \E w : AcceptIn(M, s, c, w)
    BY <2>1, VoteHasAccept
  <2>3. Report(D, M, s, b, p)
    BY <2>1
  <2>4. ~(p.vote.bal < c)
    BY <1>0, <2>1, <2>3 DEF Report
  <2>5. p.vote.bal \in Int /\ c \in Int
    BY <2>3, BallotTypes DEF Report
  <2>6. c <= p.vote.bal
    BY <2>4, <2>5
  <2> QED
    BY <2>1, <2>2, <2>6
<1>1. CASE \E p \in R : p.chosen # None
  <2>1. PICK p \in R : p.chosen # None /\ v = p.chosen
    BY <1>1 DEF Offer
  <2>2. v \in Proposals /\ DecidedIn(M, s, v)
    BY <2>1 DEF Report
  <2>3. SafeAt(D, M, s, b, v)
    BY <1>0, <2>2, DecidedIsSafe DEF SafeAt
  <2>4. \E c \in Ballots : AcceptIn(M, s, c, v)
    BY <2>2, DecidedIsOffered
  <2> QED
    BY <2>2, <2>3, <2>4, OfferedByOwner
<1>2. CASE ~(\E p \in R : p.chosen # None) /\ \A p \in R : p.vote = NoVote
  <2>1. v = Noop
    BY <1>2 DEF Offer
  <2>2. ASSUME NEW c \in Ballots, c < b PROVE Blocked(D, M, s, c)
    BY <1>0, <1>2, <2>2, BallotTypes
  <2> QED
    BY <2>1, <2>2 DEF SafeAt, Proposals
<1>3. CASE ~(\E p \in R : p.chosen # None) /\ ~(\A p \in R : p.vote = NoVote)
  <2>1. PICK p \in R : v = p.vote.val /\ \A r \in R : r.vote.bal <= p.vote.bal
    BY <1>3 DEF Offer
  <2>2. \A r \in R : r.vote \in Votes
    BY DEF Report
  <2>3. p.vote # NoVote
    BY <1>3, <2>1, <2>2, BallotTypes
  <2>4. /\ v \in Proposals /\ p.vote.bal \in Ballots
        /\ AcceptIn(M, s, p.vote.bal, v)
    BY <2>1, <2>2, <2>3, BallotTypes DEF Report
  <2>5. SafeAt(D, M, s, p.vote.bal, v)
    BY <2>4 DEF PaxosInv, MessageInv, AcceptInv, AcceptIn
  <2>6. ASSUME NEW c \in Ballots, c < b, ~Blocked(D, M, s, c) PROVE AcceptIn(M, s, c, v)
    <3>1. PICK r \in R : c <= r.vote.bal
      BY <1>0, <2>6
    <3>2. c <= p.vote.bal
      BY <2>1, <2>2, <2>4, <3>1, BallotTypes
    <3>3. CASE c = p.vote.bal
      BY <2>4, <3>3
    <3>4. CASE c < p.vote.bal
      BY <2>5, <2>6, <3>4 DEF SafeAt
    <3> QED
      BY <3>2, <3>3, <3>4, <2>4, BallotTypes
  <2>7. SafeAt(D, M, s, b, v)
    BY <2>6 DEF SafeAt
  <2> QED
    BY <2>4, <2>7, OfferedByOwner
<1> QED
  BY <1>1, <1>2, <1>3

-----------------------------------------------------------------------------
\* The worlds of a typed state are typed, and hold what has been released.
LEMMA WorldTypes ==
  ASSUME TypeOK, NEW S \in SUBSET Nodes
  PROVE  /\ World(WorldLedger(S), WorldMsgs(S))
         /\ msgs \subseteq WorldMsgs(S)
         /\ \A k \in S : WorldLedger(S)[k] = ledger[k] /\ staged[k] \subseteq WorldMsgs(S)
         /\ \A k \in Nodes \ S : WorldLedger(S)[k] = disk[k]
<1>1. WorldLedger(S) \in [Nodes -> Ledgers]
  BY DEF TypeOK, WorldLedger
<1>2. WorldMsgs(S) \subseteq Messages
  BY DEF TypeOK, WorldMsgs
<1>3. \A k \in S : staged[k] \subseteq WorldMsgs(S)
  BY DEF WorldMsgs
<1>4. \A k \in Nodes : WorldLedger(S)[k] = IF k \in S THEN ledger[k] ELSE disk[k]
  BY DEF WorldLedger
<1> QED
  BY <1>1, <1>2, <1>3, <1>4 DEF World, WorldMsgs

\* A ledger grows.
Grows(l0, l) ==
    \A s \in Slots :
        /\ l0.promise[s] <= l.promise[s]
        /\ l0.vote[s].bal <= l.vote[s].bal
        /\ l0.chosen[s] # None => l.chosen[s] = l0.chosen[s]

\* A staged transition is a step of the worlds in which its host has closed its
\* group, and no step of the others.
LEMMA StageKeepsWorlds ==
  ASSUME WorldsInv, NEW n \in Nodes, NEW l \in Ledgers, NEW out \in SUBSET Messages,
         Stage(n, l, out), Grows(ledger[n], l),
         \A D, M : World(D, M) /\ PaxosInv(D, M) /\ D[n] = ledger[n] /\ msgs \subseteq M
                      => PaxosInv([D EXCEPT ![n] = l], M \cup out)
  PROVE  WorldsInv'
<1>0. /\ TypeOK
      /\ ledger' = [ledger EXCEPT ![n] = l]
      /\ staged' = [staged EXCEPT ![n] = @ \cup out]
      /\ disk' = disk /\ msgs' = msgs
  BY DEF WorldsInv, Stage
<1>1. TypeOK'
  BY <1>0 DEF TypeOK
<1>2. JournalBehindLedger'
  <2> SUFFICES ASSUME NEW k \in Nodes, NEW s \in Slots
               PROVE  /\ disk'[k].promise[s] <= ledger'[k].promise[s]
                      /\ disk'[k].vote[s].bal <= ledger'[k].vote[s].bal
                      /\ disk'[k].chosen[s] # None => ledger'[k].chosen[s] = disk'[k].chosen[s]
    BY DEF JournalBehindLedger
  <2>1. /\ disk[k].promise[s] <= ledger[k].promise[s]
        /\ disk[k].vote[s].bal <= ledger[k].vote[s].bal
        /\ disk[k].chosen[s] # None => ledger[k].chosen[s] = disk[k].chosen[s]
    BY DEF WorldsInv, JournalBehindLedger
  <2>2. CASE k # n
    BY <1>0, <2>1, <2>2 DEF TypeOK
  <2>3. CASE k = n
    <3>1. ledger'[k] = l
      BY <1>0, <2>3 DEF TypeOK
    <3>2. /\ disk[k] \in Ledgers /\ ledger[k] \in Ledgers
      BY <1>0 DEF TypeOK
    <3>3. /\ disk[k].promise[s] \in Nat /\ ledger[k].promise[s] \in Nat /\ l.promise[s] \in Nat
          /\ disk[k].vote[s].bal \in Int /\ ledger[k].vote[s].bal \in Int
          /\ l.vote[s].bal \in Int
      BY <3>2, BallotTypes DEF Ledgers
    <3>4. /\ ledger[k].promise[s] <= l.promise[s]
          /\ ledger[k].vote[s].bal <= l.vote[s].bal
          /\ ledger[k].chosen[s] # None => l.chosen[s] = ledger[k].chosen[s]
      BY <2>3 DEF Grows
    <3> QED
      BY <1>0, <2>1, <3>1, <3>3, <3>4
  <2> QED
    BY <2>2, <2>3
<1>3. ASSUME NEW S \in SUBSET Nodes PROVE PaxosInv(WorldLedger(S), WorldMsgs(S))'
  <2>1. PaxosInv(WorldLedger(S), WorldMsgs(S))
    BY DEF WorldsInv
  <2>2. CASE n \in S
    <3>1. WorldLedger(S)' = [WorldLedger(S) EXCEPT ![n] = l]
      BY <1>0, <2>2 DEF WorldLedger, TypeOK
    <3>2. \A k \in S : staged'[k] = IF k = n THEN staged[k] \cup out ELSE staged[k]
      BY <1>0 DEF TypeOK
    <3>3. WorldMsgs(S)' = WorldMsgs(S) \cup out
      <4>1. \A m : (\E k \in S : m \in staged'[k]) <=> m \in out \/ \E k \in S : m \in staged[k]
        BY <2>2, <3>2
      <4>2. \A m : m \in WorldMsgs(S)' <=> m \in msgs' \/ \E k \in S : m \in staged'[k]
        BY DEF WorldMsgs
      <4>3. \A m : m \in WorldMsgs(S) <=> m \in msgs \/ \E k \in S : m \in staged[k]
        BY DEF WorldMsgs
      <4> QED
        BY <1>0, <4>1, <4>2, <4>3
    <3>4. PaxosInv([WorldLedger(S) EXCEPT ![n] = l], WorldMsgs(S) \cup out)
      BY <1>0, <2>1, <2>2, WorldTypes
    <3> QED
      BY <3>1, <3>3, <3>4
  <2>3. CASE n \notin S
    <3>1. WorldLedger(S)' = WorldLedger(S)
      BY <1>0, <2>3 DEF WorldLedger, TypeOK
    <3>2. \A k \in S : staged'[k] = staged[k]
      BY <1>0, <2>3 DEF TypeOK
    <3>3. WorldMsgs(S)' = WorldMsgs(S)
      BY <1>0, <3>2 DEF WorldMsgs
    <3> QED
      BY <2>1, <3>1, <3>3
  <2> QED
    BY <2>2, <2>3
<1> QED
  BY <1>1, <1>2, <1>3 DEF WorldsInv

\* Closing a group or crashing moves the present state to another of its worlds.
LEMMA GroupCloseKeepsWorlds ==
  ASSUME WorldsInv, NEW n \in Nodes, GroupClose(n)
  PROVE  WorldsInv'
<1>0. /\ TypeOK
      /\ disk' = [disk EXCEPT ![n] = ledger[n]]
      /\ msgs' = msgs \cup staged[n]
      /\ staged' = [staged EXCEPT ![n] = {}]
      /\ ledger' = ledger
  BY DEF WorldsInv, GroupClose
<1>1. TypeOK'
  BY <1>0 DEF TypeOK
<1>2. JournalBehindLedger'
  <2>1. \A s \in Slots : ledger[n].promise[s] \in Nat /\ ledger[n].vote[s].bal \in Int
    BY <1>0, BallotTypes DEF TypeOK, Ledgers
  <2> QED
    BY <1>0, <2>1 DEF WorldsInv, JournalBehindLedger, TypeOK
<1>3. ASSUME NEW S \in SUBSET Nodes PROVE PaxosInv(WorldLedger(S), WorldMsgs(S))'
  <2> DEFINE T == S \cup {n}
  <2>1. PaxosInv(WorldLedger(T), WorldMsgs(T))
    BY DEF WorldsInv
  <2>2. WorldLedger(S)' = WorldLedger(T)
    BY <1>0 DEF WorldLedger, TypeOK
  <2>3. WorldMsgs(S)' = WorldMsgs(T)
    BY <1>0 DEF WorldMsgs, TypeOK
  <2> QED
    BY <2>1, <2>2, <2>3
<1> QED
  BY <1>1, <1>2, <1>3 DEF WorldsInv

\* A crash before the barrier, as above.
LEMMA CrashKeepsWorlds ==
  ASSUME WorldsInv, NEW n \in Nodes, Crash(n)
  PROVE  WorldsInv'
<1>0. /\ TypeOK
      /\ ledger' = [ledger EXCEPT ![n] = disk[n]]
      /\ staged' = [staged EXCEPT ![n] = {}]
      /\ disk' = disk /\ msgs' = msgs
  BY DEF WorldsInv, Crash
<1>1. TypeOK'
  BY <1>0 DEF TypeOK
<1>2. JournalBehindLedger'
  <2>1. \A s \in Slots : disk[n].promise[s] \in Nat /\ disk[n].vote[s].bal \in Int
    BY <1>0, BallotTypes DEF TypeOK, Ledgers
  <2> QED
    BY <1>0, <2>1 DEF WorldsInv, JournalBehindLedger, TypeOK
<1>3. ASSUME NEW S \in SUBSET Nodes PROVE PaxosInv(WorldLedger(S), WorldMsgs(S))'
  <2> DEFINE T == S \ {n}
  <2>1. PaxosInv(WorldLedger(T), WorldMsgs(T))
    BY DEF WorldsInv
  <2>2. WorldLedger(S)' = WorldLedger(T)
    BY <1>0 DEF WorldLedger, TypeOK
  <2>3. WorldMsgs(S)' = WorldMsgs(T)
    BY <1>0 DEF WorldMsgs, TypeOK
  <2> QED
    BY <2>1, <2>2, <2>3
<1> QED
  BY <1>1, <1>2, <1>3 DEF WorldsInv

-----------------------------------------------------------------------------
\* The parts of the inductive invariant the actions' lemmas start from.
LEMMA StateFacts ==
  ASSUME WorldsInv, NEW n \in Nodes
  PROVE  /\ ledger[n] \in Ledgers /\ disk[n] \in Ledgers /\ msgs \subseteq Messages
         /\ \A s \in Slots : /\ ledger[n].promise[s] \in Ballots
                             /\ ledger[n].vote[s] \in Votes
                             /\ ledger[n].chosen[s] \in Proposals \cup {None}
         /\ World(WorldLedger({n}), WorldMsgs({n}))
         /\ PaxosInv(WorldLedger({n}), WorldMsgs({n}))
         /\ WorldLedger({n})[n] = ledger[n] /\ msgs \subseteq WorldMsgs({n})
<1>1. TypeOK /\ {n} \in SUBSET Nodes
  BY DEF WorldsInv
<1>2. /\ ledger[n] \in Ledgers /\ disk[n] \in Ledgers /\ msgs \subseteq Messages
  BY <1>1 DEF TypeOK
<1>3. /\ World(WorldLedger({n}), WorldMsgs({n}))
      /\ WorldLedger({n})[n] = ledger[n] /\ msgs \subseteq WorldMsgs({n})
  BY <1>1, WorldTypes
<1>4. PaxosInv(WorldLedger({n}), WorldMsgs({n}))
  BY <1>1 DEF WorldsInv
<1> QED
  BY <1>2, <1>3, <1>4 DEF Ledgers

\* Propose keeps the invariant: nothing is below ballot zero.
LEMMA ProposeKeepsWorlds ==
  ASSUME WorldsInv, NEW n \in Nodes, NEW s \in Slots, NEW v \in Proposals, Propose(n, s, v)
  PROVE  WorldsInv'
<1> DEFINE l == WithVote(ledger[n], s, 0, v)
           out == {[type |-> "Accept", from |-> n, slot |-> s, bal |-> 0, val |-> v]}
<1>1. /\ owner_of(s) = n /\ ledger[n].vote[s] = NoVote /\ ledger[n].promise[s] = 0
      /\ Stage(n, l, out)
  BY DEF Propose
<1>2. out \subseteq Messages
  BY BallotTypes DEF Messages
<1>3. l \in Ledgers /\ Grows(ledger[n], l)
  <2>1. /\ ledger[n] \in Ledgers
        /\ \A t \in Slots : ledger[n].promise[t] \in Nat /\ ledger[n].vote[t].bal \in Int
    BY StateFacts, BallotTypes
  <2>2. 0 \in Ballots /\ NoVote.bal = -1
    BY BallotTypes
  <2>3. /\ l \in Ledgers /\ l.chosen = ledger[n].chosen
        /\ l.promise[s] = 0 /\ l.vote[s] = [bal |-> 0, val |-> v]
        /\ \A t \in Slots : t # s => /\ l.promise[t] = ledger[n].promise[t]
                                     /\ l.vote[t] = ledger[n].vote[t]
    BY <2>1, <2>2, VoteLedger
  <2> HIDE DEF l
  <2> QED
    BY <1>1, <2>1, <2>2, <2>3 DEF Grows
<1>4. ASSUME NEW D, NEW M, World(D, M), PaxosInv(D, M), D[n] = ledger[n], msgs \subseteq M
      PROVE  PaxosInv([D EXCEPT ![n] = l], M \cup out)
  <2>1. SafeAt(D, M, s, 0, v)
    BY BallotTypes DEF SafeAt
  <2>2. ballot_node(0, s) = n
    BY <1>1 DEF ballot_node
  <2>3. 0 \in Ballots /\ D[n].promise[s] <= 0 /\ D[n].vote[s].bal < 0
    BY <1>1, <1>4, BallotTypes
  <2> QED
    BY <1>4, <2>1, <2>2, <2>3, OfferStep
<1> HIDE DEF l, out
<1> QED
  BY <1>1, <1>2, <1>3, <1>4, StageKeepsWorlds

\* Raising a promise only makes a ledger grow.
LEMMA PromiseGrows ==
  ASSUME NEW l \in Ledgers, NEW s \in Slots, NEW b \in Ballots, l.promise[s] < b
  PROVE  WithPromise(l, s, b) \in Ledgers /\ Grows(l, WithPromise(l, s, b))
<1> DEFINE k == WithPromise(l, s, b)
<1>1. \A t \in Slots : l.promise[t] \in Nat /\ l.vote[t].bal \in Int
  BY BallotTypes DEF Ledgers
<1>2. /\ k \in Ledgers /\ k.vote = l.vote /\ k.chosen = l.chosen /\ k.promise[s] = b
      /\ \A t \in Slots : t # s => k.promise[t] = l.promise[t]
  BY PromiseLedger
<1> HIDE DEF k
<1>3. k \in Ledgers /\ Grows(l, k)
  BY <1>1, <1>2, BallotTypes DEF Grows
<1> QED
  BY <1>3 DEF k

\* Prepare keeps the invariant.
LEMMA PrepareKeepsWorlds ==
  ASSUME WorldsInv, NEW n \in Nodes, NEW s \in Slots, NEW b \in Ballots, Prepare(n, s, b)
  PROVE  WorldsInv'
<1> DEFINE l == WithPromise(ledger[n], s, b)
           out == {[type |-> "Prepare", from |-> n, slot |-> s, bal |-> b]}
<1>1. /\ ballot_node(b, s) = n /\ ledger[n].promise[s] < b /\ Stage(n, l, out)
  BY StateFacts, BallotTypes DEF Prepare
<1>2. out \subseteq Messages
  BY DEF Messages
<1>3. l \in Ledgers /\ Grows(ledger[n], l)
  BY <1>1, StateFacts, PromiseGrows
<1>4. ASSUME NEW D, NEW M, World(D, M), PaxosInv(D, M), D[n] = ledger[n], msgs \subseteq M
      PROVE  PaxosInv([D EXCEPT ![n] = l], M \cup out)
  BY <1>1, <1>4, PrepareStep
<1> HIDE DEF l, out
<1> QED
  BY <1>1, <1>2, <1>3, <1>4, StageKeepsWorlds

\* OnPrepare keeps the invariant; a node has promised its own prepares already.
LEMMA OnPrepareKeepsWorlds ==
  ASSUME WorldsInv, NEW n \in Nodes, NEW m \in msgs, OnPrepare(n, m)
  PROVE  WorldsInv'
<1> DEFINE s == m.slot
           b == m.bal
           l == WithPromise(ledger[n], s, b)
           out == {PromiseOf(n, s, b)}
<1>0. m.type = "Prepare" /\ m \in Messages /\ s \in Slots /\ b \in Ballots
  BY StateFacts, MessageTypes DEF OnPrepare
<1>1. ledger[n].promise[s] < b /\ Stage(n, l, out)
  BY <1>0, StateFacts, BallotTypes DEF OnPrepare
<1>2. out \subseteq Messages
  <2>1. ledger[n].vote[s] \in Votes /\ ledger[n].chosen[s] \in Proposals \cup {None}
    BY <1>0, StateFacts
  <2> HIDE DEF s, b
  <2> QED
    BY <1>0, <2>1 DEF Messages, PromiseOf
<1>3. l \in Ledgers /\ Grows(ledger[n], l)
  BY <1>0, <1>1, StateFacts, PromiseGrows
<1>4. ASSUME NEW D, NEW M, World(D, M), PaxosInv(D, M), D[n] = ledger[n], msgs \subseteq M
      PROVE  PaxosInv([D EXCEPT ![n] = l], M \cup out)
  <2>1. PrepareInv(D, M, m)
    BY <1>0, <1>4 DEF PaxosInv, MessageInv
  <2>2. ballot_node(b, s) # n
    <3>1. ledger[n].promise[s] \in Nat /\ b \in Nat
      BY <1>0, StateFacts, BallotTypes
    <3>2. ballot_node(b, s) = n => b <= ledger[n].promise[s]
      BY <1>4, <2>1 DEF PrepareInv
    <3> QED
      BY <1>1, <3>1, <3>2
  <2> QED
    BY <1>0, <1>1, <1>4, <2>2, PromiseStep DEF PromiseOf
<1> HIDE DEF l, out
<1> QED
  BY <1>1, <1>2, <1>3, <1>4, StageKeepsWorlds

\* A vote at a ballot no lower than the promise makes a ledger grow.
LEMMA VoteGrows ==
  ASSUME NEW l \in Ledgers, NEW s \in Slots, NEW b \in Ballots, NEW v \in Proposals,
         l.promise[s] <= b, l.vote[s].bal <= b
  PROVE  WithVote(l, s, b, v) \in Ledgers /\ Grows(l, WithVote(l, s, b, v))
<1> DEFINE k == WithVote(l, s, b, v)
<1>1. \A t \in Slots : l.promise[t] \in Nat /\ l.vote[t].bal \in Int
  BY BallotTypes DEF Ledgers
<1>2. /\ k \in Ledgers /\ k.chosen = l.chosen /\ k.promise[s] = b
      /\ k.vote[s] = [bal |-> b, val |-> v]
      /\ \A t \in Slots : t # s => k.promise[t] = l.promise[t] /\ k.vote[t] = l.vote[t]
  BY VoteLedger
<1> HIDE DEF k
<1>3. k \in Ledgers /\ Grows(l, k)
  BY <1>1, <1>2, BallotTypes DEF Grows
<1> QED
  BY <1>3 DEF k

\* The promises a revoker has collected and its own are reports of a read quorum.
LEMMA RevokerHasReports ==
  ASSUME NEW D, NEW M, World(D, M), PaxosInv(D, M), NEW n \in Nodes, NEW s \in Slots,
         NEW b \in Ballots, ballot_node(b, s) = n, D[n] = ledger[n],
         ledger[n].promise[s] = b, ledger[n].vote[s].bal < b, NEW P \in SUBSET M,
         \A p \in P : p.type = "Promise" /\ p.slot = s /\ p.bal = b,
         Cardinality(P) + 1 = ReadQuorum
  PROVE  LET R == P \cup {PromiseOf(n, s, b)}
         IN  /\ \A p \in R : Report(D, M, s, b, p)
             /\ Cardinality({p.from : p \in R}) >= ReadQuorum
<1> DEFINE own == PromiseOf(n, s, b)
           R == P \cup {own}
<1>0. own.from = n /\ own.vote = D[n].vote[s] /\ own.chosen = D[n].chosen[s]
  BY DEF PromiseOf
<1>1. b \in Nat /\ D[n] \in Ledgers /\ LedgerInv(D, M, n, s)
  BY BallotTypes DEF World, PaxosInv
<1>2. Report(D, M, s, b, own)
  <2>1. D[n].vote[s] \in Votes /\ D[n].chosen[s] \in Proposals \cup {None}
    BY <1>1 DEF Ledgers
  <2>2. ASSUME NEW c \in Ballots, own.vote.bal < c PROVE ~VotedIn(M, n, s, c)
    <3>1. c \in Nat /\ own.vote.bal \in Int
      BY <1>0, <2>1, BallotTypes
    <3> QED
      BY <1>0, <1>1, <2>2, <3>1 DEF LedgerInv
  <2>3. /\ own.vote # NoVote => AcceptIn(M, s, own.vote.bal, own.vote.val)
        /\ own.chosen # None => DecidedIn(M, s, own.chosen)
    BY <1>0, <1>1 DEF LedgerInv
  <2> HIDE DEF own
  <2> QED
    BY <1>0, <1>1, <2>1, <2>2, <2>3 DEF Report
<1>3. ASSUME NEW p \in P PROVE Report(D, M, s, b, p)
  <2>1. p \in Messages /\ PromiseInv(D, M, p) /\ p.type = "Promise" /\ p.slot = s /\ p.bal = b
    BY DEF World, PaxosInv, MessageInv
  <2>2. /\ p.from \in Nodes /\ p.vote \in Votes /\ p.chosen \in Proposals \cup {None}
    BY <2>1, MessageTypes
  <2>3. D[p.from].promise[s] \in Nat
    BY <2>2, BallotTypes DEF World, Ledgers
  <2> QED
    BY <1>1, <2>1, <2>2, <2>3 DEF Report, PromiseInv
<1>4. Cardinality({p.from : p \in P} \cup {n}) = ReadQuorum
  BY PromisersAreAQuorum
<1>5. {p.from : p \in R} = {p.from : p \in P} \cup {n}
  BY <1>0
<1>6. ReadQuorum \in Int
  BY QuorumAssumption
<1>7. \A p \in R : Report(D, M, s, b, p)
  BY <1>2, <1>3
<1>8. Cardinality({p.from : p \in R}) >= ReadQuorum
  <2> DEFINE Q == {p.from : p \in R}
  <2>1. Cardinality(Q) = ReadQuorum
    BY <1>4, <1>5
  <2> HIDE DEF Q
  <2>2. Cardinality(Q) >= ReadQuorum
    BY <1>6, <2>1
  <2> QED
    BY <2>2 DEF Q
<1> QED
  BY <1>7, <1>8

\* Resolve keeps the invariant.
LEMMA ResolveKeepsWorlds ==
  ASSUME WorldsInv, NEW n \in Nodes, NEW s \in Slots, NEW b \in Ballots, Resolve(n, s, b)
  PROVE  WorldsInv'
<1>1. /\ ballot_node(b, s) = n /\ ledger[n].promise[s] = b /\ ledger[n].vote[s].bal < b
      /\ \E P \in SUBSET msgs :
           /\ \A p \in P : p.type = "Promise" /\ p.slot = s /\ p.bal = b
           /\ Cardinality(P) + 1 = ReadQuorum
           /\ \E v \in Offer(P \cup {PromiseOf(n, s, b)}) :
                 Stage(n, WithVote(ledger[n], s, b, v),
                       {[type |-> "Accept", from |-> n, slot |-> s, bal |-> b, val |-> v]})
  BY DEF Resolve
<1>2. PICK P \in SUBSET msgs :
        /\ \A p \in P : p.type = "Promise" /\ p.slot = s /\ p.bal = b
        /\ Cardinality(P) + 1 = ReadQuorum
        /\ \E v \in Offer(P \cup {PromiseOf(n, s, b)}) :
              Stage(n, WithVote(ledger[n], s, b, v),
                    {[type |-> "Accept", from |-> n, slot |-> s, bal |-> b, val |-> v]})
  BY <1>1
<1> DEFINE R == P \cup {PromiseOf(n, s, b)}
<1>3. PICK v \in Offer(R) :
        Stage(n, WithVote(ledger[n], s, b, v),
              {[type |-> "Accept", from |-> n, slot |-> s, bal |-> b, val |-> v]})
  BY <1>2
<1> DEFINE l == WithVote(ledger[n], s, b, v)
           out == {[type |-> "Accept", from |-> n, slot |-> s, bal |-> b, val |-> v]}
<1>4. ASSUME NEW D, NEW M, World(D, M), PaxosInv(D, M), D[n] = ledger[n], msgs \subseteq M
      PROVE  /\ v \in Proposals /\ SafeAt(D, M, s, b, v)
             /\ v = Noop \/ AcceptIn(M, s, 0, v)
  <2>1. P \in SUBSET M
    BY <1>4
  <2>2. /\ \A p \in R : Report(D, M, s, b, p)
        /\ Cardinality({p.from : p \in R}) >= ReadQuorum
    BY <1>1, <1>2, <1>4, <2>1, RevokerHasReports
  <2> HIDE DEF R
  <2> QED
    BY <1>3, <1>4, <2>2, OfferIsSafe
<1>5. v \in Proposals
  BY <1>4, StateFacts
<1>6. out \subseteq Messages
  BY <1>5 DEF Messages
<1>7. ledger[n] \in Ledgers /\ ledger[n].promise[s] <= b /\ ledger[n].vote[s].bal <= b
  <2>0. ledger[n] \in Ledgers /\ ledger[n].vote[s] \in Votes
    BY StateFacts
  <2>1. ledger[n] \in Ledgers /\ ledger[n].vote[s].bal \in Int /\ b \in Int
    BY <2>0, BallotTypes
  <2> QED
    BY <1>1, <2>1
<1>8. l \in Ledgers /\ Grows(ledger[n], l)
  BY <1>5, <1>7, VoteGrows
<1>9. ASSUME NEW D, NEW M, World(D, M), PaxosInv(D, M), D[n] = ledger[n], msgs \subseteq M
      PROVE  PaxosInv([D EXCEPT ![n] = l], M \cup out)
  <2>1. SafeAt(D, M, s, b, v) /\ (v = Noop \/ AcceptIn(M, s, 0, v))
    BY <1>4, <1>9
  <2> QED
    BY <1>1, <1>5, <1>7, <1>9, <2>1, OfferStep
<1>10. Stage(n, l, out)
  BY <1>3
<1> HIDE DEF l, out
<1> QED
  BY <1>6, <1>8, <1>9, <1>10, StageKeepsWorlds

-----------------------------------------------------------------------------
\* Learning a decision makes a ledger grow, if it has no other.
LEMMA ChosenGrows ==
  ASSUME NEW l \in Ledgers, NEW s \in Slots, NEW v \in Proposals,
         l.chosen[s] = None \/ l.chosen[s] = v
  PROVE  WithChosen(l, s, v) \in Ledgers /\ Grows(l, WithChosen(l, s, v))
<1> DEFINE k == WithChosen(l, s, v)
<1>1. \A t \in Slots : l.promise[t] \in Nat /\ l.vote[t].bal \in Int
  BY BallotTypes DEF Ledgers
<1>2. /\ k \in Ledgers /\ k.promise = l.promise /\ k.vote = l.vote /\ k.chosen[s] = v
      /\ \A t \in Slots : t # s => k.chosen[t] = l.chosen[t]
  BY ChosenLedger
<1> HIDE DEF k
<1>3. k \in Ledgers /\ Grows(l, k)
  BY <1>1, <1>2 DEF Grows
<1> QED
  BY <1>3 DEF k

\* OnAccepted keeps the invariant: the collected votes decide.
LEMMA OnAcceptedKeepsWorlds ==
  ASSUME WorldsInv, NEW n \in Nodes, NEW s \in Slots, NEW b \in Ballots, OnAccepted(n, s, b)
  PROVE  WorldsInv'
<1> DEFINE v == ledger[n].vote[s].val
           l == WithChosen(ledger[n], s, v)
           out == {[type |-> "Commit", slot |-> s, val |-> v]}
           K == {k \in msgs : k.type = "Accepted" /\ k.slot = s /\ k.bal = b}
           W == {k.from : k \in K} \cup {n}
<1>1. /\ ledger[n].vote[s].bal = b /\ ledger[n].chosen[s] = None
      /\ Cardinality(W) >= WriteQuorum
      /\ Stage(n, l, out)
  BY DEF OnAccepted
<1>2. ledger[n] \in Ledgers /\ ledger[n].vote[s] # NoVote /\ v \in Proposals
  <2>1. ledger[n] \in Ledgers /\ ledger[n].vote[s] \in Votes
    BY StateFacts
  <2>2. b \in Nat
    BY BallotTypes
  <2> QED
    BY <1>1, <2>1, <2>2, BallotTypes
<1>3. out \subseteq Messages
  BY <1>2 DEF Messages
<1>4. l \in Ledgers /\ Grows(ledger[n], l)
  BY <1>1, <1>2, ChosenGrows
<1>5. W \in SUBSET Nodes
  <2>1. \A k \in K : k.from \in Nodes
    BY StateFacts, MessageTypes
  <2> QED
    BY <2>1
<1>6. ASSUME NEW D, NEW M, World(D, M), PaxosInv(D, M), D[n] = ledger[n], msgs \subseteq M
      PROVE  PaxosInv([D EXCEPT ![n] = l], M \cup out)
  <2>1. AcceptIn(M, s, b, v) /\ VotedIn(M, n, s, b)
    <3>1. LedgerInv(D, M, n, s)
      BY <1>6 DEF PaxosInv
    <3> QED
      BY <1>1, <1>2, <1>6, <3>1 DEF LedgerInv
  <2>2. \A k \in W : VotedIn(M, k, s, b)
    <3>1. \A k \in K : VotedIn(M, k.from, s, b)
      BY <1>6 DEF VotedIn
    <3> QED
      BY <2>1, <3>1
  <2> HIDE DEF W, v, K
  <2>3. ByQuorum(M, s, b, v)
    BY <1>1, <1>5, <2>1, <2>2 DEF ByQuorum
  <2>4. DecidedIn(M, s, v)
    BY <2>3 DEF DecidedIn
  <2> QED
    BY <1>2, <1>6, <2>4, LearnStep
<1> HIDE DEF l, out
<1> QED
  BY <1>1, <1>3, <1>4, <1>6, StageKeepsWorlds

\* OnCommit keeps the invariant.
LEMMA OnCommitKeepsWorlds ==
  ASSUME WorldsInv, NEW n \in Nodes, NEW m \in msgs, OnCommit(n, m)
  PROVE  WorldsInv'
<1> DEFINE s == m.slot
           v == m.val
           l == WithChosen(ledger[n], s, v)
<1>1. /\ m.type = "Commit" /\ s \in Slots /\ v \in Proposals
      /\ ledger[n].chosen[s] = None /\ Stage(n, l, {})
  BY StateFacts, MessageTypes DEF OnCommit
<1>2. l \in Ledgers /\ Grows(ledger[n], l)
  BY <1>1, StateFacts, ChosenGrows
<1>3. ASSUME NEW D, NEW M, World(D, M), PaxosInv(D, M), D[n] = ledger[n], msgs \subseteq M
      PROVE  PaxosInv([D EXCEPT ![n] = l], M \cup {})
  <2>1. DecidedIn(M, s, v)
    BY <1>1, <1>3 DEF PaxosInv, MessageInv
  <2> QED
    BY <1>1, <1>3, <2>1, LearnStep
<1> HIDE DEF l
<1> QED
  BY <1>1, <1>2, <1>3, StageKeepsWorlds

\* Serve keeps the invariant: what a journal holds is decided in every world.
LEMMA ServeKeepsWorlds ==
  ASSUME WorldsInv, NEW n \in Nodes, NEW s \in Slots, Serve(n, s)
  PROVE  WorldsInv'
<1> DEFINE v == disk[n].chosen[s]
           c == [type |-> "Commit", slot |-> s, val |-> v]
<1>0. TypeOK /\ disk[n] \in Ledgers
  BY StateFacts DEF WorldsInv
<1>1. /\ ledger[n] = disk[n] /\ v # None /\ v \in Proposals
      /\ msgs' = msgs \cup {c} /\ ledger' = ledger /\ disk' = disk /\ staged' = staged
  BY <1>0 DEF Serve, Ledgers
<1>2. TypeOK'
  <2>1. c \in Messages
    BY <1>1 DEF Messages
  <2> HIDE DEF c
  <2> QED
    BY <1>0, <1>1, <2>1 DEF TypeOK
<1>3. JournalBehindLedger'
  BY <1>1 DEF WorldsInv, JournalBehindLedger
<1>4. ASSUME NEW S \in SUBSET Nodes PROVE PaxosInv(WorldLedger(S), WorldMsgs(S))'
  <2> DEFINE D == WorldLedger(S)
             M == WorldMsgs(S)
  <2>1. PaxosInv(D, M) /\ World(D, M) /\ D[n] = disk[n]
    BY <1>0, <1>1, WorldTypes DEF WorldsInv
  <2>2. WorldLedger(S)' = D
    BY <1>1 DEF WorldLedger
  <2>3. WorldMsgs(S)' = M \cup {c}
    BY <1>1 DEF WorldMsgs
  <2> HIDE DEF D, M
  <2>4. DecidedIn(M, s, v)
    BY <1>1, <2>1 DEF PaxosInv, LedgerInv
  <2>5. PaxosInv([D EXCEPT ![n] = WithChosen(D[n], s, v)], M \cup {c})
    BY <1>1, <2>1, <2>4, LearnStep
  <2>6. [D EXCEPT ![n] = WithChosen(D[n], s, v)] = D
    <3>1. WithChosen(D[n], s, v) = D[n]
      BY <1>0, <2>1 DEF WithChosen, Ledgers
    <3> QED
      BY <2>1, <3>1 DEF World
  <2> QED
    BY <2>2, <2>3, <2>5, <2>6
<1> QED
  BY <1>2, <1>3, <1>4 DEF WorldsInv

-----------------------------------------------------------------------------
\* What an Accept leaves of its voter: a ledger with the vote and the Accepted
\* that announces it, or nothing new when a higher ballot is promised.
Answers(D, n, m, l, out) ==
    \/ /\ m.bal >= D[n].promise[m.slot]
       /\ l = WithVote(D[n], m.slot, m.bal, m.val)
       /\ out = {[type |-> "Accepted", from |-> n, slot |-> m.slot, bal |-> m.bal]}
    \/ l = D[n] /\ out = {}

\* Voting on an Accept, in a world.
LEMMA AcceptInWorld ==
  ASSUME NEW D, NEW M, World(D, M), PaxosInv(D, M), NEW n \in Nodes,
         NEW m \in M, m.type = "Accept", NEW l, NEW out, Answers(D, n, m, l, out)
  PROVE  /\ l \in Ledgers /\ out \subseteq Messages /\ Grows(D[n], l)
         /\ l.chosen = D[n].chosen
         /\ PaxosInv([D EXCEPT ![n] = l], M \cup out)
<1> DEFINE s == m.slot
           b == m.bal
           v == m.val
<1>1. s \in Slots /\ b \in Ballots /\ v \in Proposals
  BY MessageTypes DEF World
<1>2. D[n] \in Ledgers /\ LedgerInv(D, M, n, s) /\ AcceptIn(M, s, b, v)
  BY <1>1 DEF World, PaxosInv, AcceptIn
<1>3. \A t \in Slots : D[n].promise[t] \in Nat /\ D[n].vote[t] \in Votes /\ D[n].vote[t].bal \in Int
  BY <1>2, BallotTypes DEF Ledgers
<1>4. b \in Nat
  BY <1>1, BallotTypes
<1>5. CASE b >= D[n].promise[s] /\ l = WithVote(D[n], s, b, v)
           /\ out = {[type |-> "Accepted", from |-> n, slot |-> s, bal |-> b]}
  <2>1. D[n].promise[s] <= b
    BY <1>1, <1>3, <1>4, <1>5
  <2>2. D[n].vote[s].bal <= b
    BY <1>1, <1>2, <1>3, <1>4, <2>1, BallotTypes DEF LedgerInv
  <2> HIDE DEF s, b, v
  <2>3. l \in Ledgers /\ Grows(D[n], l)
    BY <1>1, <1>2, <1>5, <2>1, <2>2, VoteGrows
  <2>4. out \subseteq Messages
    BY <1>1, <1>5 DEF Messages
  <2>5. l.chosen = D[n].chosen
    BY <1>2, <1>5 DEF WithVote, Ledgers
  <2>6. PaxosInv([D EXCEPT ![n] = l], M \cup out)
    BY <1>1, <1>2, <1>5, <2>1, VoteStep
  <2> QED
    BY <2>3, <2>4, <2>5, <2>6
<1>6. CASE l = D[n] /\ out = {}
  <2>1. [D EXCEPT ![n] = l] = D /\ M \cup out = M
    BY <1>6 DEF World
  <2>2. Grows(D[n], l)
    BY <1>3, <1>6 DEF Grows
  <2> QED
    BY <1>2, <1>6, <2>1, <2>2
<1> QED
  BY <1>5, <1>6 DEF Answers

\* The fast commit that follows the vote, in a world.
LEMMA FastCommitInWorld ==
  ASSUME NEW D, NEW M, World(D, M), PaxosInv(D, M), NEW n \in Nodes,
         NEW m \in M, m.type = "Accept", NEW l, NEW out, Answers(D, n, m, l, out),
         owner_fast_commit(n, l, m)
  PROVE  LET k == WithChosen(l, m.slot, m.val)
         IN  /\ k \in Ledgers /\ Grows(D[n], k)
             /\ PaxosInv([D EXCEPT ![n] = k], M \cup out)
<1> DEFINE s == m.slot
           v == m.val
           k == WithChosen(l, s, v)
           D1 == [D EXCEPT ![n] = l]
           M1 == M \cup out
<1>1. s \in Slots /\ v \in Proposals /\ D[n] \in Ledgers
  BY MessageTypes DEF World
<1>2. /\ l \in Ledgers /\ out \subseteq Messages /\ Grows(D[n], l)
      /\ l.chosen = D[n].chosen
      /\ PaxosInv(D1, M1)
  BY ONLY AcceptInWorld, World(D, M), PaxosInv(D, M), n \in Nodes, m \in M,
          m.type = "Accept", Answers(D, n, m, l, out)
<1>3. World(D1, M1) /\ D1[n] = l /\ m \in M1
  BY <1>2 DEF World
<1>4. l.vote[s] = [bal |-> m.bal, val |-> v] => VotedIn(M1, n, s, m.bal)
  <2>1. LedgerInv(D1, M1, n, s)
    BY <1>1, <1>2 DEF PaxosInv
  <2>2. ASSUME l.vote[s] = [bal |-> m.bal, val |-> v] PROVE l.vote[s] # NoVote
    BY <1>1, <2>2, MembersAssumption DEF NoVote, Proposals
  <2>3. ASSUME l.vote[s] = [bal |-> m.bal, val |-> v] PROVE l.vote[s].bal = m.bal
    BY <2>3
  <2> HIDE DEF D1, M1
  <2> QED
    BY <1>3, <2>1, <2>2, <2>3 DEF LedgerInv
<1>5. DecidedIn(M1, s, v)
  BY <1>2, <1>3, <1>4, FastCommitDecides
<1>6. l.chosen[s] = None \/ l.chosen[s] = v
  <2>1. l.chosen[s] # None => DecidedIn(M1, s, l.chosen[s])
    BY <1>1, <1>2, <1>3 DEF PaxosInv, LedgerInv
  <2> HIDE DEF D1, M1, s, v
  <2> QED
    BY <1>1, <1>2, <1>3, <1>5, <2>1, WorldAgrees
<1>7. k \in Ledgers /\ Grows(l, k)
  BY <1>1, <1>2, <1>6, ChosenGrows
<1>8. Grows(D[n], k)
  <2> SUFFICES ASSUME NEW t \in Slots
               PROVE  /\ D[n].promise[t] <= k.promise[t]
                      /\ D[n].vote[t].bal <= k.vote[t].bal
                      /\ D[n].chosen[t] # None => k.chosen[t] = D[n].chosen[t]
    BY DEF Grows
  <2> HIDE DEF k
  <2>1. /\ D[n].promise[t] \in Int /\ l.promise[t] \in Int /\ k.promise[t] \in Int
        /\ D[n].vote[t].bal \in Int /\ l.vote[t].bal \in Int /\ k.vote[t].bal \in Int
    BY <1>1, <1>2, <1>7, BallotTypes DEF Ledgers
  <2> QED
    BY <1>2, <1>7, <2>1 DEF Grows
<1>9. PaxosInv([D EXCEPT ![n] = k], M1)
  <2>1. PaxosInv([D1 EXCEPT ![n] = WithChosen(D1[n], s, v)], M1 \cup {})
    BY <1>1, <1>2, <1>3, <1>5, LearnStep
  <2>2. [D1 EXCEPT ![n] = WithChosen(D1[n], s, v)] = [D EXCEPT ![n] = k] /\ M1 \cup {} = M1
    BY <1>3 DEF World
  <2> QED
    BY <2>1, <2>2
<1> QED
  BY <1>7, <1>8, <1>9

\* OnAccept keeps the invariant, with and without the fast commit.
LEMMA OnAcceptKeepsWorlds ==
  ASSUME WorldsInv, NEW n \in Nodes, NEW m \in msgs, OnAccept(n, m)
  PROVE  WorldsInv'
<1> DEFINE votes == m.bal >= ledger[n].promise[m.slot]
           l == IF votes THEN WithVote(ledger[n], m.slot, m.bal, m.val) ELSE ledger[n]
           out == IF votes
                  THEN {[type |-> "Accepted", from |-> n, slot |-> m.slot, bal |-> m.bal]}
                  ELSE {}
           k == WithChosen(l, m.slot, m.val)
           W == WorldLedger({n})
           V == WorldMsgs({n})
<1>1. /\ m.type = "Accept"
      /\ Stage(n, l, out) \/ (owner_fast_commit(n, l, m) /\ Stage(n, k, out))
  BY DEF OnAccept
<1>2. ASSUME NEW D, D[n] = ledger[n] PROVE Answers(D, n, m, l, out)
  BY <1>2 DEF Answers
<1>3. World(W, V) /\ PaxosInv(W, V) /\ W[n] = ledger[n] /\ msgs \subseteq V
  BY StateFacts
<1> HIDE DEF l, out, W, V
<1>4. l \in Ledgers /\ out \in SUBSET Messages /\ Grows(ledger[n], l)
  BY <1>1, <1>2, <1>3, AcceptInWorld
<1>5. CASE Stage(n, l, out)
  <2>1. ASSUME NEW D, NEW M, World(D, M), PaxosInv(D, M), D[n] = ledger[n], msgs \subseteq M
        PROVE  PaxosInv([D EXCEPT ![n] = l], M \cup out)
    BY <1>1, <1>2, <2>1, AcceptInWorld
  <2> QED
    BY <1>4, <1>5, <2>1, StageKeepsWorlds
<1>6. CASE owner_fast_commit(n, l, m) /\ Stage(n, k, out)
  <2>1. ASSUME NEW D, NEW M, World(D, M), PaxosInv(D, M), D[n] = ledger[n], msgs \subseteq M
        PROVE  k \in Ledgers /\ Grows(D[n], k) /\ PaxosInv([D EXCEPT ![n] = k], M \cup out)
    BY <1>1, <1>2, <1>6, <2>1, FastCommitInWorld
  <2> HIDE DEF k
  <2>2. k \in Ledgers /\ Grows(ledger[n], k)
    BY <1>3, <2>1
  <2> QED
    BY <1>4, <1>6, <2>1, <2>2, StageKeepsWorlds
<1> QED
  BY <1>1, <1>5, <1>6

-----------------------------------------------------------------------------
\* Every host starts with an empty ledger and nothing has been sent.
LEMMA InitWorlds ==
  ASSUME Init PROVE WorldsInv
<1> USE DEF Init
<1>1. EmptyLedger \in Ledgers
  <2>1. 0 \in Ballots /\ NoVote \in Votes
    BY BallotTypes DEF Votes
  <2> QED
    BY <2>1 DEF EmptyLedger, Ledgers
<1>2. TypeOK
  BY <1>1 DEF TypeOK
<1>3. JournalBehindLedger
  BY BallotTypes DEF JournalBehindLedger, EmptyLedger
<1>4. ASSUME NEW S \in SUBSET Nodes PROVE PaxosInv(WorldLedger(S), WorldMsgs(S))
  <2>1. WorldMsgs(S) = {}
    BY DEF WorldMsgs
  <2>2. \A k \in Nodes : WorldLedger(S)[k] = EmptyLedger
    BY DEF WorldLedger
  <2>3. \A k, s, b : ~VotedIn({}, k, s, b)
    BY DEF VotedIn
  <2>4. \A s \in Slots : EmptyLedger.vote[s] = NoVote /\ EmptyLedger.chosen[s] = None
    BY DEF EmptyLedger
  <2>5. ASSUME NEW k \in Nodes, NEW s \in Slots PROVE LedgerInv(WorldLedger(S), {}, k, s)
    BY <2>2, <2>3, <2>4 DEF LedgerInv
  <2> QED
    BY <2>1, <2>5 DEF PaxosInv
<1> QED
  BY <1>2, <1>3, <1>4 DEF WorldsInv

\* Every step keeps the invariant, and so does stuttering.
LEMMA NextKeepsWorlds ==
  ASSUME WorldsInv, [Next]_vars PROVE WorldsInv'
<1>1. CASE UNCHANGED vars
  <2>1. ledger' = ledger /\ disk' = disk /\ staged' = staged /\ msgs' = msgs
    BY <1>1 DEF vars
  <2>2. TypeOK' /\ JournalBehindLedger'
    BY <2>1 DEF WorldsInv, TypeOK, JournalBehindLedger
  <2>3. ASSUME NEW S \in SUBSET Nodes PROVE PaxosInv(WorldLedger(S), WorldMsgs(S))'
    <3>1. WorldLedger(S)' = WorldLedger(S) /\ WorldMsgs(S)' = WorldMsgs(S)
      BY <2>1 DEF WorldLedger, WorldMsgs
    <3> QED
      BY <3>1 DEF WorldsInv
  <2> QED
    BY <2>2, <2>3 DEF WorldsInv
<1>2. ASSUME NEW n \in Nodes, NEW s \in Slots, NEW v \in Proposals, Propose(n, s, v)
      PROVE  WorldsInv'
  BY <1>2, ProposeKeepsWorlds
<1>3. ASSUME NEW n \in Nodes, NEW s \in Slots, NEW b \in Ballots,
             Prepare(n, s, b) \/ Resolve(n, s, b) \/ OnAccepted(n, s, b)
      PROVE  WorldsInv'
  BY <1>3, PrepareKeepsWorlds, ResolveKeepsWorlds, OnAcceptedKeepsWorlds
<1>4. ASSUME NEW n \in Nodes, NEW m \in msgs,
             OnPrepare(n, m) \/ OnAccept(n, m) \/ OnCommit(n, m)
      PROVE  WorldsInv'
  BY <1>4, OnPrepareKeepsWorlds, OnAcceptKeepsWorlds, OnCommitKeepsWorlds
<1>5. ASSUME NEW n \in Nodes, NEW s \in Slots, Serve(n, s) PROVE WorldsInv'
  BY <1>5, ServeKeepsWorlds
<1>6. ASSUME NEW n \in Nodes, GroupClose(n) \/ Crash(n) PROVE WorldsInv'
  BY <1>6, GroupCloseKeepsWorlds, CrashKeepsWorlds
<1> QED
  BY <1>1, <1>2, <1>3, <1>4, <1>5, <1>6 DEF Next

\* In every reachable state, every world satisfies the invariant of plain Paxos.
THEOREM WorldsTheorem == Spec => []WorldsInv
<1>1. Init => WorldsInv
  BY InitWorlds
<1>2. WorldsInv /\ [Next]_vars => WorldsInv'
  BY NextKeepsWorlds
<1> QED
  BY <1>1, <1>2, PTL DEF Spec

-----------------------------------------------------------------------------
\* A decision in memory or in the journal of a host is decided in the world in
\* which every host closes its group: Agreement of one world suffices.
LEMMA DecidedInFullWorld ==
  ASSUME WorldsInv, NEW n \in Nodes, NEW s \in Slots,
         NEW v \in {ledger[n].chosen[s], disk[n].chosen[s]}, v # None
  PROVE  DecidedIn(WorldMsgs(Nodes), s, v)
<1>1. ledger[n].chosen[s] = v
  BY DEF WorldsInv, JournalBehindLedger
<1>2. PaxosInv(WorldLedger(Nodes), WorldMsgs(Nodes)) /\ WorldLedger(Nodes)[n] = ledger[n]
  BY WorldTypes DEF WorldsInv
<1> QED
  BY <1>1, <1>2 DEF PaxosInv, LedgerInv

\* Agreement holds for every membership, every quorum pair that intersects, and
\* every interleaving of proposals, revocations, group closes and crashes.
THEOREM AgreementTheorem == Spec => []Agreement
<1>1. WorldsInv => Agreement
  <2> SUFFICES ASSUME WorldsInv PROVE Agreement
    OBVIOUS
  <2>1. TypeOK
    BY DEF WorldsInv
  <2>2. ASSUME NEW n1 \in Nodes, NEW n2 \in Nodes, NEW s \in Slots,
               NEW v \in {ledger[n1].chosen[s], disk[n1].chosen[s]} \ {None},
               NEW w \in {ledger[n2].chosen[s], disk[n2].chosen[s]} \ {None}
        PROVE  v = w
    <3>1. DecidedIn(WorldMsgs(Nodes), s, v) /\ DecidedIn(WorldMsgs(Nodes), s, w)
      BY DecidedInFullWorld
    <3>2. /\ World(WorldLedger(Nodes), WorldMsgs(Nodes))
          /\ PaxosInv(WorldLedger(Nodes), WorldMsgs(Nodes))
      BY <2>1, WorldTypes DEF WorldsInv
    <3> QED
      BY <3>1, <3>2, WorldAgrees
  <2> QED
    BY <2>1, <2>2 DEF Agreement
<1> QED
  BY <1>1, WorldsTheorem, PTL

\* What has been released is covered by the journal: it is true in the world in
\* which every host crashes now.
THEOREM ReleasedIsDurableTheorem == Spec => []ReleasedIsDurable
<1>1. WorldsInv => ReleasedIsDurable
  <2> SUFFICES ASSUME WorldsInv, NEW m \in msgs
               PROVE  /\ m.type \in {"Promise", "Accepted", "Accept"} =>
                            disk[m.from].promise[m.slot] >= m.bal
                      /\ m.type \in {"Accepted", "Accept"} =>
                            disk[m.from].vote[m.slot].bal >= m.bal
    BY DEF ReleasedIsDurable
  <2> DEFINE D == WorldLedger({})
             M == WorldMsgs({})
  <2>1. /\ PaxosInv(D, M) /\ World(D, M) /\ m \in M
        /\ \A k \in Nodes : D[k] = disk[k]
    BY WorldTypes DEF WorldsInv
  <2> HIDE DEF D, M
  <2>2. CASE m.type \in {"Promise", "Accepted", "Accept"}
    <3>1. m.from \in Nodes /\ m.slot \in Slots /\ m.bal \in Ballots /\ m.bal \in Nat
      BY <2>1, <2>2, MessageTypes, BallotTypes DEF World
    <3>2. /\ disk[m.from].promise[m.slot] \in Nat /\ disk[m.from].vote[m.slot] \in Votes
          /\ disk[m.from].vote[m.slot].bal \in Int
      BY <2>1, <3>1, BallotTypes DEF World, Ledgers
    <3>3. CASE m.type = "Promise"
      BY <2>1, <3>1, <3>2, <3>3 DEF PaxosInv, MessageInv, PromiseInv
    <3>4. CASE m.type \in {"Accepted", "Accept"}
      <4>1. VotedIn(M, m.from, m.slot, m.bal)
        BY <2>1, <3>4 DEF VotedIn
      <4>2. LedgerInv(D, M, m.from, m.slot)
        BY <2>1, <3>1 DEF PaxosInv
      <4>3. m.bal <= disk[m.from].vote[m.slot].bal
        BY <2>1, <3>1, <4>1, <4>2 DEF LedgerInv
      <4>4. disk[m.from].vote[m.slot] # NoVote
        BY <3>1, <3>2, <4>3, BallotTypes
      <4>5. disk[m.from].vote[m.slot].bal <= disk[m.from].promise[m.slot]
        BY <2>1, <3>1, <4>2, <4>4 DEF LedgerInv
      <4> QED
        BY <3>1, <3>2, <4>3, <4>5
    <3> QED
      BY <2>2, <3>3, <3>4
  <2> QED
    BY <2>2
<1> QED
  BY <1>1, WorldsTheorem, PTL

\* A journaled decision rests on journaled votes: in the world in which every
\* host crashes now, its quorum has voted for it and later votes repeat it.
THEOREM DurableDecisionsTheorem == Spec => []DurableDecisionsRestOnDurableVotes
<1>1. WorldsInv => DurableDecisionsRestOnDurableVotes
  <2> SUFFICES ASSUME WorldsInv, NEW n \in Nodes, NEW s \in Slots,
                      disk[n].chosen[s] # None
               PROVE  LET v == disk[n].chosen[s]
                          holders == {k \in Nodes : disk[k].vote[s].val = v}
                      IN  \/ Cardinality(holders) >= WriteQuorum
                          \/ v = Noop /\ owner_of(s) \in holders
    BY DEF DurableDecisionsRestOnDurableVotes
  <2> DEFINE D == WorldLedger({})
             M == WorldMsgs({})
             v == disk[n].chosen[s]
             holders == {k \in Nodes : disk[k].vote[s].val = v}
  <2>1. /\ PaxosInv(D, M) /\ World(D, M)
        /\ \A k \in Nodes : D[k] = disk[k]
    BY WorldTypes DEF WorldsInv
  <2> HIDE DEF D, M
  <2>2. DecidedIn(M, s, v)
    BY <2>1 DEF PaxosInv, LedgerInv
  <2>3. ASSUME NEW k \in Nodes, NEW c \in Ballots, VotedIn(M, k, s, c)
        PROVE  /\ disk[k].vote[s].bal \in Ballots /\ c <= disk[k].vote[s].bal
               /\ AcceptIn(M, s, disk[k].vote[s].bal, disk[k].vote[s].val)
    <3>1. LedgerInv(D, M, k, s) /\ D[k] = disk[k] /\ disk[k].vote[s] \in Votes
      BY <2>1 DEF PaxosInv, World, Ledgers
    <3>2. c <= disk[k].vote[s].bal
      BY <2>3, <3>1 DEF LedgerInv
    <3>3. disk[k].vote[s] # NoVote
      BY <3>1, <3>2, BallotTypes
    <3> QED
      BY <3>1, <3>2, <3>3, BallotTypes DEF LedgerInv
  <2>4. CASE v = Noop /\ AcceptIn(M, s, 0, Noop)
    <3>1. PICK m \in M : m.type = "Accept" /\ m.slot = s /\ m.bal = 0 /\ m.val = Noop
      BY <2>4 DEF AcceptIn
    <3>2. m.from = owner_of(s)
      BY <2>1, <3>1 DEF PaxosInv, MessageInv, AcceptInv, ballot_node
    <3>3. owner_of(s) \in Nodes /\ 0 \in Ballots
      BY <2>1, <3>1, <3>2, MessageTypes, BallotTypes DEF World
    <3>4. VotedIn(M, owner_of(s), s, 0)
      BY <3>1, <3>2 DEF VotedIn
    <3>5. disk[owner_of(s)].vote[s].val = Noop
      BY <2>1, <2>3, <2>4, <3>3, <3>4, OwnersNoopBinds
    <3> QED
      BY <2>4, <3>3, <3>5
  <2>5. ASSUME NEW c \in Ballots, ByQuorum(M, s, c, v)
        PROVE  Cardinality(holders) >= WriteQuorum
    <3>1. PICK W \in SUBSET Nodes : /\ Cardinality(W) >= WriteQuorum
                                    /\ \A k \in W : VotedIn(M, k, s, c)
      BY <2>5 DEF ByQuorum
    <3>2. ASSUME NEW k \in W PROVE disk[k].vote[s].val = v
      <4>1. VotedIn(M, k, s, c) /\ k \in Nodes
        BY <3>1
      <4> QED
        BY <2>1, <2>3, <2>5, <4>1, DecisionBinds
    <3>3. W \subseteq holders /\ holders \subseteq Nodes
      BY <3>2
    <3>4. IsFiniteSet(Nodes)
      <4>1. N \in Int
        BY MembersAssumption
      <4> QED
        BY <4>1, FS_Interval DEF Nodes
    <3> HIDE DEF holders
    <3>5. IsFiniteSet(holders)
      BY <3>3, <3>4, FS_Subset
    <3>6. Cardinality(W) <= Cardinality(holders) /\ IsFiniteSet(W)
      BY <3>3, <3>5, FS_Subset
    <3>7. Cardinality(W) \in Nat /\ Cardinality(holders) \in Nat /\ WriteQuorum \in Nat
      BY <3>5, <3>6, FS_CardinalityType, QuorumAssumption, MembersAssumption
    <3> QED
      BY <3>1, <3>6, <3>7
  <2> QED
    BY <2>2, <2>4, <2>5 DEF DecidedIn
<1> QED
  BY <1>1, WorldsTheorem, PTL

\* The journal never forgets: only closing a group writes it, and memory
\* extends it.
THEOREM JournalNeverForgetsTheorem == Spec => JournalNeverForgets
<1> DEFINE Kept == \A n \in Nodes, s \in Slots :
                     /\ disk[n].chosen[s] # None => disk'[n].chosen[s] = disk[n].chosen[s]
                     /\ disk'[n].promise[s] >= disk[n].promise[s]
                     /\ disk'[n].vote[s].bal >= disk[n].vote[s].bal
<1>1. WorldsInv /\ [Next]_vars => [Kept]_vars
  <2> SUFFICES ASSUME WorldsInv, Next PROVE Kept
    OBVIOUS
  <2>0. \A n \in Nodes, s \in Slots :
          /\ disk[n].promise[s] \in Int /\ disk[n].vote[s].bal \in Int
          /\ ledger[n].promise[s] \in Int /\ ledger[n].vote[s].bal \in Int
    BY BallotTypes DEF WorldsInv, TypeOK, Ledgers
  <2>1. CASE disk' = disk
    BY <2>0, <2>1
  <2>2. ASSUME NEW k \in Nodes, GroupClose(k) PROVE Kept
    <3>1. \A n \in Nodes : disk'[n] = disk[n] \/ disk'[n] = ledger[n]
      BY <2>2 DEF GroupClose, WorldsInv, TypeOK
    <3> QED
      BY <2>0, <3>1 DEF WorldsInv, JournalBehindLedger
  <2>3. disk' = disk \/ \E k \in Nodes : GroupClose(k)
    <3>0. \A n, l, out : Stage(n, l, out) => disk' = disk
      BY DEF Stage
    <3>1. \A n, s, v : Propose(n, s, v) => disk' = disk
      BY <3>0 DEF Propose
    <3>2. \A n, s, b : Prepare(n, s, b) \/ OnAccepted(n, s, b) => disk' = disk
      BY <3>0 DEF Prepare, OnAccepted
    <3>3. \A n, s, b : Resolve(n, s, b) => disk' = disk
      BY <3>0 DEF Resolve
    <3>4. \A n, m : OnPrepare(n, m) \/ OnAccept(n, m) \/ OnCommit(n, m) => disk' = disk
      BY <3>0 DEF OnPrepare, OnAccept, OnCommit
    <3>5. \A n, s : Serve(n, s) \/ Crash(n) => disk' = disk
      BY DEF Serve, Crash
    <3> QED
      BY <3>1, <3>2, <3>3, <3>4, <3>5 DEF Next
  <2> QED
    BY <2>1, <2>2, <2>3
<1> QED
  BY <1>1, WorldsTheorem, PTL DEF Spec, JournalNeverForgets
=============================================================================
