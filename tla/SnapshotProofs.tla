--------------------------- MODULE SnapshotProofs ---------------------------
(***************************************************************************)
(* Proof that certificates and generations are backed by images that are   *)
(* still there, that every host knows the newest seal it has applied, and  *)
(* that no barrier is captured twice, for every set of voters and any      *)
(* number of barriers, restarts, transfers and retirements.                *)
(*                                                                         *)
(* The argument: a receipt is sent once its image is complete, and the     *)
(* image goes only when a newer seal is chosen; a seal counts receipts.    *)
(* What a host knows is followed by bounds instead of by replays: a seal   *)
(* lies above the prefix that it seals, so the seals below the base that a *)
(* replay skips are older than the base.                                   *)
(***************************************************************************)
EXTENDS Snapshot, FiniteSetTheorems, WellFoundedInduction, TLAPS

Entry == [kind : {"barrier", "seal", "skip"}, prefix : Nat, voters : SUBSET Node]

\* The seals of a log, and the prefixes that one of them seals.
Seals(L) == {s \in 1..Len(L) : L[s].kind = "seal"}
SealedIn(L, p) == \E s \in Seals(L) : L[s].prefix = p

\* A seal lies above its prefix, is certified by a majority, and counts
\* receipts that were sent.
LogInv ==
    \A s \in Seals(log) :
        /\ log[s].prefix < s
        /\ 2 * Cardinality(log[s].voters) > Cardinality(Node)
        /\ \A v \in log[s].voters : [voter |-> v, prefix |-> log[s].prefix] \in sent

\* A receipt's image is there, or a newer seal is chosen.
SentInv ==
    \A r \in sent : \/ Local(r.prefix) \in images[r.voter]
                    \/ \E s \in Seals(log) : log[s].prefix > r.prefix

WorkerInv ==
    \A n \in Node :
        /\ worker[n].phase # "none" => worker[n].prefix # 0
        /\ worker[n].phase = "running" => Local(worker[n].prefix) \in inventory[n]
        /\ worker[n].phase = "done" => [voter |-> n, prefix |-> worker[n].prefix] \in sent

\* A generation being built, or an image being received, replaces an older base.
JobInv ==
    \A n \in Node :
        /\ compaction[n] # 0 =>
              /\ Local(compaction[n]) \in images[n] /\ base[n].prefix < compaction[n]
              /\ \E s \in Seals(log) : s <= applied[n] /\ log[s].prefix = compaction[n]
        /\ transfer[n] # 0 =>
              Incoming(transfer[n]) \in inventory[n] /\ SealedIn(log, transfer[n])

\* p is the newest of the base b and of the seals through slot k.
KnownSeal(L, b, k, p) ==
    /\ p = b \/ \E s \in Seals(L) : s <= k /\ L[s].prefix = p
    /\ b <= p
    /\ \A s \in Seals(L) : s <= k => L[s].prefix <= p

SealInv == \A n \in Node : KnownSeal(log, base[n].prefix, applied[n], sealed[n])

InventoryInv ==
    \A n \in Node : \A i \in inventory[n] : ~i.received => i.prefix <= applied[n]

\* The inductive invariant.
SnapshotInv ==
    /\ TypeOK /\ LogInv /\ SentInv /\ WorkerInv /\ JobInv /\ SealInv /\ InventoryInv
    /\ GenerationsBacked

-----------------------------------------------------------------------------
\* A set of naturals has a least element.
LEMMA LeastPrefix ==
  ASSUME NEW T, T \subseteq Nat, T # {}
  PROVE  \E x \in T : \A y \in T : x <= y
<1> DEFINE R == OpToRel(<, Nat)
<1>1. \A x, y \in Nat : x < y => <<x, y>> \in R
  BY DEF OpToRel
<1>2. IsWellFoundedOn(R, Nat)
  BY NatLessThanWellFounded, Zenon
<1> HIDE DEF R
<1>3. PICK x \in T : \A y \in T : ~(<<y, x>> \in R)
  BY <1>2, WFMin
<1>4. ASSUME NEW y \in T PROVE x <= y
  <2>1. x \in Nat /\ y \in Nat /\ ~(<<y, x>> \in R)
    BY <1>3
  <2>2. ~(y < x)
    BY <1>1, <2>1
  <2> QED
    BY <2>1, <2>2
<1> QED
  BY <1>4

\* A bounded set of naturals has a greatest element.
LEMMA GreatestPrefix ==
  ASSUME NEW top \in Nat, NEW S, S \subseteq 0..top, S # {}
  PROVE  \E x \in S : \A y \in S : y <= x
<1> DEFINE T == {top - y : y \in S}
<1>1. T \subseteq Nat /\ T # {}
  <2>1. T \subseteq Nat
    OBVIOUS
  <2>2. PICK y \in S : TRUE
    OBVIOUS
  <2>3. top - y \in T
    OBVIOUS
  <2> QED
    BY <2>1, <2>3
<1>2. PICK t \in T : \A u \in T : t <= u
  <2> HIDE DEF T
  <2> QED
    BY <1>1, LeastPrefix
<1>3. PICK x \in S : t = top - x
  OBVIOUS
<1>4. ASSUME NEW y \in S PROVE y <= x
  <2>1. t <= top - y /\ y \in 0..top /\ x \in 0..top
    BY <1>2
  <2> QED
    BY <1>3, <2>1
<1> QED
  BY <1>4

\* A replay finds the newest of the base and of the seals: those it skips, at
\* or below the base, seal older prefixes.
LEMMA ReplayedProperty ==
  ASSUME TypeOK, LogInv, NEW b \in 0..Len(log), NEW k \in 0..Len(log)
  PROVE  Replayed(b, k) \in 0..Len(log) /\ KnownSeal(log, b, k, Replayed(b, k))
<1>1. Len(log) \in Nat /\ log \in Seq(Entry)
  BY DEF TypeOK, Entry
<1>2. \A s \in Seals(log) : s \in 1..Len(log) /\ log[s].prefix \in Nat /\ log[s].prefix < s
  <2>1. ASSUME NEW s \in Seals(log)
        PROVE  s \in 1..Len(log) /\ log[s].prefix \in Nat /\ log[s].prefix < s
    <3>1. s \in 1..Len(log) /\ log[s].prefix < s
      BY DEF Seals, LogInv
    <3>2. log[s] \in Entry
      BY <1>1, <3>1
    <3> QED
      BY <3>1, <3>2 DEF Entry
  <2> QED
    BY <2>1
<1> DEFINE seals == {log[s].prefix : s \in {t \in b + 1..k : log[t].kind = "seal"}}
           S == seals \cup {b}
           p == CHOOSE x \in S : \A y \in S : y <= x
<1>3. \A t \in b + 1..k : t \in 1..Len(log)
  BY <1>1
<1>4. \A t \in b + 1..k : log[t].kind = "seal" => t \in Seals(log)
  BY <1>3 DEF Seals
<1>5. S \subseteq 0..Len(log) /\ S # {}
  BY <1>1, <1>2, <1>4
<1>6. \E x \in S : \A y \in S : y <= x
  <2> HIDE DEF S
  <2> QED
    BY <1>1, <1>5, GreatestPrefix
<1>7. p \in S /\ \A y \in S : y <= p
  <2> HIDE DEF S
  <2> QED
    BY <1>6
<1>8. Replayed(b, k) = p
  BY DEF Replayed
<1> HIDE DEF p
<1>9. p \in 0..Len(log) /\ b <= p
  BY <1>5, <1>7
<1>10. p = b \/ \E s \in Seals(log) : s <= k /\ log[s].prefix = p
  <2>1. CASE p \in seals
    <3>1. PICK s \in b + 1..k : log[s].kind = "seal" /\ log[s].prefix = p
      BY <2>1
    <3>2. s \in Seals(log) /\ s <= k
      BY <1>4, <3>1
    <3> QED
      BY <3>1, <3>2
  <2> QED
    BY <1>7, <2>1
<1>11. ASSUME NEW s \in Seals(log), s <= k PROVE log[s].prefix <= p
  <2>1. s \in 1..Len(log) /\ log[s].prefix \in Nat /\ log[s].prefix < s /\ log[s].kind = "seal"
    BY <1>2 DEF Seals
  <2>2. CASE s <= b
    BY <1>9, <2>1, <2>2
  <2>3. CASE s \in b + 1..k
    <3>1. log[s].prefix \in seals
      BY <2>1, <2>3
    <3> QED
      BY <1>7, <3>1
  <2> QED
    BY <1>11, <2>1, <2>2, <2>3
<1> QED
  BY <1>8, <1>9, <1>10, <1>11 DEF KnownSeal

\* What a proposal does to the log.
LEMMA ProposeProperty ==
  ASSUME TypeOK, NEW kind \in {"barrier", "seal"}, NEW prefix \in Nat, NEW voters \in SUBSET Node,
         propose_internal(kind, prefix, voters)
  PROVE  /\ faults' \in 0..MaxFaults /\ Len(log) \in Nat
         /\ \E e \in Entry :
              /\ log' = Append(log, e) /\ log' \in Seq(Entry) /\ Len(log') = Len(log) + 1
              /\ log'[Len(log) + 1] = e
              /\ \A s \in 1..Len(log) : log'[s] = log[s]
              /\ e = [kind |-> kind, prefix |-> prefix, voters |-> voters] \/ e.kind = "skip"
<1>1. log \in Seq(Entry) /\ faults \in 0..MaxFaults /\ MaxFaults \in Nat
  BY SnapshotAssumption DEF TypeOK, Entry
<1>2. faults' \in 0..MaxFaults
  BY <1>1 DEF propose_internal
<1>3. PICK e \in Entry : /\ log' = Append(log, e)
                         /\ \/ e = [kind |-> kind, prefix |-> prefix, voters |-> voters]
                            \/ e.kind = "skip"
  BY DEF propose_internal, Entry
<1>4. /\ log' \in Seq(Entry) /\ Len(log') = Len(log) + 1 /\ Len(log) \in Nat
      /\ log'[Len(log) + 1] = e /\ \A s \in 1..Len(log) : log'[s] = log[s]
  BY <1>1, <1>3
<1> QED
  BY <1>2, <1>3, <1>4

-----------------------------------------------------------------------------
\* The log grew by e; a seal is only appended with the certificate it needs.
Appended(e) ==
    /\ log' \in Seq(Entry) /\ Len(log') = Len(log) + 1
    /\ log'[Len(log) + 1] = e /\ \A s \in 1..Len(log) : log'[s] = log[s]

Certified(e) ==
    /\ e.prefix < Len(log) + 1 /\ 2 * Cardinality(e.voters) > Cardinality(Node)
    /\ \A v \in e.voters : [voter |-> v, prefix |-> e.prefix] \in sent

\* What the two proposals have in common.
ProposalStep(n) ==
    /\ \E e \in Entry : Appended(e) /\ (e.kind = "seal" => Certified(e))
    /\ faults' \in 0..MaxFaults
    /\ pending' \in [Node -> 0..Len(log')] /\ seal_slot' \in [Node -> 0..Len(log')]
    /\ UNCHANGED <<applied, poisoned, worker, compaction, transfer, sealed, sent, durable>>

\* Both proposals append an entry, and a seal is proposed with its certificate.
LEMMA Proposals ==
  ASSUME SnapshotInv, NEW n \in Node, begin_snapshot(n) \/ snapshot_progress(n)
  PROVE  ProposalStep(n)
<1>0. /\ TypeOK /\ WorkerInv /\ log \in Seq(Entry) /\ Len(log) \in Nat
      /\ pending \in [Node -> 0..Len(log)] /\ seal_slot \in [Node -> 0..Len(log)]
      /\ worker \in [Node -> [prefix : 0..Len(log), phase : Phases]]
  <2>1. TypeOK /\ WorkerInv
    BY DEF SnapshotInv
  <2>2. log \in Seq(Entry)
    BY <2>1 DEF TypeOK, Entry
  <2> QED
    BY <2>1, <2>2 DEF TypeOK
<1>1. worker[n].prefix \in 0..Len(log)
  <2>1. worker[n] \in [prefix : 0..Len(log), phase : Phases]
    BY <1>0
  <2> QED
    BY <2>1
<1>a. ASSUME Len(log') = Len(log) + 1
      PROVE  \A f \in [Node -> 0..Len(log)] :
               f \in [Node -> 0..Len(log')] /\ [f EXCEPT ![n] = Len(log) + 1] \in [Node -> 0..Len(log')]
  BY <1>0, <1>a
<1>2. CASE begin_snapshot(n)
  <2>1. /\ propose_internal("barrier", 0, {}) /\ pending' = [pending EXCEPT ![n] = Len(log) + 1]
        /\ UNCHANGED <<applied, poisoned, worker, seal_slot, compaction, transfer,
                        sealed, sent, durable>>
    BY <1>2 DEF begin_snapshot
  <2>2. PICK zero \in Nat, none \in SUBSET Node, barrier \in {"barrier", "seal"} :
          zero = 0 /\ none = {} /\ barrier = "barrier"
    OBVIOUS
  <2>a. propose_internal(barrier, zero, none)
    BY <2>1, <2>2 DEF propose_internal
  <2> DEFINE new == [kind |-> barrier, prefix |-> zero, voters |-> none]
  <2>3. /\ faults' \in 0..MaxFaults
        /\ \E e \in Entry : /\ log' \in Seq(Entry) /\ Len(log') = Len(log) + 1
                            /\ log'[Len(log) + 1] = e /\ \A s \in 1..Len(log) : log'[s] = log[s]
                            /\ e = new \/ e.kind = "skip"
    BY <1>0, <2>a, ProposeProperty
  <2>4. PICK e \in Entry : Appended(e) /\ (e = new \/ e.kind = "skip")
    BY <2>3 DEF Appended
  <2>5. e.kind # "seal"
    BY <2>2, <2>4
  <2>6. pending' \in [Node -> 0..Len(log')] /\ seal_slot' \in [Node -> 0..Len(log')]
    BY <1>0, <1>a, <2>1, <2>4 DEF Appended
  <2> QED
    BY <2>1, <2>3, <2>4, <2>5, <2>6 DEF ProposalStep
<1>3. CASE snapshot_progress(n)
  <2>1. PICK voters \in Receipts(n) :
          build(voters) /\ propose_internal("seal", worker[n].prefix, voters)
    BY <1>3 DEF snapshot_progress
  <2>2. /\ worker[n].phase = "done" /\ seal_slot' = [seal_slot EXCEPT ![n] = Len(log) + 1]
        /\ UNCHANGED <<applied, poisoned, worker, pending, compaction, transfer,
                        sealed, sent, durable>>
    BY <1>3 DEF snapshot_progress
  <2>3. PICK v \in SUBSET {m \in Node \ {n} : [voter |-> m, prefix |-> worker[n].prefix] \in sent} :
          voters = v \cup {n}
    BY <2>1 DEF Receipts
  <2>4. [voter |-> n, prefix |-> worker[n].prefix] \in sent
    BY <1>0, <2>2 DEF WorkerInv
  <2>5. voters \in SUBSET Node
        /\ \A w \in voters : [voter |-> w, prefix |-> worker[n].prefix] \in sent
    BY <2>3, <2>4
  <2>6. 2 * Cardinality(voters) > Cardinality(Node)
    <3>1. Cardinality(Node) \in Nat /\ IsFiniteSet(Node)
      BY SnapshotAssumption, FS_CardinalityType
    <3>2. Cardinality(voters) \in Nat
      BY <2>5, <3>1, FS_Subset, FS_CardinalityType
    <3>3. Cardinality(voters) >= Cardinality(Node) \div 2 + 1
      BY <2>1 DEF build
    <3> QED
      BY <3>1, <3>2, <3>3
  <2>7. worker[n].prefix \in Nat /\ "seal" \in {"barrier", "seal"} /\ worker[n].prefix < Len(log) + 1
    BY <1>0, <1>1
  <2> DEFINE new == [kind |-> "seal", prefix |-> worker[n].prefix, voters |-> voters]
  <2>8. /\ faults' \in 0..MaxFaults
        /\ \E e \in Entry : /\ log' \in Seq(Entry) /\ Len(log') = Len(log) + 1
                            /\ log'[Len(log) + 1] = e /\ \A s \in 1..Len(log) : log'[s] = log[s]
                            /\ e = new \/ e.kind = "skip"
    BY <1>0, <2>1, <2>5, <2>7, ProposeProperty
  <2>9. PICK e \in Entry : Appended(e) /\ (e = new \/ e.kind = "skip")
    BY <2>8 DEF Appended
  <2>10. e.kind = "seal" => Certified(e)
    BY <2>5, <2>6, <2>7, <2>9 DEF Certified
  <2>11. pending' \in [Node -> 0..Len(log')] /\ seal_slot' \in [Node -> 0..Len(log')]
    BY <1>0, <1>a, <2>2, <2>9 DEF Appended
  <2> QED
    BY <2>2, <2>8, <2>9, <2>10, <2>11 DEF ProposalStep
<1> QED
  BY <1>2, <1>3

\* A step of a voter, or none.
VoterStep(n) ==
    \/ UNCHANGED vars
    \/ begin_snapshot(n) \/ apply_host_entries(n)
    \/ snapshot_worker(n) \/ snapshot_worker_error(n)
    \/ snapshot_poison(n) \/ snapshot_progress(n) \/ open(n)
    \/ begin_compaction(n) \/ poll_compaction(n)
    \/ snapshot_transfer_install(n) \/ snapshot_transfer_cancel(n)
    \/ \E m \in Node : receive_snapshot_offer(n, m)
    \/ \E i \in inventory[n] : retire_snapshot_image(n, i) \/ retire_interrupted(n, i)

\* Types are kept by every step of a voter.
LEMMA TypeStep ==
  ASSUME SnapshotInv, NEW n \in Node, VoterStep(n)
  PROVE  TypeOK'
<1>0. /\ TypeOK /\ LogInv /\ WorkerInv /\ JobInv /\ SealInv
      /\ Len(log) \in Nat /\ MaxFaults \in Nat /\ 0 \in 0..Len(log)
      /\ log \in Seq(Entry) /\ applied \in [Node -> 0..Len(log)]
      /\ faults \in 0..MaxFaults
  <2>1. TypeOK /\ LogInv /\ WorkerInv /\ JobInv /\ SealInv
    BY DEF SnapshotInv
  <2>2. log \in Seq(Entry) /\ applied \in [Node -> 0..Len(log)] /\ faults \in 0..MaxFaults
    BY <2>1 DEF TypeOK, Entry
  <2>3. Len(log) \in Nat /\ MaxFaults \in Nat
    BY <2>2, SnapshotAssumption
  <2> QED
    BY <2>1, <2>2, <2>3
<1> USE <1>0 DEF volatile, durable
<1>a. ASSUME log' = log,
             applied' \in [Node -> 0..Len(log)] /\ poisoned' \in [Node -> BOOLEAN],
             worker' \in [Node -> [prefix : 0..Len(log), phase : Phases]],
             pending' \in [Node -> 0..Len(log)] /\ seal_slot' \in [Node -> 0..Len(log)],
             sealed' \in [Node -> 0..Len(log)], sent' \subseteq [voter : Node, prefix : Slots],
             inventory' \in [Node -> SUBSET Image] /\ images' \in [Node -> SUBSET Image],
             \A k \in Node : images'[k] \subseteq inventory'[k],
             base' \in [Node -> Image] /\ previous' \in [Node -> Image],
             compaction' \in [Node -> 0..Len(log)] /\ transfer' \in [Node -> 0..Len(log)],
             faults' \in 0..MaxFaults
      PROVE  TypeOK'
  BY <1>a DEF TypeOK, Slots
<1>b. /\ poisoned \in [Node -> BOOLEAN]
      /\ worker \in [Node -> [prefix : 0..Len(log), phase : Phases]]
      /\ pending \in [Node -> 0..Len(log)] /\ seal_slot \in [Node -> 0..Len(log)]
      /\ sealed \in [Node -> 0..Len(log)] /\ sent \subseteq [voter : Node, prefix : Slots]
      /\ inventory \in [Node -> SUBSET Image] /\ images \in [Node -> SUBSET Image]
      /\ \A k \in Node : images[k] \subseteq inventory[k]
      /\ base \in [Node -> Image] /\ previous \in [Node -> Image]
      /\ compaction \in [Node -> 0..Len(log)] /\ transfer \in [Node -> 0..Len(log)]
  BY DEF TypeOK
<1>c. NoWorker \in [prefix : 0..Len(log), phase : Phases]
  BY DEF NoWorker, Phases
<1>d. ASSUME FreshHost(n)
      PROVE  /\ worker' \in [Node -> [prefix : 0..Len(log), phase : Phases]]
             /\ pending' \in [Node -> 0..Len(log)] /\ seal_slot' \in [Node -> 0..Len(log)]
             /\ compaction' \in [Node -> 0..Len(log)] /\ transfer' \in [Node -> 0..Len(log)]
  BY <1>b, <1>c, <1>d DEF FreshHost
<1>e. ASSUME log' \in Seq(Entry), Len(log') = Len(log) + 1, faults' \in 0..MaxFaults,
             UNCHANGED <<applied, poisoned, worker, compaction, transfer, sealed, sent, durable>>,
             pending' \in [Node -> 0..Len(log')], seal_slot' \in [Node -> 0..Len(log')]
      PROVE  TypeOK'
  <2>1. 0..Len(log) \subseteq 0..Len(log') /\ 1..Len(log) \subseteq 1..Len(log')
    BY <1>e
  <2>2. /\ applied' \in [Node -> 0..Len(log')] /\ sealed' \in [Node -> 0..Len(log')]
        /\ compaction' \in [Node -> 0..Len(log')] /\ transfer' \in [Node -> 0..Len(log')]
    BY <1>b, <1>e, <2>1
  <2>3. worker' \in [Node -> [prefix : 0..Len(log'), phase : Phases]]
    BY <1>b, <1>e, <2>1
  <2>4. sent' \subseteq [voter : Node, prefix : Slots']
    BY <1>b, <1>e, <2>1 DEF Slots
  <2> QED
    BY <1>b, <1>e, <2>2, <2>3, <2>4 DEF TypeOK, Entry
<1>f. Image = [prefix : Nat, received : BOOLEAN]
      /\ \A p \in 0..Len(log) : Local(p) \in Image /\ Incoming(p) \in Image
  BY DEF Image, Local, Incoming
<1>g. \A b \in 0..Len(log), k \in 0..Len(log) : Replayed(b, k) \in 0..Len(log)
  BY ReplayedProperty
<1>h. base[n].prefix \in 0..Len(log)
  <2>1. base[n].prefix \in Nat /\ base[n].prefix <= sealed[n] /\ sealed[n] \in 0..Len(log)
    BY <1>b DEF SealInv, KnownSeal, Image
  <2> QED
    BY <2>1
<1>1. CASE begin_snapshot(n) \/ snapshot_progress(n)
  <2>1. ProposalStep(n)
    BY <1>1, Proposals
  <2>2. /\ faults' \in 0..MaxFaults /\ log' \in Seq(Entry) /\ Len(log') = Len(log) + 1
        /\ UNCHANGED <<applied, poisoned, worker, compaction, transfer, sealed, sent, durable>>
        /\ pending' \in [Node -> 0..Len(log')] /\ seal_slot' \in [Node -> 0..Len(log')]
    BY <2>1 DEF ProposalStep, Appended
  <2> QED
    BY <1>e, <2>2
<1>3. CASE apply_host_entries(n)
  <2> DEFINE entry == log[applied[n] + 1]
  <2>1. /\ applied' = [applied EXCEPT ![n] = @ + 1]
        /\ pending' = [pending EXCEPT ![n] = IF PendingOver(n) THEN 0 ELSE @]
        /\ applied[n] + 1 \in 1..Len(log)
        /\ UNCHANGED <<log, poisoned, compaction, transfer, sent, images, base, previous, faults>>
    BY <1>3 DEF apply_host_entries
  <2>2. applied' \in [Node -> 0..Len(log)] /\ pending' \in [Node -> 0..Len(log)]
    BY <1>b, <2>1
  <2>3. entry \in Entry
    BY <2>1
  <2>4. CASE entry.kind = "barrier" /\ snapshot_pin(n, applied[n] + 1) /\ UNCHANGED sealed
    <3>1. CASE UNCHANGED <<worker, seal_slot, inventory>>
      BY <1>a, <1>b, <2>1, <2>2, <2>4, <3>1
    <3>2. CASE /\ worker' = [worker EXCEPT ![n] = Capture(n, applied[n] + 1)]
               /\ seal_slot' = [seal_slot EXCEPT ![n] = 0]
               /\ inventory' = [inventory EXCEPT ![n] = @ \cup {Local(applied[n] + 1)}]
      <4>1. Capture(n, applied[n] + 1) \in [prefix : 0..Len(log), phase : Phases]
        BY <2>1 DEF Capture, Phases
      <4>2. /\ worker' \in [Node -> [prefix : 0..Len(log), phase : Phases]]
            /\ seal_slot' \in [Node -> 0..Len(log)]
        BY <1>b, <3>2, <4>1
      <4>3. Local(applied[n] + 1) \in Image
        BY <1>f, <2>1
      <4>4. /\ inventory' \in [Node -> SUBSET Image]
            /\ \A k \in Node : inventory[k] \subseteq inventory'[k]
        BY <1>b, <3>2, <4>3
      <4>5. images' \in [Node -> SUBSET Image] /\ \A k \in Node : images'[k] \subseteq inventory'[k]
        BY <1>b, <2>1, <4>4
      <4> QED
        BY <1>a, <1>b, <2>1, <2>2, <2>4, <4>2, <4>4, <4>5
    <3> QED
      BY <2>4, <3>1, <3>2 DEF snapshot_pin
  <2>5. CASE entry.kind = "seal" /\ snapshot_observe_seal(n, entry.prefix) /\ UNCHANGED inventory
    <3>1. applied[n] + 1 \in Seals(log)
      BY <2>1, <2>5 DEF Seals
    <3>2. entry.prefix \in 0..Len(log)
      <4>1. entry.prefix \in Nat /\ entry.prefix < applied[n] + 1
        BY <2>3, <3>1 DEF LogInv, Entry
      <4> QED
        BY <2>1, <4>1
    <3>3. Larger(sealed[n], entry.prefix) \in 0..Len(log)
      BY <1>b, <3>2 DEF Larger
    <3>4. /\ sealed' \in [Node -> 0..Len(log)]
          /\ worker' \in [Node -> [prefix : 0..Len(log), phase : Phases]]
          /\ seal_slot' \in [Node -> 0..Len(log)]
      BY <1>b, <1>c, <2>5, <3>3 DEF snapshot_observe_seal
    <3> QED
      BY <1>a, <1>b, <2>1, <2>2, <2>5, <3>4
  <2>6. CASE UNCHANGED <<worker, seal_slot, inventory, sealed>>
    BY <1>a, <1>b, <2>1, <2>2, <2>6
  <2> QED
    BY <1>3, <2>4, <2>5, <2>6 DEF apply_host_entries
<1>4. CASE snapshot_worker(n)
  <2>1. /\ snapshot_worker_running(n)
        /\ worker' = [worker EXCEPT ![n] =
                     IF @.prefix <= sealed[n] THEN NoWorker ELSE [@ EXCEPT !.phase = "done"]]
        /\ images' = [images EXCEPT ![n] = @ \cup {Local(worker[n].prefix)}]
        /\ sent' = sent \cup {[voter |-> n, prefix |-> worker[n].prefix]}
        /\ UNCHANGED <<log, applied, poisoned, pending, seal_slot, compaction, transfer,
                   sealed, inventory, base, previous, faults>>
    BY <1>4 DEF snapshot_worker
  <2>2. worker[n].phase = "running" /\ worker[n].prefix \in 1..Len(log)
        /\ Local(worker[n].prefix) \in inventory[n]
    <3>1. worker[n] \in [prefix : 0..Len(log), phase : Phases]
      BY <1>b
    <3>2. worker[n].phase = "running"
      BY <2>1 DEF snapshot_worker_running
    <3>3. worker[n].prefix # 0 /\ Local(worker[n].prefix) \in inventory[n]
      BY <3>2 DEF WorkerInv
    <3> QED
      BY <3>1, <3>2, <3>3
  <2>3. sent' \subseteq [voter : Node, prefix : Slots]
    BY <1>b, <2>1, <2>2 DEF Slots
  <2>4. images' \in [Node -> SUBSET Image] /\ \A k \in Node : images'[k] \subseteq inventory'[k]
    BY <1>b, <2>1, <2>2
  <2>5. [worker[n] EXCEPT !.phase = "done"] \in [prefix : 0..Len(log), phase : Phases]
    BY <1>b DEF Phases
  <2>6. worker' \in [Node -> [prefix : 0..Len(log), phase : Phases]]
    BY <1>b, <1>c, <2>1, <2>5
  <2> QED
    BY <1>a, <1>b, <2>1, <2>3, <2>4, <2>6
<1>5. CASE snapshot_worker_error(n)
  <2>1. [worker[n] EXCEPT !.phase = "failed"] \in [prefix : 0..Len(log), phase : Phases]
    BY <1>b DEF Phases
  <2>2. worker' \in [Node -> [prefix : 0..Len(log), phase : Phases]]
    BY <1>5, <1>b, <2>1 DEF snapshot_worker_error
  <2>3. faults' \in 0..MaxFaults
    BY <1>5 DEF snapshot_worker_error
  <2> QED
    BY <1>5, <1>a, <1>b, <2>2, <2>3 DEF snapshot_worker_error
<1>6. CASE snapshot_poison(n)
  <2>1. poisoned' \in [Node -> BOOLEAN]
    BY <1>6, <1>b, Zenon DEF snapshot_poison
  <2> QED
    BY <1>6, <1>a, <1>b, <2>1 DEF snapshot_poison
<1>7. CASE open(n)
  <2>1. PICK k \in applied[n]..Len(log) :
          /\ applied' = [applied EXCEPT ![n] = k]
          /\ sealed' = [sealed EXCEPT ![n] = Replayed(base[n].prefix, k)]
    BY <1>7 DEF open
  <2>2. k \in 0..Len(log) /\ Replayed(base[n].prefix, k) \in 0..Len(log)
    <3>1. applied[n] \in 0..Len(log)
      OBVIOUS
    <3>2. k \in 0..Len(log)
      BY <3>1
    <3> QED
      BY <1>g, <1>h, <3>2
  <2>3. applied' \in [Node -> 0..Len(log)] /\ sealed' \in [Node -> 0..Len(log)]
    BY <1>b, <2>1, <2>2
  <2>4. poisoned' \in [Node -> BOOLEAN]
    BY <1>7, <1>b, Zenon DEF open
  <2>5. faults' \in 0..MaxFaults
    BY <1>7 DEF open
  <2>6. FreshHost(n) /\ UNCHANGED <<log, sent, durable>>
    BY <1>7 DEF open
  <2> QED
    BY <1>a, <1>b, <1>d, <2>3, <2>4, <2>5, <2>6
<1>8. CASE begin_compaction(n)
  <2>1. compaction' \in [Node -> 0..Len(log)]
    BY <1>8, <1>b DEF begin_compaction
  <2> QED
    BY <1>8, <1>a, <1>b, <2>1 DEF begin_compaction
<1>9. CASE poll_compaction(n)
  <2>1. /\ base' = [base EXCEPT ![n] = Local(compaction[n])]
        /\ previous' = [previous EXCEPT ![n] = base[n]] /\ FreshHost(n)
        /\ UNCHANGED <<log, applied, poisoned, sealed, sent, inventory, images, faults>>
    BY <1>9 DEF poll_compaction, Publish
  <2>2. base' \in [Node -> Image] /\ previous' \in [Node -> Image]
    BY <1>b, <1>f, <2>1
  <2> QED
    BY <1>a, <1>b, <1>d, <2>1, <2>2
<1>10. CASE snapshot_transfer_install(n)
  <2>1. /\ transfer[n] > applied[n]
        /\ images' = [images EXCEPT ![n] = @ \cup {Incoming(transfer[n])}]
        /\ base' = [base EXCEPT ![n] = Incoming(transfer[n])]
        /\ previous' = [previous EXCEPT ![n] = base[n]] /\ FreshHost(n)
        /\ UNCHANGED <<log, poisoned, sent, inventory, faults>>
    BY <1>10 DEF snapshot_transfer_install, Publish
  <2>2. PICK k \in transfer[n]..Len(log) :
          /\ applied' = [applied EXCEPT ![n] = k]
          /\ sealed' = [sealed EXCEPT ![n] = Replayed(transfer[n], k)]
    BY <1>10 DEF snapshot_transfer_install
  <2>3. k \in 0..Len(log) /\ transfer[n] \in 0..Len(log) /\ transfer[n] # 0
    BY <1>b, <2>1
  <2>4. Replayed(transfer[n], k) \in 0..Len(log)
    BY <1>g, <2>3
  <2>5. applied' \in [Node -> 0..Len(log)] /\ sealed' \in [Node -> 0..Len(log)]
    BY <1>b, <2>2, <2>3, <2>4
  <2>6. base' \in [Node -> Image] /\ previous' \in [Node -> Image]
    BY <1>b, <1>f, <2>1, <2>3
  <2>7. Incoming(transfer[n]) \in inventory[n]
    BY <2>3 DEF JobInv
  <2>8. images' \in [Node -> SUBSET Image] /\ \A i \in Node : images'[i] \subseteq inventory'[i]
    BY <1>b, <2>1, <2>7
  <2> QED
    BY <1>a, <1>b, <1>d, <2>1, <2>5, <2>6, <2>8
<1>11. CASE snapshot_transfer_cancel(n)
  <2>1. transfer' \in [Node -> 0..Len(log)]
    BY <1>11, <1>b DEF snapshot_transfer_cancel
  <2> QED
    BY <1>11, <1>a, <1>b, <2>1 DEF snapshot_transfer_cancel
<1>12. ASSUME NEW m \in Node, receive_snapshot_offer(n, m) PROVE TypeOK'
  <2>1. /\ transfer' = [transfer EXCEPT ![n] = base[m].prefix]
        /\ inventory' = [inventory EXCEPT ![n] = @ \cup {Incoming(base[m].prefix)}]
        /\ UNCHANGED <<log, applied, poisoned, worker, pending, seal_slot, compaction,
                   sealed, sent, images, base, previous, faults>>
    BY <1>12 DEF receive_snapshot_offer
  <2>2. base[m].prefix \in 0..Len(log)
    <3>1. base[m].prefix \in Nat /\ base[m].prefix <= sealed[m] /\ sealed[m] \in 0..Len(log)
      BY <1>b DEF SealInv, KnownSeal, Image
    <3> QED
      BY <3>1
  <2>3. transfer' \in [Node -> 0..Len(log)]
    BY <1>b, <2>1, <2>2
  <2>4. /\ inventory' \in [Node -> SUBSET Image]
        /\ \A k \in Node : inventory[k] \subseteq inventory'[k]
    BY <1>b, <1>f, <2>1, <2>2
  <2>5. images' \in [Node -> SUBSET Image] /\ \A k \in Node : images'[k] \subseteq inventory'[k]
    BY <1>b, <2>1, <2>4
  <2> QED
    BY <1>a, <1>b, <2>1, <2>3, <2>4, <2>5
<1>13. ASSUME NEW i \in inventory[n], retire_snapshot_image(n, i) PROVE TypeOK'
  <2>1. /\ images' = [images EXCEPT ![n] = @ \ {i}]
        /\ inventory' = [inventory EXCEPT ![n] = @ \ {i}]
        /\ UNCHANGED <<log, applied, poisoned, volatile, sealed, sent, base, previous, faults>>
    BY <1>13 DEF retire_snapshot_image
  <2>2. /\ inventory' \in [Node -> SUBSET Image] /\ images' \in [Node -> SUBSET Image]
        /\ \A k \in Node : images'[k] \subseteq inventory'[k]
    BY <1>b, <2>1
  <2> QED
    BY <1>a, <1>b, <2>1, <2>2
<1>14. ASSUME NEW i \in inventory[n], retire_interrupted(n, i) PROVE TypeOK'
  <2>1. /\ images' = [images EXCEPT ![n] = @ \ {i}] /\ FreshHost(n)
        /\ sealed' = [sealed EXCEPT ![n] = Replayed(base[n].prefix, applied[n])]
        /\ faults' \in 0..MaxFaults
        /\ UNCHANGED <<log, applied, poisoned, sent, inventory, base, previous>>
    BY <1>14 DEF retire_interrupted
  <2>2. /\ images' \in [Node -> SUBSET Image]
        /\ \A k \in Node : images'[k] \subseteq inventory'[k]
    BY <1>b, <2>1
  <2>3. sealed' \in [Node -> 0..Len(log)]
    BY <1>b, <1>g, <1>h, <2>1
  <2> QED
    BY <1>a, <1>b, <1>d, <2>1, <2>2, <2>3
<1>15. CASE UNCHANGED vars
  BY <1>15, <1>a, <1>b DEF vars
<1> QED
  BY <1>1, <1>3, <1>4, <1>5, <1>6, <1>7, <1>8, <1>9, <1>10, <1>11, <1>12, <1>13,
     <1>14, <1>15 DEF VoterStep

-----------------------------------------------------------------------------
\* The types of what a voter keeps.
LEMMA Types ==
  ASSUME SnapshotInv
  PROVE  /\ log \in Seq(Entry) /\ Len(log) \in Nat /\ applied \in [Node -> 0..Len(log)]
         /\ poisoned \in [Node -> BOOLEAN]
         /\ worker \in [Node -> [prefix : 0..Len(log), phase : Phases]]
         /\ pending \in [Node -> 0..Len(log)] /\ seal_slot \in [Node -> 0..Len(log)]
         /\ sealed \in [Node -> 0..Len(log)] /\ sent \subseteq [voter : Node, prefix : 1..Len(log)]
         /\ inventory \in [Node -> SUBSET Image] /\ images \in [Node -> SUBSET Image]
         /\ \A k \in Node : images[k] \subseteq inventory[k]
         /\ base \in [Node -> Image] /\ previous \in [Node -> Image]
         /\ compaction \in [Node -> 0..Len(log)] /\ transfer \in [Node -> 0..Len(log)]
<1>1. TypeOK
  BY DEF SnapshotInv
<1>2. log \in Seq(Entry)
  BY <1>1 DEF TypeOK, Entry
<1> QED
  BY <1>1, <1>2 DEF TypeOK, Slots

\* The types of a seal.
LEMMA SealTypes ==
  ASSUME SnapshotInv, NEW s \in Seals(log)
  PROVE  /\ s \in 1..Len(log) /\ log[s].prefix \in Nat /\ log[s].prefix < s
         /\ log[s].voters \subseteq Node
<1>1. s \in 1..Len(log) /\ log[s].prefix < s
  BY DEF Seals, SnapshotInv, LogInv
<1>2. log[s] \in Entry
  BY <1>1, Types
<1> QED
  BY <1>1, <1>2 DEF Entry

\* Chosen seals stay.
LEMMA LogGrows ==
  ASSUME SnapshotInv, NEW e \in Entry, Appended(e)
  PROVE  /\ \A s \in Seals(log) : s \in Seals(log') /\ log'[s] = log[s]
         /\ \A s \in Seals(log') : \/ s \in Seals(log)
                                   \/ s = Len(log) + 1 /\ log'[s] = e /\ e.kind = "seal"
<1>1. Len(log) \in Nat /\ Len(log') = Len(log) + 1
  BY Types DEF Appended
<1>2. ASSUME NEW s \in Seals(log) PROVE s \in Seals(log') /\ log'[s] = log[s]
  <2>1. s \in 1..Len(log) /\ log[s].kind = "seal" /\ log'[s] = log[s]
    BY DEF Seals, Appended
  <2>2. s \in 1..Len(log')
    BY <1>1, <2>1
  <2> QED
    BY <2>1, <2>2 DEF Seals
<1>3. ASSUME NEW s \in Seals(log')
      PROVE  s \in Seals(log) \/ (s = Len(log) + 1 /\ log'[s] = e /\ e.kind = "seal")
  <2>1. s \in 1..Len(log') /\ log'[s].kind = "seal"
    BY DEF Seals
  <2>2. CASE s \in 1..Len(log)
    <3>1. log'[s] = log[s]
      BY <2>2 DEF Appended
    <3> QED
      BY <2>1, <2>2, <3>1 DEF Seals
  <2>3. CASE s = Len(log) + 1
    BY <2>1, <2>3 DEF Appended
  <2> QED
    BY <1>1, <2>1, <2>2, <2>3
<1> QED
  BY <1>2, <1>3

\* What a step of n leaves alone: the other voters, and what is chosen or sent.
Others(n) ==
    \A k \in Node \ {n} :
        /\ applied'[k] = applied[k] /\ worker'[k] = worker[k] /\ sealed'[k] = sealed[k]
        /\ compaction'[k] = compaction[k] /\ transfer'[k] = transfer[k]
        /\ inventory'[k] = inventory[k] /\ images'[k] = images[k]
        /\ base'[k] = base[k] /\ previous'[k] = previous[k]

LogKept ==
    /\ \A s \in Seals(log) : s \in Seals(log') /\ log'[s] = log[s]
    /\ \A s \in Seals(log') : s \in Seals(log) \/ s = Len(log) + 1
    /\ sent \subseteq sent'

\* A new host of n leaves the other hosts alone.
LEMMA FreshHostLocal ==
  ASSUME SnapshotInv, NEW n \in Node, FreshHost(n)
  PROVE  /\ worker'[n] = NoWorker /\ compaction'[n] = 0 /\ transfer'[n] = 0
         /\ \A k \in Node \ {n} : /\ worker'[k] = worker[k] /\ compaction'[k] = compaction[k]
                                  /\ transfer'[k] = transfer[k]
BY Types DEF FreshHost

\* Nothing chosen or sent is lost, nobody's log goes back, and a step changes
\* one voter.
LEMMA Kept ==
  ASSUME SnapshotInv, NEW n \in Node, VoterStep(n)
  PROVE  LogKept /\ Others(n) /\ applied[n] <= applied'[n]
<1> USE DEF volatile, durable
<1>t. applied[n] \in Nat
  BY Types
<1>0. ASSUME log' = log, sent \subseteq sent' PROVE LogKept
  BY <1>0 DEF LogKept
<1>1. CASE begin_snapshot(n) \/ snapshot_progress(n)
  <2>1. PICK e \in Entry : Appended(e)
    BY <1>1, Proposals DEF ProposalStep
  <2>2. UNCHANGED <<applied, poisoned, worker, compaction, transfer, sealed, sent, durable>>
    BY <1>1, Proposals DEF ProposalStep
  <2> QED
    BY <1>t, <2>1, <2>2, LogGrows DEF Others, LogKept
<1>2. CASE apply_host_entries(n)
  <2>1. LogKept
    BY <1>0, <1>2 DEF apply_host_entries
  <2>2. applied'[n] = applied[n] + 1 /\ \A k \in Node \ {n} : applied'[k] = applied[k]
    BY <1>2, Types DEF apply_host_entries
  <2>3. /\ UNCHANGED <<compaction, transfer, images, base, previous>>
        /\ \/ snapshot_pin(n, applied[n] + 1) /\ UNCHANGED sealed
           \/ snapshot_observe_seal(n, log[applied[n] + 1].prefix) /\ UNCHANGED inventory
           \/ UNCHANGED <<worker, seal_slot, inventory, sealed>>
    BY <1>2 DEF apply_host_entries
  <2>4. \A k \in Node \ {n} : /\ worker'[k] = worker[k] /\ sealed'[k] = sealed[k]
                              /\ inventory'[k] = inventory[k]
    BY <2>3, Types DEF snapshot_pin, snapshot_observe_seal
  <2> QED
    BY <1>t, <2>1, <2>2, <2>3, <2>4 DEF Others
<1>3. CASE snapshot_worker(n)
  BY <1>3, <1>0, <1>t, Types DEF snapshot_worker, Others
<1>4. CASE snapshot_worker_error(n)
  BY <1>4, <1>0, <1>t, Types DEF snapshot_worker_error, Others
<1>5. CASE snapshot_poison(n)
  BY <1>5, <1>0, <1>t DEF snapshot_poison, Others
<1>6. CASE open(n)
  <2>1. FreshHost(n) /\ UNCHANGED <<log, sent, durable>>
    BY <1>6 DEF open
  <2>2. PICK k \in applied[n]..Len(log) :
          /\ applied' = [applied EXCEPT ![n] = k]
          /\ sealed' = [sealed EXCEPT ![n] = Replayed(base[n].prefix, k)]
    BY <1>6 DEF open
  <2>3. applied'[n] = k /\ applied[n] <= k
    BY <1>t, <2>2, Types
  <2>4. \A j \in Node \ {n} : applied'[j] = applied[j] /\ sealed'[j] = sealed[j]
    BY <2>2, Types
  <2> QED
    BY <1>0, <2>1, <2>3, <2>4, FreshHostLocal DEF Others
<1>7. CASE begin_compaction(n)
  BY <1>7, <1>0, <1>t, Types DEF begin_compaction, Others
<1>8. CASE poll_compaction(n)
  <2>1. FreshHost(n) /\ UNCHANGED <<log, applied, sealed, sent, inventory, images>>
    BY <1>8 DEF poll_compaction, Publish
  <2>2. \A j \in Node \ {n} : base'[j] = base[j] /\ previous'[j] = previous[j]
    BY <1>8, Types DEF poll_compaction, Publish
  <2> QED
    BY <1>0, <1>t, <2>1, <2>2, FreshHostLocal DEF Others
<1>9. CASE snapshot_transfer_install(n)
  <2>1. FreshHost(n) /\ UNCHANGED <<log, sent, inventory>> /\ transfer[n] > applied[n]
    BY <1>9 DEF snapshot_transfer_install, Publish
  <2>2. PICK k \in transfer[n]..Len(log) :
          /\ applied' = [applied EXCEPT ![n] = k]
          /\ sealed' = [sealed EXCEPT ![n] = Replayed(transfer[n], k)]
    BY <1>9 DEF snapshot_transfer_install
  <2>3. applied'[n] = k /\ applied[n] <= k
    BY <1>t, <2>1, <2>2, Types
  <2>4. \A j \in Node \ {n} : applied'[j] = applied[j] /\ sealed'[j] = sealed[j]
    BY <2>2, Types
  <2>5. \A j \in Node \ {n} : /\ base'[j] = base[j] /\ previous'[j] = previous[j]
                              /\ images'[j] = images[j]
    BY <1>9, Types DEF snapshot_transfer_install, Publish
  <2> QED
    BY <1>0, <2>1, <2>3, <2>4, <2>5, FreshHostLocal DEF Others
<1>10. CASE snapshot_transfer_cancel(n)
  BY <1>10, <1>0, <1>t, Types DEF snapshot_transfer_cancel, Others
<1>11. ASSUME NEW m \in Node, receive_snapshot_offer(n, m)
       PROVE  LogKept /\ Others(n) /\ applied[n] <= applied'[n]
  BY <1>11, <1>0, <1>t, Types DEF receive_snapshot_offer, Others
<1>12. ASSUME NEW i \in inventory[n], retire_snapshot_image(n, i)
       PROVE  LogKept /\ Others(n) /\ applied[n] <= applied'[n]
  BY <1>12, <1>0, <1>t, Types DEF retire_snapshot_image, Others
<1>13. ASSUME NEW i \in inventory[n], retire_interrupted(n, i)
       PROVE  LogKept /\ Others(n) /\ applied[n] <= applied'[n]
  <2>1. FreshHost(n) /\ UNCHANGED <<log, applied, sent, inventory, base, previous>>
    BY <1>13 DEF retire_interrupted
  <2>2. \A j \in Node \ {n} : sealed'[j] = sealed[j] /\ images'[j] = images[j]
    BY <1>13, Types DEF retire_interrupted
  <2> QED
    BY <1>0, <1>t, <2>1, <2>2, FreshHostLocal DEF Others
<1>14. CASE UNCHANGED vars
  BY <1>14, <1>0, <1>t DEF vars, Others
<1> QED
  BY <1>1, <1>2, <1>3, <1>4, <1>5, <1>6, <1>7, <1>8, <1>9, <1>10, <1>11, <1>12, <1>13,
     <1>14 DEF VoterStep

-----------------------------------------------------------------------------
\* A seal is above its prefix, certified, and counts sent receipts.
LEMMA LogStep ==
  ASSUME SnapshotInv, NEW n \in Node, VoterStep(n)
  PROVE  LogInv'
<1>1. LogInv /\ sent \subseteq sent' /\ Len(log) \in Nat
      /\ \A s \in Seals(log) : s \in Seals(log') /\ log'[s] = log[s]
  BY Kept, Types DEF SnapshotInv, LogKept
<1> DEFINE Good(s) == /\ log'[s].prefix < s
                      /\ 2 * Cardinality(log'[s].voters) > Cardinality(Node)
                      /\ \A v \in log'[s].voters : [voter |-> v, prefix |-> log'[s].prefix] \in sent'
<1>2. \A s \in Seals(log) : Good(s)
  BY <1>1 DEF LogInv
<1>3. CASE begin_snapshot(n) \/ snapshot_progress(n)
  <2>1. PICK e \in Entry : Appended(e) /\ (e.kind = "seal" => Certified(e))
    BY <1>3, Proposals DEF ProposalStep
  <2>2. ASSUME NEW s \in Seals(log'), s = Len(log) + 1 /\ log'[s] = e /\ e.kind = "seal"
        PROVE  Good(s)
    BY <1>1, <2>1, <2>2 DEF Certified
  <2>3. \A s \in Seals(log') : Good(s)
    BY <1>2, <2>1, <2>2, LogGrows
  <2> QED
    BY <2>3 DEF LogInv
<1>4. CASE log' = log
  BY <1>2, <1>4 DEF LogInv
<1> QED
  BY <1>3, <1>4 DEF VoterStep, apply_host_entries, snapshot_worker, snapshot_worker_error,
     snapshot_poison, open, begin_compaction, poll_compaction, snapshot_transfer_install,
     snapshot_transfer_cancel, receive_snapshot_offer, retire_snapshot_image,
     retire_interrupted, vars

\* What a step of n does to its images: they go one at a time, and only when
\* image_retirement_candidate names them.
ImagesStep(n) ==
    \/ images[n] \subseteq images'[n]
    \/ /\ \E i \in inventory[n] : Retirable(n, i) /\ images'[n] = images[n] \ {i}
       /\ UNCHANGED <<base, previous, compaction>> /\ ~snapshot_busy(n)
    \/ /\ \E i \in inventory[n] : Retirable(n, i) /\ images'[n] = images[n] \ {i}
       /\ UNCHANGED <<base, previous>> /\ compaction'[n] = 0

\* Images are only retired by the two retirement steps.
LEMMA ImagesKept ==
  ASSUME SnapshotInv, NEW n \in Node, VoterStep(n)
  PROVE  ImagesStep(n)
<1> USE DEF volatile, durable
<1>1. CASE begin_snapshot(n) \/ snapshot_progress(n)
  BY <1>1, Proposals DEF ProposalStep, ImagesStep
<1>2. CASE UNCHANGED images
  BY <1>2 DEF ImagesStep
<1>3. CASE snapshot_worker(n)
  BY <1>3, Types DEF snapshot_worker, ImagesStep
<1>4. CASE snapshot_transfer_install(n)
  BY <1>4, Types DEF snapshot_transfer_install, ImagesStep
<1>5. ASSUME NEW i \in inventory[n], retire_snapshot_image(n, i) PROVE ImagesStep(n)
  <2>1. images'[n] = images[n] \ {i}
    BY <1>5, Types DEF retire_snapshot_image
  <2> QED
    BY <1>5, <2>1 DEF retire_snapshot_image, ImagesStep
<1>6. ASSUME NEW i \in inventory[n], retire_interrupted(n, i) PROVE ImagesStep(n)
  <2>1. images'[n] = images[n] \ {i}
    BY <1>6, Types DEF retire_interrupted
  <2>2. compaction'[n] = 0
    BY <1>6, FreshHostLocal DEF retire_interrupted
  <2> QED
    BY <1>6, <2>1, <2>2 DEF retire_interrupted, ImagesStep
<1> QED
  BY <1>1, <1>2, <1>3, <1>4, <1>5, <1>6 DEF VoterStep, apply_host_entries,
     snapshot_worker_error, snapshot_poison, open, begin_compaction, poll_compaction,
     snapshot_transfer_cancel, receive_snapshot_offer, vars

\* The newest seal that a voter knows is chosen, unless it knows none.
LEMMA KnownIsChosen ==
  ASSUME SnapshotInv, NEW n \in Node, sealed[n] # 0
  PROVE  \E s \in Seals(log) : log[s].prefix = sealed[n]
<1>1. KnownSeal(log, base[n].prefix, applied[n], sealed[n])
  BY DEF SnapshotInv, SealInv
<1>2. CASE sealed[n] = base[n].prefix
  <2>1. base[n] # NoImage
    BY <1>2 DEF NoImage
  <2>2. \E s \in ChosenSeals : log[s].prefix = base[n].prefix
    BY <2>1 DEF SnapshotInv, GenerationsBacked
  <2> QED
    BY <1>2, <2>2 DEF ChosenSeals, Seals, Slots
<1> QED
  BY <1>1, <1>2 DEF KnownSeal

\* The image of a receipt outlives it until a newer seal is chosen.
LEMMA SentStep ==
  ASSUME SnapshotInv, NEW n \in Node, VoterStep(n)
  PROVE  SentInv'
<1>1. LogKept /\ Others(n) /\ SentInv
  BY Kept DEF SnapshotInv
<1> DEFINE Good(r) == \/ Local(r.prefix) \in images'[r.voter]
                      \/ \E s \in Seals(log') : log'[s].prefix > r.prefix
<1>2. ASSUME NEW r \in sent PROVE Good(r)
  <2>0. r.voter \in Node /\ r.prefix \in 1..Len(log)
    BY Types
  <2>1. CASE \E s \in Seals(log) : log[s].prefix > r.prefix
    BY <1>1, <2>1 DEF LogKept
  <2>2. CASE Local(r.prefix) \in images[r.voter]
    <3>1. CASE r.voter # n
      BY <1>1, <2>0, <2>2, <3>1 DEF Others
    <3>2. CASE r.voter = n /\ Local(r.prefix) \in images'[n]
      BY <3>2
    <3>3. CASE r.voter = n /\ Local(r.prefix) \notin images'[n]
      <4>1. PICK i \in inventory[n] : Retirable(n, i) /\ images'[n] = images[n] \ {i}
        BY <2>2, <3>3, ImagesKept DEF ImagesStep
      <4>2. i = Local(r.prefix)
        BY <2>2, <3>3, <4>1
      <4>3. ~i.received /\ i.prefix = r.prefix
        BY <4>2 DEF Local
      <4>4. r.prefix < sealed[n] /\ sealed[n] \in Nat
        BY <4>1, <4>3, Types DEF Retirable
      <4>5. sealed[n] # 0
        BY <2>0, <4>4
      <4>6. PICK s \in Seals(log) : log[s].prefix = sealed[n]
        BY <4>5, KnownIsChosen
      <4>7. log'[s].prefix > r.prefix /\ s \in Seals(log')
        BY <1>1, <2>0, <4>4, <4>6 DEF LogKept
      <4> QED
        BY <4>7
    <3> QED
      BY <3>1, <3>2, <3>3
  <2> QED
    BY <1>1, <2>1, <2>2 DEF SentInv
<1>3. CASE snapshot_worker(n)
  <2>1. /\ sent' = sent \cup {[voter |-> n, prefix |-> worker[n].prefix]}
        /\ Local(worker[n].prefix) \in images'[n]
    BY <1>3, Types DEF snapshot_worker
  <2>2. Good([voter |-> n, prefix |-> worker[n].prefix])
    BY <2>1
  <2>3. \A r \in sent' : Good(r)
    BY <1>2, <2>1, <2>2
  <2> QED
    BY <2>3 DEF SentInv
<1>4. CASE UNCHANGED sent
  BY <1>2, <1>4 DEF SentInv
<1>5. CASE begin_snapshot(n) \/ snapshot_progress(n)
  BY <1>4, <1>5, Proposals DEF ProposalStep
<1> QED
  BY <1>3, <1>4, <1>5 DEF VoterStep, apply_host_entries, snapshot_worker_error,
     snapshot_poison, open, begin_compaction, poll_compaction, snapshot_transfer_install,
     snapshot_transfer_cancel, receive_snapshot_offer, retire_snapshot_image,
     retire_interrupted, vars

\* A voter that applies a record: captures, observes a seal, or passes on.
LEMMA ApplyEffect ==
  ASSUME SnapshotInv, NEW n \in Node, apply_host_entries(n)
  PROVE  /\ applied'[n] = applied[n] + 1 /\ applied[n] + 1 \in 1..Len(log)
         /\ log[applied[n] + 1] \in Entry
         /\ UNCHANGED <<log, sent, images, base, previous, compaction, transfer>>
         /\ \/ /\ log[applied[n] + 1].kind # "seal" /\ UNCHANGED sealed
               /\ worker'[n] = worker[n] /\ inventory'[n] = inventory[n]
            \/ /\ log[applied[n] + 1].kind # "seal" /\ UNCHANGED sealed
               /\ worker'[n] = Capture(n, applied[n] + 1)
               /\ inventory'[n] = inventory[n] \cup {Local(applied[n] + 1)}
            \/ /\ log[applied[n] + 1].kind = "seal"
               /\ sealed'[n] = Larger(sealed[n], log[applied[n] + 1].prefix)
               /\ worker'[n] = worker[n] \/ worker'[n] = NoWorker
               /\ inventory'[n] = inventory[n]
<1>1. /\ applied'[n] = applied[n] + 1 /\ applied[n] + 1 \in 1..Len(log)
      /\ UNCHANGED <<log, sent, images, base, previous, compaction, transfer>>
  BY Types DEF apply_host_entries
<1>2. log[applied[n] + 1] \in Entry
  BY <1>1, Types
<1> DEFINE entry == log[applied[n] + 1]
<1>3. CASE entry.kind = "barrier" /\ snapshot_pin(n, applied[n] + 1) /\ UNCHANGED sealed
  BY <1>1, <1>2, <1>3, Types DEF snapshot_pin
<1>4. CASE entry.kind = "seal" /\ snapshot_observe_seal(n, entry.prefix) /\ UNCHANGED inventory
  BY <1>1, <1>2, <1>4, Types DEF snapshot_observe_seal
<1>5. CASE entry.kind = "skip" /\ UNCHANGED <<worker, seal_slot, inventory, sealed>>
  BY <1>1, <1>2, <1>5
<1> QED
  BY <1>3, <1>4, <1>5 DEF apply_host_entries

\* Captures keep what their phase promises.
LEMMA WorkerStep ==
  ASSUME SnapshotInv, NEW n \in Node, VoterStep(n)
  PROVE  WorkerInv'
<1> USE DEF volatile, durable
<1> DEFINE Good == /\ worker'[n].phase # "none" => worker'[n].prefix # 0
                   /\ worker'[n].phase = "running" => Local(worker'[n].prefix) \in inventory'[n]
                   /\ worker'[n].phase = "done" => [voter |-> n, prefix |-> worker'[n].prefix] \in sent'
<1>1. WorkerInv /\ sent \subseteq sent' /\ Others(n)
  BY Kept DEF SnapshotInv, LogKept
<1>2. SUFFICES Good
  <2>1. ASSUME NEW k \in Node \ {n}
        PROVE  /\ worker'[k].phase # "none" => worker'[k].prefix # 0
               /\ worker'[k].phase = "running" => Local(worker'[k].prefix) \in inventory'[k]
               /\ worker'[k].phase = "done" => [voter |-> k, prefix |-> worker'[k].prefix] \in sent'
    BY <1>1 DEF Others, WorkerInv
  <2> QED
    BY <1>2, <2>1 DEF WorkerInv
<1>3. /\ worker[n].phase # "none" => worker[n].prefix # 0
      /\ worker[n].phase = "running" => Local(worker[n].prefix) \in inventory[n]
      /\ worker[n].phase = "done" => [voter |-> n, prefix |-> worker[n].prefix] \in sent
  BY <1>1 DEF WorkerInv
<1>4. ASSUME worker'[n] = worker[n], inventory[n] \subseteq inventory'[n] PROVE Good
  BY <1>1, <1>3, <1>4
<1>5. ASSUME worker'[n] = NoWorker PROVE Good
  BY <1>5 DEF NoWorker
<1>6. ASSUME FreshHost(n) PROVE Good
  BY <1>5, <1>6, FreshHostLocal
<1>7. CASE begin_snapshot(n) \/ snapshot_progress(n)
  BY <1>4, <1>7, Proposals DEF ProposalStep
<1>8. CASE apply_host_entries(n)
  <2>1. CASE worker'[n] = Capture(n, applied[n] + 1)
             /\ inventory'[n] = inventory[n] \cup {Local(applied[n] + 1)}
    <3>1. applied[n] + 1 # 0
      BY <1>8, ApplyEffect, Types
    <3> QED
      BY <2>1, <3>1 DEF Capture
  <2> QED
    BY <1>4, <1>5, <1>8, <2>1, ApplyEffect
<1>9. CASE snapshot_worker(n)
  <2>1. /\ worker[n].phase = "running"
        /\ worker' = [worker EXCEPT ![n] =
                     IF @.prefix <= sealed[n] THEN NoWorker ELSE [@ EXCEPT !.phase = "done"]]
        /\ sent' = sent \cup {[voter |-> n, prefix |-> worker[n].prefix]}
    BY <1>9 DEF snapshot_worker, snapshot_worker_running
  <2>2. worker[n] \in [prefix : 0..Len(log), phase : Phases]
    BY Types
  <2>3. CASE worker'[n] = [worker[n] EXCEPT !.phase = "done"]
    BY <1>3, <2>1, <2>2, <2>3
  <2> QED
    BY <1>5, <2>1, <2>3, Types
<1>10. CASE snapshot_worker_error(n)
  <2>1. worker[n].phase = "running" /\ worker'[n] = [worker[n] EXCEPT !.phase = "failed"]
    BY <1>10, Types DEF snapshot_worker_error, snapshot_worker_running
  <2>2. worker[n] \in [prefix : 0..Len(log), phase : Phases]
    BY Types
  <2> QED
    BY <1>3, <2>1, <2>2
<1>11. CASE snapshot_poison(n)
  BY <1>4, <1>11 DEF snapshot_poison
<1>12. CASE open(n) \/ poll_compaction(n) \/ snapshot_transfer_install(n)
  BY <1>6, <1>12 DEF open, poll_compaction, snapshot_transfer_install, Publish
<1>13. CASE begin_compaction(n) \/ snapshot_transfer_cancel(n)
  BY <1>4, <1>13 DEF begin_compaction, snapshot_transfer_cancel
<1>14. ASSUME NEW m \in Node, receive_snapshot_offer(n, m) PROVE Good
  BY <1>4, <1>14, Types DEF receive_snapshot_offer
<1>15. ASSUME NEW i \in inventory[n], retire_snapshot_image(n, i) PROVE Good
  <2>1. worker[n].phase # "running" /\ UNCHANGED <<worker, sent>>
    BY <1>15 DEF retire_snapshot_image, snapshot_worker_running
  <2> QED
    BY <1>3, <2>1
<1>16. ASSUME NEW i \in inventory[n], retire_interrupted(n, i) PROVE Good
  BY <1>6, <1>16 DEF retire_interrupted
<1>17. CASE UNCHANGED vars
  BY <1>4, <1>17 DEF vars
<1> QED
  BY <1>7, <1>8, <1>9, <1>10, <1>11, <1>12, <1>13, <1>14, <1>15, <1>16, <1>17 DEF VoterStep

\* A job keeps its image, and the seal that permits it.
LEMMA JobStep ==
  ASSUME SnapshotInv, NEW n \in Node, VoterStep(n)
  PROVE  JobInv'
<1> USE DEF volatile, durable
<1>0. /\ JobInv /\ LogKept /\ Others(n) /\ applied[n] <= applied'[n]
      /\ applied[n] \in Nat /\ applied'[n] \in Nat
  <2>1. applied'[n] \in Nat
    BY TypeStep DEF TypeOK
  <2> QED
    BY <2>1, Kept, Types DEF SnapshotInv
<1>a. ASSUME NEW p, NEW a \in Nat, NEW c \in Nat, a <= c,
             \E s \in Seals(log) : s <= a /\ log[s].prefix = p
      PROVE  \E s \in Seals(log') : s <= c /\ log'[s].prefix = p
  <2>1. PICK s \in Seals(log) : s <= a /\ log[s].prefix = p
    BY <1>a
  <2>2. s \in Seals(log') /\ log'[s].prefix = p /\ s \in Nat
    BY <1>0, <2>1, SealTypes DEF LogKept
  <2>3. s <= c
    BY <1>a, <2>1, <2>2
  <2> QED
    BY <2>2, <2>3
<1>b. ASSUME NEW p, SealedIn(log, p) PROVE SealedIn(log', p)
  BY <1>0, <1>b DEF LogKept, SealedIn
<1> DEFINE Building(k) == /\ Local(compaction'[k]) \in images'[k]
                          /\ base'[k].prefix < compaction'[k]
                          /\ \E s \in Seals(log') : /\ s <= applied'[k]
                                                    /\ log'[s].prefix = compaction'[k]
           Receiving(k) == Incoming(transfer'[k]) \in inventory'[k] /\ SealedIn(log', transfer'[k])
<1>c. ASSUME NEW k \in Node, compaction'[k] = compaction[k], compaction[k] # 0,
             images[k] \subseteq images'[k], base'[k] = base[k]
      PROVE  Building(k)
  <2>1. /\ Local(compaction[k]) \in images[k] /\ base[k].prefix < compaction[k]
        /\ \E s \in Seals(log) : s <= applied[k] /\ log[s].prefix = compaction[k]
    BY <1>0, <1>c DEF JobInv
  <2>2. applied[k] \in Nat /\ applied'[k] \in Nat /\ applied[k] <= applied'[k]
    <3>1. applied[k] \in Nat
      BY Types
    <3> QED
      BY <1>0, <3>1 DEF Others
  <2>3. \E s \in Seals(log') : s <= applied'[k] /\ log'[s].prefix = compaction[k]
    BY <1>a, <2>1, <2>2
  <2> QED
    BY <1>c, <2>1, <2>3
<1>d. ASSUME NEW k \in Node, transfer'[k] = transfer[k], transfer[k] # 0,
             inventory[k] \subseteq inventory'[k]
      PROVE  Receiving(k)
  BY <1>0, <1>b, <1>d DEF JobInv
<1>e. SUFFICES (compaction'[n] # 0 => Building(n)) /\ (transfer'[n] # 0 => Receiving(n))
  <2>1. ASSUME NEW k \in Node \ {n}
        PROVE  (compaction'[k] # 0 => Building(k)) /\ (transfer'[k] # 0 => Receiving(k))
    <3>1. /\ compaction'[k] = compaction[k] /\ images'[k] = images[k] /\ base'[k] = base[k]
          /\ transfer'[k] = transfer[k] /\ inventory'[k] = inventory[k]
      BY <1>0 DEF Others
    <3> HIDE DEF Building, Receiving
    <3> QED
      BY <1>c, <1>d, <3>1
  <2>2. \A k \in Node : (compaction'[k] # 0 => Building(k)) /\ (transfer'[k] # 0 => Receiving(k))
    <3> HIDE DEF Building, Receiving
    <3> QED
      BY <1>e, <2>1
  <2> QED
    BY <2>2 DEF JobInv
<1> HIDE DEF Building, Receiving
<1>f. ASSUME UNCHANGED <<compaction, transfer>>, images[n] \subseteq images'[n],
             inventory[n] \subseteq inventory'[n], base'[n] = base[n]
      PROVE  (compaction'[n] # 0 => Building(n)) /\ (transfer'[n] # 0 => Receiving(n))
  BY <1>c, <1>d, <1>f
<1>g. ASSUME FreshHost(n)
      PROVE  (compaction'[n] # 0 => Building(n)) /\ (transfer'[n] # 0 => Receiving(n))
  BY <1>g, FreshHostLocal
<1>1. CASE begin_snapshot(n) \/ snapshot_progress(n)
  BY <1>f, <1>1, Proposals DEF ProposalStep
<1>2. CASE apply_host_entries(n)
  <2>1. /\ UNCHANGED <<compaction, transfer, images, base>>
        /\ inventory[n] \subseteq inventory'[n]
    BY <1>2, ApplyEffect
  <2> QED
    BY <1>f, <2>1
<1>3. CASE snapshot_worker(n)
  BY <1>f, <1>3, Types DEF snapshot_worker
<1>4. CASE snapshot_worker_error(n) \/ snapshot_poison(n)
  BY <1>f, <1>4 DEF snapshot_worker_error, snapshot_poison
<1>5. CASE open(n) \/ poll_compaction(n) \/ snapshot_transfer_install(n)
  BY <1>g, <1>5 DEF open, poll_compaction, snapshot_transfer_install, Publish
<1>6. CASE begin_compaction(n)
  <2>1. /\ sealed[n] > base[n].prefix /\ Local(sealed[n]) \in images[n]
        /\ compaction'[n] = sealed[n]
        /\ UNCHANGED <<log, applied, transfer, inventory, images, base>>
    BY <1>6, Types DEF begin_compaction
  <2>2. sealed[n] \in Nat /\ base[n].prefix \in Nat
    BY Types DEF Image
  <2>3. \E s \in Seals(log) : s <= applied[n] /\ log[s].prefix = sealed[n]
    BY <2>1, <2>2 DEF SnapshotInv, SealInv, KnownSeal
  <2>4. Building(n)
    BY <2>1, <2>2, <2>3 DEF Building
  <2>5. transfer'[n] # 0 => Receiving(n)
    BY <1>d, <2>1
  <2> QED
    BY <2>4, <2>5
<1>7. CASE snapshot_transfer_cancel(n)
  <2>1. transfer'[n] = 0 /\ UNCHANGED <<compaction, images, base>>
    BY <1>7, Types DEF snapshot_transfer_cancel
  <2> QED
    BY <1>c, <2>1
<1>8. ASSUME NEW m \in Node, receive_snapshot_offer(n, m)
      PROVE  (compaction'[n] # 0 => Building(n)) /\ (transfer'[n] # 0 => Receiving(n))
  <2>1. /\ transfer'[n] = base[m].prefix /\ Incoming(base[m].prefix) \in inventory'[n]
        /\ base[m].prefix > applied[n] /\ UNCHANGED <<log, compaction, images, base>>
    BY <1>8, Types DEF receive_snapshot_offer
  <2>2. base[m] # NoImage
    BY <1>0, <2>1 DEF NoImage
  <2>3. \E s \in ChosenSeals : log[s].prefix = base[m].prefix
    BY <2>2 DEF SnapshotInv, GenerationsBacked
  <2>4. SealedIn(log, base[m].prefix)
    BY <2>3 DEF SealedIn, Seals, ChosenSeals, Slots
  <2>5. Receiving(n)
    BY <2>1, <2>4 DEF Receiving
  <2> QED
    BY <1>c, <2>1, <2>5
<1>9. ASSUME NEW i \in inventory[n], retire_snapshot_image(n, i)
      PROVE  (compaction'[n] # 0 => Building(n)) /\ (transfer'[n] # 0 => Receiving(n))
  BY <1>9 DEF retire_snapshot_image, snapshot_busy
<1>10. ASSUME NEW i \in inventory[n], retire_interrupted(n, i)
      PROVE  (compaction'[n] # 0 => Building(n)) /\ (transfer'[n] # 0 => Receiving(n))
  BY <1>g, <1>10 DEF retire_interrupted
<1>11. CASE UNCHANGED vars
  BY <1>f, <1>11 DEF vars
<1> QED
  BY <1>1, <1>2, <1>3, <1>4, <1>5, <1>6, <1>7, <1>8, <1>9, <1>10, <1>11 DEF VoterStep

\* A seal that is appended is not yet applied, so nobody need know it.
LEMMA KnownKept ==
  ASSUME SnapshotInv, LogKept, NEW k \in Node
  PROVE  KnownSeal(log', base[k].prefix, applied[k], sealed[k])
<1>1. KnownSeal(log, base[k].prefix, applied[k], sealed[k])
  BY DEF SnapshotInv, SealInv
<1>2. applied[k] \in 0..Len(log) /\ Len(log) \in Nat
  BY Types
<1>3. \A s \in Seals(log') : s <= applied[k] => s \in Seals(log) /\ log'[s] = log[s]
  BY <1>2 DEF LogKept
<1>4. \A s \in Seals(log) : s \in Seals(log') /\ log'[s] = log[s]
  BY DEF LogKept
<1> QED
  BY <1>1, <1>3, <1>4 DEF KnownSeal

\* A base is never above the newest seal that its voter knows.
LEMMA BaseBounded ==
  ASSUME SnapshotInv, NEW n \in Node
  PROVE  base[n].prefix \in 0..Len(log)
<1>1. base[n].prefix \in Nat /\ base[n].prefix <= sealed[n] /\ sealed[n] \in 0..Len(log)
  BY Types DEF SnapshotInv, SealInv, KnownSeal, Image
<1> QED
  BY <1>1, Types

\* A host knows the newest seal it has applied, however it got there.
LEMMA SealStep ==
  ASSUME SnapshotInv, NEW n \in Node, VoterStep(n)
  PROVE  SealInv'
<1> USE DEF volatile, durable
<1>0. LogKept /\ Others(n) /\ TypeOK /\ LogInv
  BY Kept DEF SnapshotInv
<1> DEFINE Known(k) == KnownSeal(log', base'[k].prefix, applied'[k], sealed'[k])
<1>1. \A k \in Node \ {n} : Known(k)
  <2>1. ASSUME NEW k \in Node \ {n} PROVE Known(k)
    <3>1. base'[k] = base[k] /\ applied'[k] = applied[k] /\ sealed'[k] = sealed[k]
      BY <1>0 DEF Others
    <3>2. KnownSeal(log', base[k].prefix, applied[k], sealed[k])
      BY <1>0, KnownKept
    <3> QED
      BY <3>1, <3>2
  <2> QED
    BY <2>1
<1>2. SUFFICES Known(n)
  BY <1>1, <1>2 DEF SealInv
<1>3. ASSUME base'[n] = base[n], applied'[n] = applied[n], sealed'[n] = sealed[n] PROVE Known(n)
  BY <1>0, <1>3, KnownKept
<1>4. CASE begin_snapshot(n) \/ snapshot_progress(n)
  BY <1>3, <1>4, Proposals DEF ProposalStep
<1>5. CASE apply_host_entries(n)
  <2> DEFINE a == applied[n]
             b == base[n].prefix
             p == log[applied[n] + 1].prefix
  <2>1. /\ applied'[n] = a + 1 /\ a + 1 \in 1..Len(log) /\ log[a + 1] \in Entry
        /\ UNCHANGED <<log, base>> /\ a \in Nat
    BY <1>5, ApplyEffect, Types
  <2>2. KnownSeal(log, b, a, sealed[n]) /\ sealed[n] \in Nat /\ b \in Nat
    BY Types DEF SnapshotInv, SealInv, Image
  <2>3. \A s \in Seals(log) : s \in Nat /\ log[s].prefix \in Nat
    BY SealTypes
  <2>4. CASE log[a + 1].kind # "seal" /\ sealed'[n] = sealed[n]
    <3>1. a + 1 \notin Seals(log)
      BY <2>4 DEF Seals
    <3>2. \A s \in Seals(log) : s <= a + 1 => s <= a
      BY <2>1, <2>3, <3>1
    <3>3. \A s \in Seals(log) : s <= a => s <= a + 1
      BY <2>1, <2>3
    <3>4. KnownSeal(log, b, a + 1, sealed[n])
      BY <2>2, <3>2, <3>3 DEF KnownSeal
    <3> QED
      BY <2>1, <2>4, <3>4
  <2>5. CASE log[a + 1].kind = "seal" /\ sealed'[n] = Larger(sealed[n], p)
    <3>1. a + 1 \in Seals(log) /\ p \in Nat
      BY <2>1, <2>5 DEF Seals, Entry
    <3>2. \A s \in Seals(log) : s <= a + 1 => s <= a \/ s = a + 1
      BY <2>1, <2>3
    <3>3. \A s \in Seals(log) : s <= a => s <= a + 1
      BY <2>1, <2>3
    <3> DEFINE new == Larger(sealed[n], p)
    <3>4. new \in Nat /\ sealed[n] <= new /\ p <= new /\ (new = sealed[n] \/ new = p)
      BY <2>2, <3>1 DEF Larger
    <3> HIDE DEF new
    <3>5. b <= new /\ \A s \in Seals(log) : s <= a => log[s].prefix <= new
      <4>1. b <= new
        BY <2>2, <3>4 DEF KnownSeal
      <4>2. ASSUME NEW s \in Seals(log), s <= a PROVE log[s].prefix <= new
        <5>1. log[s].prefix <= sealed[n] /\ log[s].prefix \in Nat
          BY <2>2, <2>3, <4>2 DEF KnownSeal
        <5> QED
          BY <2>2, <3>4, <5>1
      <4> QED
        BY <4>1, <4>2
    <3>6. \A s \in Seals(log) : s <= a + 1 => log[s].prefix <= new
      BY <3>2, <3>4, <3>5
    <3>7. new = b \/ \E s \in Seals(log) : s <= a + 1 /\ log[s].prefix = new
      <4>1. CASE new = p
        BY <2>1, <3>1, <4>1
      <4>2. CASE new = sealed[n]
        BY <2>2, <3>3, <4>2 DEF KnownSeal
      <4> QED
        BY <3>4, <4>1, <4>2
    <3>8. KnownSeal(log, b, a + 1, new)
      BY <3>5, <3>6, <3>7 DEF KnownSeal
    <3> QED
      BY <2>1, <2>5, <3>8 DEF new
  <2> QED
    BY <1>5, <2>4, <2>5, ApplyEffect
<1>6. CASE open(n)
  <2>1. PICK k \in applied[n]..Len(log) :
          /\ applied' = [applied EXCEPT ![n] = k]
          /\ sealed' = [sealed EXCEPT ![n] = Replayed(base[n].prefix, k)]
    BY <1>6 DEF open
  <2>2. applied'[n] = k /\ sealed'[n] = Replayed(base[n].prefix, k) /\ UNCHANGED <<log, base>>
    BY <1>6, <2>1, Types DEF open
  <2>3. k \in 0..Len(log)
    BY Types
  <2>4. KnownSeal(log, base[n].prefix, k, Replayed(base[n].prefix, k))
    BY <1>0, <2>3, BaseBounded, ReplayedProperty
  <2> QED
    BY <2>2, <2>4
<1>7. CASE poll_compaction(n)
  <2>1. /\ compaction[n] # 0 /\ base'[n] = Local(compaction[n])
        /\ UNCHANGED <<log, applied, sealed>>
    BY <1>7, Types DEF poll_compaction, Publish
  <2>2. base'[n].prefix = compaction[n]
    BY <2>1 DEF Local
  <2>3. PICK s \in Seals(log) : s <= applied[n] /\ log[s].prefix = compaction[n]
    BY <2>1 DEF SnapshotInv, JobInv
  <2>4. base[n].prefix < compaction[n]
    BY <2>1 DEF SnapshotInv, JobInv
  <2>5. KnownSeal(log, base[n].prefix, applied[n], sealed[n])
    BY DEF SnapshotInv, SealInv
  <2>6. compaction[n] <= sealed[n]
    BY <2>3, <2>5 DEF KnownSeal
  <2>7. sealed[n] # base[n].prefix
    <3>1. compaction[n] \in Nat /\ base[n].prefix \in Nat /\ sealed[n] \in Nat
      BY Types DEF Image
    <3> QED
      BY <2>4, <2>6, <3>1
  <2>8. KnownSeal(log, compaction[n], applied[n], sealed[n])
    BY <2>5, <2>6, <2>7 DEF KnownSeal
  <2> QED
    BY <2>1, <2>2, <2>8
<1>8. CASE snapshot_transfer_install(n)
  <2>1. PICK k \in transfer[n]..Len(log) :
          /\ applied' = [applied EXCEPT ![n] = k]
          /\ sealed' = [sealed EXCEPT ![n] = Replayed(transfer[n], k)]
    BY <1>8 DEF snapshot_transfer_install
  <2>2. /\ applied'[n] = k /\ sealed'[n] = Replayed(transfer[n], k) /\ UNCHANGED log
        /\ base'[n] = Incoming(transfer[n])
    BY <1>8, <2>1, Types DEF snapshot_transfer_install, Publish
  <2>3. k \in 0..Len(log) /\ transfer[n] \in 0..Len(log)
    BY Types
  <2>4. KnownSeal(log, transfer[n], k, Replayed(transfer[n], k))
    BY <1>0, <2>3, ReplayedProperty
  <2>5. base'[n].prefix = transfer[n]
    BY <2>2 DEF Incoming
  <2> QED
    BY <2>2, <2>4, <2>5
<1>9. ASSUME NEW i \in inventory[n], retire_interrupted(n, i) PROVE Known(n)
  <2>1. /\ sealed'[n] = Replayed(base[n].prefix, applied[n]) /\ UNCHANGED <<log, applied, base>>
    BY <1>9, Types DEF retire_interrupted
  <2>2. applied[n] \in 0..Len(log)
    BY Types
  <2>3. KnownSeal(log, base[n].prefix, applied[n], Replayed(base[n].prefix, applied[n]))
    BY <1>0, <2>2, BaseBounded, ReplayedProperty
  <2> QED
    BY <2>1, <2>3
<1>10. ASSUME NEW m \in Node, receive_snapshot_offer(n, m) PROVE Known(n)
  BY <1>3, <1>10 DEF receive_snapshot_offer
<1>11. ASSUME NEW i \in inventory[n], retire_snapshot_image(n, i) PROVE Known(n)
  BY <1>3, <1>11 DEF retire_snapshot_image
<1>12. CASE \/ snapshot_worker(n) \/ snapshot_worker_error(n) \/ snapshot_poison(n)
            \/ begin_compaction(n) \/ snapshot_transfer_cancel(n) \/ UNCHANGED vars
  BY <1>3, <1>12 DEF snapshot_worker, snapshot_worker_error, snapshot_poison,
     begin_compaction, snapshot_transfer_cancel, vars
<1> QED
  BY <1>4, <1>5, <1>6, <1>7, <1>8, <1>9, <1>10, <1>11, <1>12 DEF VoterStep

\* Local images are captures of barriers that were applied.
LEMMA InventoryStep ==
  ASSUME SnapshotInv, NEW n \in Node, VoterStep(n)
  PROVE  InventoryInv'
<1> USE DEF volatile, durable
<1>0. Others(n) /\ applied[n] <= applied'[n] /\ InventoryInv
  BY Kept DEF SnapshotInv
<1>t. applied[n] \in Nat /\ applied'[n] \in Nat
  BY Types, TypeStep DEF TypeOK
<1>1. \A i \in inventory[n] : ~i.received => i.prefix \in Nat /\ i.prefix <= applied'[n]
  <2>1. \A i \in inventory[n] : i.prefix \in Nat
    BY Types DEF Image
  <2> QED
    BY <1>0, <1>t, <2>1 DEF InventoryInv
<1>2. SUFFICES \A i \in inventory'[n] : ~i.received => i.prefix <= applied'[n]
  BY <1>0, <1>2 DEF InventoryInv, Others
<1>3. CASE inventory'[n] \subseteq inventory[n]
  BY <1>1, <1>3
<1>4. CASE begin_snapshot(n) \/ snapshot_progress(n)
  BY <1>3, <1>4, Proposals DEF ProposalStep
<1>5. CASE apply_host_entries(n)
  <2>1. CASE inventory'[n] = inventory[n] \cup {Local(applied[n] + 1)}
    <3>1. applied'[n] = applied[n] + 1
      BY <1>5, ApplyEffect
    <3> QED
      BY <1>1, <1>t, <2>1, <3>1 DEF Local
  <2> QED
    BY <1>3, <1>5, <2>1, ApplyEffect
<1>6. ASSUME NEW m \in Node, receive_snapshot_offer(n, m)
      PROVE  \A i \in inventory'[n] : ~i.received => i.prefix <= applied'[n]
  <2>1. inventory'[n] = inventory[n] \cup {Incoming(base[m].prefix)}
    BY <1>6, Types DEF receive_snapshot_offer
  <2> QED
    BY <1>1, <2>1 DEF Incoming
<1>7. ASSUME NEW i \in inventory[n], retire_snapshot_image(n, i)
      PROVE  inventory'[n] \subseteq inventory[n]
  BY <1>7, Types DEF retire_snapshot_image
<1> QED
  BY <1>3, <1>4, <1>5, <1>6, <1>7 DEF VoterStep, snapshot_worker, snapshot_worker_error,
     snapshot_poison, open, begin_compaction, poll_compaction, snapshot_transfer_install,
     snapshot_transfer_cancel, retire_interrupted, Publish, vars

\* A generation is published on a sealed image, which retirement spares.
LEMMA GenerationsStep ==
  ASSUME SnapshotInv, NEW n \in Node, VoterStep(n)
  PROVE  GenerationsBacked'
<1> USE DEF volatile, durable
<1> DEFINE Backed(k, i) == i \in images'[k] /\ SealedIn(log', i.prefix)
<1>0. LogKept /\ Others(n) /\ GenerationsBacked
  BY Kept DEF SnapshotInv
<1>1. \A k \in Node : \A i \in {base[k], previous[k]} \ {NoImage} :
         i \in images[k] /\ SealedIn(log', i.prefix)
  BY <1>0 DEF GenerationsBacked, ChosenSeals, Slots, Seals, LogKept, SealedIn
<1>2. SUFFICES \A k \in Node : \A i \in {base'[k], previous'[k]} \ {NoImage} : Backed(k, i)
  BY <1>2 DEF GenerationsBacked, ChosenSeals, Slots, Seals, SealedIn
<1>3. SUFFICES \A i \in {base'[n], previous'[n]} \ {NoImage} : Backed(n, i)
  BY <1>0, <1>1, <1>3 DEF Others
<1>4. ASSUME UNCHANGED <<base, previous>>
      PROVE  \A i \in {base'[n], previous'[n]} \ {NoImage} : Backed(n, i)
  <2>1. ASSUME NEW i \in {base[n], previous[n]} \ {NoImage} PROVE i \in images'[n]
    BY <1>1, <2>1, ImagesKept DEF ImagesStep, Retirable
  <2> QED
    BY <1>1, <1>4, <2>1
<1>5. CASE poll_compaction(n)
  <2>1. /\ base'[n] = Local(compaction[n]) /\ previous'[n] = base[n] /\ compaction[n] # 0
        /\ UNCHANGED <<log, images>>
    BY <1>5, Types DEF poll_compaction, Publish
  <2>2. Local(compaction[n]) \in images[n] /\ SealedIn(log, compaction[n])
    BY <2>1 DEF SnapshotInv, JobInv, SealedIn
  <2>3. Local(compaction[n]).prefix = compaction[n]
    BY DEF Local
  <2>4. Backed(n, Local(compaction[n]))
    BY <2>1, <2>2, <2>3
  <2> QED
    BY <1>1, <2>1, <2>4
<1>6. CASE snapshot_transfer_install(n)
  <2>1. /\ base'[n] = Incoming(transfer[n]) /\ previous'[n] = base[n] /\ UNCHANGED log
        /\ images'[n] = images[n] \cup {Incoming(transfer[n])} /\ transfer[n] > applied[n]
    BY <1>6, Types DEF snapshot_transfer_install, Publish
  <2>2. transfer[n] # 0
    BY <2>1, Types
  <2>3. SealedIn(log, transfer[n]) /\ Incoming(transfer[n]).prefix = transfer[n]
    BY <2>2 DEF SnapshotInv, JobInv, Incoming
  <2>4. Backed(n, Incoming(transfer[n]))
    BY <2>1, <2>3
  <2> QED
    BY <1>1, <2>1, <2>4
<1>7. CASE begin_snapshot(n) \/ snapshot_progress(n)
  BY <1>4, <1>7, Proposals DEF ProposalStep
<1> QED
  BY <1>4, <1>5, <1>6, <1>7 DEF VoterStep, apply_host_entries, snapshot_worker,
     snapshot_worker_error, snapshot_poison, open, begin_compaction,
     snapshot_transfer_cancel, receive_snapshot_offer, retire_snapshot_image,
     retire_interrupted, vars

-----------------------------------------------------------------------------
\* An empty store: no record, no image, no seal.
LEMMA InitHolds ==
  ASSUME Init
  PROVE  SnapshotInv
<1>1. log = <<>> /\ Len(log) = 0 /\ sent = {} /\ Seals(log) = {}
  BY DEF Init, Seals
<1>2. TypeOK
  <2>1. /\ log \in Seq([kind : {"barrier", "seal", "skip"}, prefix : Nat, voters : SUBSET Node])
        /\ sent \subseteq [voter : Node, prefix : Slots] /\ faults \in 0..MaxFaults
    BY <1>1, SnapshotAssumption DEF Init
  <2>2. /\ applied \in [Node -> 0..Len(log)] /\ sealed \in [Node -> 0..Len(log)]
        /\ pending \in [Node -> 0..Len(log)] /\ seal_slot \in [Node -> 0..Len(log)]
        /\ compaction \in [Node -> 0..Len(log)] /\ transfer \in [Node -> 0..Len(log)]
    BY <1>1 DEF Init
  <2>3. worker \in [Node -> [prefix : 0..Len(log), phase : Phases]]
    BY <1>1 DEF Init, NoWorker, Phases
  <2>4. poisoned \in [Node -> BOOLEAN]
    BY DEF Init
  <2>5. /\ inventory \in [Node -> SUBSET Image] /\ images \in [Node -> SUBSET Image]
        /\ \A n \in Node : images[n] \subseteq inventory[n]
        /\ base \in [Node -> Image] /\ previous \in [Node -> Image]
    BY DEF Init, NoImage, Image
  <2> QED
    BY <2>1, <2>2, <2>3, <2>4, <2>5 DEF TypeOK
<1>3. LogInv /\ SentInv
  BY <1>1 DEF LogInv, SentInv
<1>4. WorkerInv /\ JobInv /\ InventoryInv /\ GenerationsBacked
  BY DEF Init, WorkerInv, JobInv, InventoryInv, GenerationsBacked, NoWorker
<1>5. SealInv
  <2>1. ASSUME NEW n \in Node
        PROVE  base[n].prefix = 0 /\ applied[n] = 0 /\ sealed[n] = 0
    BY DEF Init, NoImage
  <2> QED
    BY <1>1, <2>1 DEF SealInv, KnownSeal
<1> QED
  BY <1>2, <1>3, <1>4, <1>5 DEF SnapshotInv

\* The inductive invariant holds of every run: every capture, receipt, seal,
\* generation, transfer and retirement, with restarts and failures anywhere.
THEOREM SnapshotTheorem == Spec => []SnapshotInv
<1>1. Init => SnapshotInv
  BY InitHolds
<1>2. SnapshotInv /\ [Next]_vars => SnapshotInv'
  <2> SUFFICES ASSUME SnapshotInv, [Next]_vars PROVE SnapshotInv'
    OBVIOUS
  <2>1. PICK n \in Node : VoterStep(n)
    BY SnapshotAssumption, Zenon DEF Next, VoterStep
  <2> QED
    BY <2>1, TypeStep, LogStep, SentStep, WorkerStep, JobStep, SealStep, InventoryStep,
       GenerationsStep DEF SnapshotInv
<1> QED
  BY <1>1, <1>2, PTL DEF Spec

\* Whatever was retired, restarted or replaced since, the newest seal has the
\* receipts of a majority and their images.
THEOREM NewestSealBackedTheorem == Spec => []NewestSealBacked
<1>1. SnapshotInv => NewestSealBacked
  <2> SUFFICES ASSUME SnapshotInv PROVE NewestSealBacked
    OBVIOUS
  <2>1. ChosenSeals = Seals(log)
    BY DEF ChosenSeals, Slots, Seals
  <2>2. ASSUME NEW s \in Seals(log) PROVE 2 * Cardinality(log[s].voters) > Cardinality(Node)
    BY DEF SnapshotInv, LogInv
  <2>3. ASSUME NEW s \in Seals(log), \A t \in Seals(log) : log[t].prefix <= log[s].prefix,
               NEW v \in log[s].voters
        PROVE  Local(log[s].prefix) \in images[v]
    <3>1. [voter |-> v, prefix |-> log[s].prefix] \in sent
      BY DEF SnapshotInv, LogInv
    <3>2. \/ Local(log[s].prefix) \in images[v]
          \/ \E t \in Seals(log) : log[t].prefix > log[s].prefix
      BY <3>1 DEF SnapshotInv, SentInv
    <3>3. \A t \in Seals(log) : ~(log[t].prefix > log[s].prefix)
      BY <2>3, SealTypes
    <3> QED
      BY <3>2, <3>3
  <2> QED
    BY <2>1, <2>2, <2>3 DEF NewestSealBacked, SnapshotInv
<1> QED
  BY <1>1, SnapshotTheorem, PTL

\* A voter's store is always based on a sealed image that is still there, and
\* so is the store it came from.
THEOREM GenerationsBackedTheorem == Spec => []GenerationsBacked
<1>1. SnapshotInv => GenerationsBacked
  BY DEF SnapshotInv
<1> QED
  BY <1>1, SnapshotTheorem, PTL

\* A host that got somewhere by its log, a restart, a compaction or a transfer
\* knows the same seal as one that replayed everything.
THEOREM SealKnownTheorem == Spec => []SealKnown
<1>1. SnapshotInv => SealKnown
  <2> SUFFICES ASSUME SnapshotInv, NEW n \in Node
               PROVE  sealed[n] = Larger(base[n].prefix, Replayed(0, applied[n]))
    BY DEF SealKnown
  <2> DEFINE b == base[n].prefix
             r == Replayed(0, applied[n])
  <2>1. KnownSeal(log, b, applied[n], sealed[n])
    BY DEF SnapshotInv, SealInv
  <2>2. applied[n] \in 0..Len(log) /\ 0 \in 0..Len(log) /\ sealed[n] \in Nat
    BY Types
  <2>3. r \in 0..Len(log) /\ KnownSeal(log, 0, applied[n], r)
    BY <2>2, ReplayedProperty DEF SnapshotInv
  <2>4. b \in Nat /\ r \in Nat
    BY <2>3, BaseBounded
  <2> HIDE DEF b, r
  <2>5. r <= sealed[n] /\ b <= sealed[n]
    BY <2>1, <2>2, <2>3, <2>4 DEF KnownSeal
  <2>6. sealed[n] = b \/ sealed[n] <= r
    BY <2>1, <2>3 DEF KnownSeal
  <2>7. sealed[n] = Larger(b, r)
    BY <2>2, <2>4, <2>5, <2>6 DEF Larger
  <2> QED
    BY <2>7 DEF b, r
<1> QED
  BY <1>1, SnapshotTheorem, PTL

\* No image that a voter has yet to capture exists already.
THEOREM CapturesAreNewTheorem == Spec => []CapturesAreNew
<1>1. SnapshotInv => CapturesAreNew
  <2> SUFFICES ASSUME SnapshotInv, NEW n \in Node, Local(applied[n] + 1) \in inventory[n]
               PROVE  FALSE
    BY DEF CapturesAreNew
  <2>1. Local(applied[n] + 1).prefix = applied[n] + 1 /\ ~Local(applied[n] + 1).received
    BY DEF Local
  <2>2. applied[n] + 1 <= applied[n]
    BY <2>1 DEF SnapshotInv, InventoryInv
  <2> QED
    BY <2>2, Types
<1> QED
  BY <1>1, SnapshotTheorem, PTL
=============================================================================
