-------------------------- MODULE DurableHostProofs --------------------------
(***************************************************************************)
(* Proofs about DurableHost, for every window, capacity and bound, in both *)
(* storage formats.                                                        *)
(***************************************************************************)
EXTENDS DurableHost, FiniteSetTheorems, TLAPS

\* The journal against the memory of a running host: nothing journaled is
\* unknown, and a host that is not poisoned knows how far its journal reaches.
JournalInMemory ==
    pc # "down" =>
        /\ journal_seq <= sequence
        /\ journal_chosen \subseteq known
        /\ ~poisoned => durable_sequence = journal_seq

\* Once the barrier is crossed, and during recovery, memory is the journal.
BarrierCrossed ==
    pc \in {"recover", "apply", "publish"} =>
        sequence = journal_seq /\ known = journal_chosen

\* poison returns at once: a poisoned host is never inside an operation.
PoisonedIsIdle == poisoned => pc = "idle"

\* Staged work rests on staged records, released work on journaled ones.
StagedWork ==
    /\ \A i \in 1..Len(packets) : packets[i] <= sequence
    /\ entries \subseteq known
    /\ pc \in {"down", "recover"} => packets = <<>> /\ entries = {}

ReleasedWork == \A i \in 1..Len(queue) : queue[i] <= journal_seq

\* The inductive invariant of the durability argument.
DurabilityInv ==
    /\ TypeOK
    /\ JournalInMemory /\ BarrierCrossed /\ PoisonedIsIdle /\ StagedWork /\ ReleasedWork
    /\ SentIsDurable /\ ApplicationBehindJournal /\ AcknowledgedSurvives

-----------------------------------------------------------------------------
\* What stage_transition copies into the group: the packets rest on records up
\* to the sequence it reached, the entries on decisions the node now knows.
LEMMA StagePreserves ==
    ASSUME DurabilityInv, stage_transition
    PROVE  /\ sequence' \in 0..MaxSeq /\ sequence' >= sequence
           /\ known' \subseteq Slots /\ known \subseteq known'
           /\ emitted' \in 0..MaxSlot
           /\ packets' \in Seq(0..MaxSeq)
           /\ \A i \in 1..Len(packets') : packets'[i] <= sequence'
           /\ entries' \subseteq known' /\ requests' \in Nat
           /\ open' = open /\ required_sequence' = required_sequence
<1> USE HostAssumption, CapacityAssumption
    DEF DurabilityInv, TypeOK, StagedWork, Slots
<1>1. PICK learned \in SUBSET {s \in Slots \ known : s > applied /\ s <= applied + WINDOW},
           e \in emitted..MaxSlot,
           records \in 0..TRANSITION_RECORDS,
           messages \in 0..TRANSITION_MESSAGES,
           served \in 0..MAX_MEMBERS :
        /\ sequence + records <= MaxSeq
        /\ 1..e \subseteq known \cup learned
        /\ known' = known \cup learned
        /\ emitted' = e
        /\ sequence' = sequence + records
        /\ packets' = packets \o [i \in 1..messages |-> sequence + records]
        /\ entries' = entries \cup (emitted + 1)..e
        /\ requests' = requests + served
        /\ UNCHANGED <<open, required_sequence>>
  BY DEF stage_transition
<1>3. sequence' \in 0..MaxSeq /\ sequence' >= sequence
  BY <1>1
<1>4. [i \in 1..messages |-> sequence'] \in Seq(0..MaxSeq)
  BY <1>3
<1>5. packets' = packets \o [i \in 1..messages |-> sequence']
  BY <1>1
<1>6. packets' \in Seq(0..MaxSeq) /\ \A i \in 1..Len(packets') : packets'[i] <= sequence'
  BY <1>3, <1>4, <1>5
<1>7. entries' \subseteq known'
  BY <1>1
<1> QED
  BY <1>1, <1>3, <1>6, <1>7

\* What append_packet does to a queue whose packets all rest on a bound.
LEMMA AppendKeepsBound ==
  ASSUME NEW top \in Nat, NEW bound \in Nat, NEW q \in Seq(0..top), NEW p \in 0..top,
         p <= bound, \A i \in 1..Len(q) : q[i] <= bound
  PROVE  /\ Append(q, p) \in Seq(0..top)
         /\ \A i \in 1..Len(Append(q, p)) : Append(q, p)[i] <= bound
<1>1. Len(Append(q, p)) = Len(q) + 1 /\ Len(q) \in Nat
  OBVIOUS
<1>2. \A i \in 1..Len(q) + 1 : Append(q, p)[i] = IF i <= Len(q) THEN q[i] ELSE p
  OBVIOUS
<1> QED
  BY <1>1, <1>2

\* Taking the first packet off a sequence keeps the bound of the others.
LEMMA TailKeepsBound ==
  ASSUME NEW top \in Nat, NEW bound \in Nat, NEW q \in Seq(0..top), q # <<>>,
         \A i \in 1..Len(q) : q[i] <= bound
  PROVE  /\ Head(q) \in 0..top /\ Head(q) <= bound
         /\ Tail(q) \in Seq(0..top)
         /\ \A i \in 1..Len(Tail(q)) : Tail(q)[i] <= bound
<1>1. Len(q) \in Nat \ {0} /\ Len(Tail(q)) = Len(q) - 1 /\ Head(q) = q[1]
  OBVIOUS
<1>2. \A i \in 1..Len(q) - 1 : Tail(q)[i] = q[i + 1]
  OBVIOUS
<1> QED
  BY <1>1, <1>2

\* The empty store satisfies the invariant.
LEMMA DurabilityInit == Init => DurabilityInv
<1> SUFFICES ASSUME Init PROVE DurabilityInv
  OBVIOUS
<1>1. poisoned \in BOOLEAN /\ fast \in BOOLEAN /\ open \in BOOLEAN /\ ~poisoned
  BY Zenon DEF Init
<1> QED
  BY <1>1, HostAssumption
   DEF Init, DurabilityInv, TypeOK, JournalInMemory, BarrierCrossed, PoisonedIsIdle,
       StagedWork, ReleasedWork, SentIsDurable, ApplicationBehindJournal,
       AcknowledgedSurvives, Slots

\* No step of a call, of group_close, of the environment or of recovery breaks it.
LEMMA DurabilityStep == DurabilityInv /\ [Next]_vars => DurabilityInv'
<1> SUFFICES ASSUME DurabilityInv, [Next]_vars PROVE DurabilityInv'
  OBVIOUS
<1> USE HostAssumption, CapacityAssumption
    DEF DurabilityInv, TypeOK, JournalInMemory, BarrierCrossed, PoisonedIsIdle,
        StagedWork, ReleasedWork, SentIsDurable, ApplicationBehindJournal,
        AcknowledgedSurvives, Slots, journal, app, node, group, call, env
<1>1. CASE TurnBegin
  BY <1>1 DEF TurnBegin, Idle, Ready
<1>2. CASE Admit
  BY <1>2 DEF Admit, Idle, Ready
<1>3. CASE TurnCommit
  BY <1>3 DEF TurnCommit, Idle, Ready
<1>4. CASE NextIdCloses
  BY <1>4 DEF NextIdCloses, Idle, Ready
<1>5. CASE transition_begin
  BY <1>5 DEF transition_begin, Ready
<1>6. CASE transition_full
  BY <1>6 DEF transition_full, Ready
<1>7. CASE Transition
  <2>1. stage_transition /\ poisoned' \in BOOLEAN /\ fast' \in BOOLEAN
    BY <1>7, Zenon DEF Transition
  <2>2. open' \in BOOLEAN /\ required_sequence' \in 0..MaxSeq
    BY <2>1, StagePreserves
  <2>3. /\ sequence' \in 0..MaxSeq /\ sequence' >= sequence
        /\ known' \subseteq Slots /\ known \subseteq known'
        /\ emitted' \in 0..MaxSlot
        /\ packets' \in Seq(0..MaxSeq)
        /\ \A i \in 1..Len(packets') : packets'[i] <= sequence'
        /\ entries' \subseteq known' /\ requests' \in Nat
    BY <2>1, StagePreserves
  <2> QED
    BY <1>7, <2>1, <2>2, <2>3 DEF Transition, Ready
<1>8. CASE FastCommit
  <2>1. CASE group_has_room
    <3>1. stage_transition /\ poisoned' \in BOOLEAN /\ fast' \in BOOLEAN
      BY <1>8, <2>1, Zenon DEF FastCommit
    <3>2. open' \in BOOLEAN /\ required_sequence' \in 0..MaxSeq
      BY <3>1, StagePreserves
    <3>3. /\ sequence' \in 0..MaxSeq /\ sequence' >= sequence
          /\ known' \subseteq Slots /\ known \subseteq known'
          /\ emitted' \in 0..MaxSlot
          /\ packets' \in Seq(0..MaxSeq)
          /\ \A i \in 1..Len(packets') : packets'[i] <= sequence'
          /\ entries' \subseteq known' /\ requests' \in Nat
      BY <3>1, StagePreserves
    <3> QED
      BY <1>8, <2>1, <3>1, <3>2, <3>3 DEF FastCommit, Ready
  <2>2. CASE ~group_has_room
    BY <1>8, <2>2 DEF FastCommit, Ready
  <2> QED
    BY <2>1, <2>2
<1>9. CASE CallEnd
  BY <1>9 DEF CallEnd, Ready
<1>10. CASE JournalCommit
  <2>0. poisoned' \in BOOLEAN /\ fast' \in BOOLEAN /\ open' \in BOOLEAN
        /\ separated' \in BOOLEAN
    BY <1>10, Zenon DEF JournalCommit
  <2>1. PICK through \in applied..MaxSlot :
          /\ (applied + 1)..through \subseteq entries
          /\ applied' = through /\ (app_disk' = app_disk \/ app_disk' = through)
    BY <1>10 DEF JournalCommit, SkipPrefix
  <2>2. TypeOK'
    BY <1>10, <2>0, <2>1 DEF JournalCommit
  <2>3. (JournalInMemory /\ BarrierCrossed /\ PoisonedIsIdle)'
    BY <1>10 DEF JournalCommit
  <2>4. (StagedWork /\ ReleasedWork)'
    BY <1>10 DEF JournalCommit
  <2>5. (SentIsDurable /\ ApplicationBehindJournal /\ AcknowledgedSurvives)'
    BY <1>10, <2>1 DEF JournalCommit
  <2> QED
    BY <2>2, <2>3, <2>4, <2>5
<1>11. CASE ApplyEntries
  BY <1>11 DEF ApplyEntries
<1>12. CASE ApplyDone
  BY <1>12 DEF ApplyDone
<1>13. CASE Publish
  <2>1. /\ packets \in Seq(0..MaxSeq) /\ packets # <<>>
        /\ sequence \in Nat /\ sequence = journal_seq /\ MaxSeq \in Nat
        /\ \A i \in 1..Len(packets) : packets[i] <= sequence
        /\ packets' = Tail(packets) /\ queue' = Append(queue, Head(packets))
    BY <1>13 DEF Publish, append_packet
  <2>2. /\ Head(packets) \in 0..MaxSeq /\ Head(packets) <= sequence
        /\ packets' \in Seq(0..MaxSeq)
        /\ \A i \in 1..Len(packets') : packets'[i] <= sequence
    BY <2>1, TailKeepsBound
  <2>3. /\ queue' \in Seq(0..MaxSeq)
        /\ \A i \in 1..Len(queue') : queue'[i] <= journal_seq
    BY <2>1, <2>2, AppendKeepsBound
  <2>4. UNCHANGED <<journal, app, pc, poisoned, call, node, durable_sequence, open,
                    required_sequence, entries, requests, env>>
    BY <1>13 DEF Publish
  <2>5. TypeOK'
    BY <2>2, <2>3, <2>4
  <2>6. (JournalInMemory /\ BarrierCrossed /\ PoisonedIsIdle)'
    BY <2>4
  <2>7. (StagedWork /\ ReleasedWork)'
    BY <1>13, <2>2, <2>3, <2>4 DEF Publish
  <2>8. (SentIsDurable /\ ApplicationBehindJournal /\ AcknowledgedSurvives)'
    BY <2>4
  <2> QED
    BY <2>5, <2>6, <2>7, <2>8
<1>14. CASE Serve
  <2>1. /\ sequence = journal_seq /\ durable_sequence \in 0..MaxSeq
        /\ durable_sequence <= journal_seq
        /\ journal_seq \in Nat /\ MaxSeq \in Nat /\ requests' \in Nat
        /\ queue' = Append(queue, durable_sequence) \/ queue' = queue
    BY <1>14 DEF Serve, append_packet
  <2>2. /\ queue' \in Seq(0..MaxSeq)
        /\ \A i \in 1..Len(queue') : queue'[i] <= journal_seq
    <3>1. queue \in Seq(0..MaxSeq) /\ \A i \in 1..Len(queue) : queue[i] <= journal_seq
      OBVIOUS
    <3>2. /\ Append(queue, durable_sequence) \in Seq(0..MaxSeq)
          /\ \A i \in 1..Len(Append(queue, durable_sequence)) :
               Append(queue, durable_sequence)[i] <= journal_seq
      BY <2>1, <3>1, AppendKeepsBound
    <3> QED
      BY <2>1, <3>1, <3>2
  <2>3. UNCHANGED <<journal, app, pc, poisoned, call, node, durable_sequence, open,
                    required_sequence, packets, entries, env>>
    BY <1>14 DEF Serve
  <2>4. TypeOK'
    BY <2>1, <2>2, <2>3
  <2>5. (JournalInMemory /\ BarrierCrossed /\ PoisonedIsIdle)'
    BY <2>3
  <2>6. (StagedWork /\ ReleasedWork)'
    BY <2>2, <2>3
  <2>7. (SentIsDurable /\ ApplicationBehindJournal /\ AcknowledgedSurvives)'
    BY <2>3
  <2> QED
    BY <2>4, <2>5, <2>6, <2>7
<1>15. CASE CloseDone
  <2>0. poisoned' \in BOOLEAN /\ fast' \in BOOLEAN /\ open' \in BOOLEAN
    BY <1>15, Zenon DEF CloseDone, EmptyGroup
  <2>1. TypeOK'
    BY <1>15, <2>0 DEF CloseDone, EmptyGroup
  <2>2. (JournalInMemory /\ BarrierCrossed /\ PoisonedIsIdle)'
    BY <1>15 DEF CloseDone, EmptyGroup
  <2>3. (StagedWork /\ ReleasedWork)'
    BY <1>15 DEF CloseDone, EmptyGroup
  <2>4. (SentIsDurable /\ ApplicationBehindJournal /\ AcknowledgedSurvives)'
    BY <1>15 DEF CloseDone, EmptyGroup
  <2> QED
    BY <2>1, <2>2, <2>3, <2>4
<1>16. CASE Pop
  BY <1>16 DEF Pop, Idle, Ready
<1>17. ASSUME NEW s \in Slots, Acknowledge(s) PROVE DurabilityInv'
  BY <1>17 DEF Acknowledge, Idle, Ready
<1>18. CASE Checkpoint
  BY <1>18 DEF Checkpoint
<1>19. CASE Poison
  <2>0. poisoned' \in BOOLEAN /\ fast' \in BOOLEAN /\ open' \in BOOLEAN
    BY <1>19, Zenon DEF Poison, SkipPrefix
  <2>1. poisoned' /\ pc' = "idle" /\ pc # "down"
    BY <1>19 DEF Poison
  <2>2. /\ journal_seq' \in 0..MaxSeq /\ journal_seq <= journal_seq'
        /\ journal_seq' <= sequence
        /\ journal_chosen \subseteq journal_chosen' /\ journal_chosen' \subseteq known
        /\ applied' \in applied..MaxSlot /\ app_disk' \in 0..applied'
        /\ 1..applied' \subseteq journal_chosen'
    <3>1. CASE UNCHANGED <<journal, app>>
      BY <1>19, <2>1, <3>1
    <3>2. CASE ~UNCHANGED <<journal, app>>
      BY <1>19, <3>2 DEF Poison, SkipPrefix
    <3> QED
      BY <3>1, <3>2
  <2>3. TypeOK'
    BY <1>19, <2>0, <2>2 DEF Poison
  <2>4. (JournalInMemory /\ BarrierCrossed /\ PoisonedIsIdle)'
    BY <1>19, <2>1, <2>2 DEF Poison
  <2>5. (StagedWork /\ ReleasedWork)'
    BY <1>19, <2>2 DEF Poison
  <2>6. (SentIsDurable /\ ApplicationBehindJournal /\ AcknowledgedSurvives)'
    BY <1>19, <2>2 DEF Poison
  <2> QED
    BY <2>3, <2>4, <2>5, <2>6
<1>20. CASE Crash
  <2>0. poisoned' \in BOOLEAN /\ fast' \in BOOLEAN /\ open' \in BOOLEAN
    BY <1>20, Zenon DEF Crash, EmptyGroup
  <2>1. TypeOK'
    BY <1>20, <2>0 DEF Crash, EmptyGroup
  <2>2. (JournalInMemory /\ BarrierCrossed /\ PoisonedIsIdle)'
    BY <1>20 DEF Crash, EmptyGroup
  <2>3. (StagedWork /\ ReleasedWork)'
    BY <1>20 DEF Crash, EmptyGroup
  <2>4. (SentIsDurable /\ ApplicationBehindJournal /\ AcknowledgedSurvives)'
    BY <1>20 DEF Crash, EmptyGroup
  <2> QED
    BY <2>1, <2>2, <2>3, <2>4
<1>21. CASE Open
  <2>1. TypeOK'
    BY <1>21 DEF Open
  <2>2. (JournalInMemory /\ BarrierCrossed /\ PoisonedIsIdle)'
    BY <1>21 DEF Open
  <2>3. (StagedWork /\ ReleasedWork)'
    BY <1>21 DEF Open
  <2>4. (SentIsDurable /\ ApplicationBehindJournal /\ AcknowledgedSurvives)'
    BY <1>21 DEF Open
  <2> QED
    BY <2>1, <2>2, <2>3, <2>4
<1>22. CASE RecoverOne
  BY <1>22 DEF RecoverOne
<1>23. CASE RecoverDone
  BY <1>23 DEF RecoverDone
<1>24. CASE UNCHANGED vars
  BY <1>24 DEF vars
<1>25. QED
  BY <1>1, <1>2, <1>3, <1>4, <1>5, <1>6, <1>7, <1>8, <1>9, <1>10, <1>11, <1>12,
     <1>13, <1>14, <1>15, <1>16, <1>17, <1>18, <1>19, <1>20, <1>21, <1>22, <1>23, <1>24
  DEF Next, CallStep, CloseStep

\* The durability invariant holds in every reachable state.
THEOREM Durability == Spec => []DurabilityInv
<1> QED
  BY DurabilityInit, DurabilityStep, PTL DEF Spec

\* Every state of every host is well typed.
THEOREM TypeCorrect == Spec => []TypeOK
<1>1. DurabilityInv => TypeOK
  BY DEF DurabilityInv
<1> QED
  BY <1>1, Durability, PTL

\* Nothing leaves a host before the records it rests on are on disk.
THEOREM NothingSentEarly == Spec => []SentIsDurable
<1>1. DurabilityInv => SentIsDurable
  BY DEF DurabilityInv
<1> QED
  BY <1>1, Durability, PTL

\* A crash never leaves a store that recovery refuses.
THEOREM RecoveryAccepts == Spec => []ApplicationBehindJournal
<1>1. DurabilityInv => ApplicationBehindJournal
  BY DEF DurabilityInv
<1> QED
  BY <1>1, Durability, PTL

\* An acknowledged outcome is never lost.
THEOREM AcknowledgementsSurvive == Spec => []AcknowledgedSurvives
<1>1. DurabilityInv => AcknowledgedSurvives
  BY DEF DurabilityInv
<1> QED
  BY <1>1, Durability, PTL

-----------------------------------------------------------------------------
\* Why the entries of a group always continue the application: between two
\* closes they are exactly the slots emitted above what was applied.
ContiguityInv ==
    /\ ~open => entries = {}
    /\ pc \notin {"down", "recover"} /\ ~poisoned =>
          /\ applied <= emitted
          /\ entries \subseteq 1..emitted
          /\ (applied + 1)..emitted \subseteq entries
    /\ pc \in {"down", "recover"} => ~open
    /\ pc = "publish" => emitted <= applied

\* A transition emits the slots that follow the ones emitted before.
LEMMA StageContiguous ==
    ASSUME DurabilityInv, stage_transition
    PROVE  /\ emitted' \in Nat /\ emitted <= emitted'
           /\ entries' = entries \cup (emitted + 1)..emitted'
           /\ open' = open
BY HostAssumption DEF stage_transition, DurabilityInv, TypeOK

\* Every step keeps the entries contiguous.
LEMMA ContiguityStep ==
    DurabilityInv /\ ContiguityInv /\ [Next]_vars => ContiguityInv'
<1> SUFFICES ASSUME DurabilityInv, ContiguityInv, [Next]_vars PROVE ContiguityInv'
  OBVIOUS
<1> USE HostAssumption
    DEF DurabilityInv, TypeOK, PoisonedIsIdle, ContiguityInv, Slots,
        journal, app, node, group, call, env
<1>1. CASE TurnBegin
  BY <1>1 DEF TurnBegin, Idle, Ready
<1>2. CASE Admit
  BY <1>2 DEF Admit, Idle, Ready
<1>3. CASE TurnCommit
  BY <1>3 DEF TurnCommit, Idle, Ready
<1>4. CASE NextIdCloses
  BY <1>4 DEF NextIdCloses, Idle, Ready
<1>5. CASE transition_begin
  BY <1>5 DEF transition_begin, Ready
<1>6. CASE transition_full
  BY <1>6 DEF transition_full, Ready
<1>7. CASE Transition
  <2>1. stage_transition /\ UNCHANGED <<app, pc, poisoned>>
    BY <1>7 DEF Transition
  <2>2. open' /\ pc' = "idle" /\ pc = "idle" /\ ~poisoned
    BY <1>7, <2>1, StageContiguous DEF Transition, Ready
  <2>3. /\ emitted' \in Nat /\ emitted <= emitted' /\ applied' = applied
        /\ entries' = entries \cup (emitted + 1)..emitted'
    BY <2>1, StageContiguous
  <2>4. /\ applied' <= emitted' /\ entries' \subseteq 1..emitted'
        /\ (applied' + 1)..emitted' \subseteq entries'
    BY <2>2, <2>3
  <2> QED
    BY <2>2, <2>4
<1>8. CASE FastCommit
  <2>1. CASE group_has_room
    <3>1. stage_transition /\ UNCHANGED <<app, pc, poisoned>>
      BY <1>8, <2>1 DEF FastCommit
    <3>2. open' /\ pc' = "idle" /\ pc = "idle" /\ ~poisoned
      BY <1>8, <3>1, StageContiguous DEF FastCommit, Ready
    <3>3. /\ emitted' \in Nat /\ emitted <= emitted' /\ applied' = applied
          /\ entries' = entries \cup (emitted + 1)..emitted'
      BY <3>1, StageContiguous
    <3>4. /\ applied' <= emitted' /\ entries' \subseteq 1..emitted'
          /\ (applied' + 1)..emitted' \subseteq entries'
      BY <3>2, <3>3
    <3> QED
      BY <3>2, <3>4
  <2>2. CASE ~group_has_room
    BY <1>8, <2>2 DEF FastCommit, Ready
  <2> QED
    BY <2>1, <2>2
<1>9. CASE CallEnd
  BY <1>9 DEF CallEnd, Ready
<1>10. CASE JournalCommit
  BY <1>10 DEF JournalCommit, SkipPrefix
<1>11. CASE ApplyEntries
  BY <1>11 DEF ApplyEntries
<1>12. CASE ApplyDone
  BY <1>12 DEF ApplyDone
<1>13. CASE Publish
  BY <1>13 DEF Publish
<1>14. CASE Serve
  BY <1>14 DEF Serve
<1>15. CASE CloseDone
  BY <1>15 DEF CloseDone, EmptyGroup
<1>16. CASE Pop
  BY <1>16 DEF Pop, Idle, Ready
<1>17. ASSUME NEW s \in Slots, Acknowledge(s) PROVE ContiguityInv'
  BY <1>17 DEF Acknowledge, Idle, Ready
<1>18. CASE Checkpoint
  BY <1>18 DEF Checkpoint
<1>19. CASE Poison
  BY <1>19 DEF Poison
<1>20. CASE Crash
  BY <1>20 DEF Crash, EmptyGroup
<1>21. CASE Open
  BY <1>21 DEF Open
<1>22. CASE RecoverOne
  BY <1>22 DEF RecoverOne
<1>23. CASE RecoverDone
  BY <1>23 DEF RecoverDone
<1>24. CASE UNCHANGED vars
  BY <1>24 DEF vars
<1>25. QED
  BY <1>1, <1>2, <1>3, <1>4, <1>5, <1>6, <1>7, <1>8, <1>9, <1>10, <1>11, <1>12,
     <1>13, <1>14, <1>15, <1>16, <1>17, <1>18, <1>19, <1>20, <1>21, <1>22, <1>23, <1>24
  DEF Next, CallStep, CloseStep

\* engine_apply_outcomes never refuses the entries a host gives it.
THEOREM EntriesContinue == Spec => []EntriesContinueApplication
<1>1. Init => ContiguityInv
  BY DEF Init, ContiguityInv
<1>2. DurabilityInv /\ ContiguityInv => EntriesContinueApplication
  <2> SUFFICES ASSUME DurabilityInv, ContiguityInv, pc = "apply"
               PROVE  (entries \ 1..applied) = (applied + 1)..emitted
    BY DEF EntriesContinueApplication
  <2>1. ~poisoned /\ applied \in Nat /\ emitted \in Nat
    BY HostAssumption DEF DurabilityInv, TypeOK, PoisonedIsIdle
  <2>2. entries \subseteq 1..emitted /\ (applied + 1)..emitted \subseteq entries
    BY <2>1 DEF ContiguityInv
  <2>3. ASSUME NEW s \in entries \ 1..applied PROVE s \in (applied + 1)..emitted
    BY <2>1, <2>2
  <2>4. ASSUME NEW s \in (applied + 1)..emitted PROVE s \in entries \ 1..applied
    BY <2>1, <2>2
  <2> QED
    BY <2>3, <2>4
<1> QED
  BY <1>1, <1>2, Durability, ContiguityStep, PTL DEF Spec

-----------------------------------------------------------------------------
\* Why the group arrays are large enough.  A node learns only slots of its
\* window, so a decision far above the application implies that the slots a
\* window below it are journaled; recovery replays them before the host serves.
WindowInv ==
    /\ pc \notin {"down", "recover"} => known \subseteq 1..(applied + WINDOW)
    /\ \A s \in journal_chosen : 1..(s - WINDOW) \subseteq journal_chosen

\* Applying more slots only moves the window up.
LEMMA WindowMoves ==
  ASSUME NEW K, NEW a \in Nat, NEW b \in Nat, a <= b, K \subseteq 1..(a + WINDOW)
  PROVE  K \subseteq 1..(b + WINDOW)
BY HostAssumption

\* A set of slots grows by at most WINDOW when an interval within the window
\* above the application joins it.
LEMMA IntervalGrowth ==
  ASSUME NEW E, IsFiniteSet(E), NEW a \in Nat, NEW lo \in Nat, NEW hi \in Nat,
         a <= lo, hi <= a + WINDOW
  PROVE  Cardinality(E \cup (lo + 1)..hi) <= Cardinality(E) + WINDOW
<1> DEFINE I == (lo + 1)..hi
<1>1. IsFiniteSet(I) /\ Cardinality(I) \in Nat /\ Cardinality(I) <= WINDOW
  <2>1. lo + 1 \in Int /\ hi \in Int /\ WINDOW \in Nat
    BY HostAssumption
  <2>2. IsFiniteSet(I) /\ Cardinality(I) = IF lo + 1 > hi THEN 0 ELSE hi - (lo + 1) + 1
    BY <2>1, FS_Interval
  <2> HIDE DEF I
  <2> QED
    BY <2>1, <2>2
<1> HIDE DEF I
<1>2. IsFiniteSet(E \cap I)
  BY <1>1, FS_Intersection
<1>3. Cardinality(E) \in Nat /\ Cardinality(E \cap I) \in Nat
  BY <1>2, FS_CardinalityType
<1>4. Cardinality(E \cup I) = Cardinality(E) + Cardinality(I) - Cardinality(E \cap I)
  BY <1>1, FS_Union
<1>5. Cardinality(E \cup I) <= Cardinality(E) + WINDOW
  BY <1>1, <1>3, <1>4, HostAssumption
<1> QED
  BY <1>5 DEF I

\* A transition that found room leaves a group that fits.
LEMMA StageFits ==
  ASSUME DurabilityInv, ContiguityInv, WindowInv, pc = "idle", ~poisoned,
         group_has_room, stage_transition
  PROVE  /\ Len(packets') <= GROUP_MESSAGES
         /\ Cardinality(entries') <= GROUP_COMMITTED
         /\ requests' <= GROUP_REQUESTS
         /\ sequence' - required_sequence' <= GROUP_RECORDS
         /\ known' \subseteq 1..(applied + WINDOW)
<1> USE HostAssumption, CapacityAssumption
<1>0. /\ applied \in Nat /\ emitted \in Nat /\ MaxSlot \in Nat /\ sequence \in Nat
      /\ required_sequence \in Nat /\ requests \in Nat /\ packets \in Seq(0..MaxSeq)
      /\ entries \subseteq 1..MaxSlot /\ known \subseteq 1..(applied + WINDOW)
      /\ applied <= emitted
  BY DEF DurabilityInv, TypeOK, ContiguityInv, WindowInv, Slots
<1>1. PICK learned \in SUBSET {s \in Slots \ known : s > applied /\ s <= applied + WINDOW},
           e \in emitted..MaxSlot,
           records \in 0..TRANSITION_RECORDS,
           messages \in 0..TRANSITION_MESSAGES,
           served \in 0..MAX_MEMBERS :
        /\ 1..e \subseteq known \cup learned
        /\ known' = known \cup learned
        /\ sequence' = sequence + records
        /\ packets' = packets \o [i \in 1..messages |-> sequence + records]
        /\ entries' = entries \cup (emitted + 1)..e
        /\ requests' = requests + served
        /\ UNCHANGED <<open, required_sequence>>
  BY DEF stage_transition
<1>2. known' \subseteq 1..(applied + WINDOW)
  BY <1>0, <1>1 DEF Slots
<1>3. e \in Nat /\ e <= applied + WINDOW
  BY <1>0, <1>1
<1>4. Len(packets') <= GROUP_MESSAGES
  <2>1. messages \in Nat /\ messages <= TRANSITION_MESSAGES
    BY <1>1
  <2>2. Len(packets') = Len(packets) + messages /\ Len(packets) \in Nat
    BY <1>0, <1>1, <2>1
  <2> QED
    BY <2>1, <2>2 DEF group_has_room
<1>5. Cardinality(entries') <= GROUP_COMMITTED
  <2>0. IsFiniteSet(1..MaxSlot)
    <3>1. 1 \in Int /\ MaxSlot \in Int
      BY <1>0
    <3> QED
      BY <3>1, FS_Interval
  <2>1. IsFiniteSet(entries)
    BY <1>0, <2>0, FS_Subset
  <2>2. Cardinality(entries') <= Cardinality(entries) + WINDOW
    BY <1>0, <1>1, <1>3, <2>1, IntervalGrowth
  <2>3. IsFiniteSet(entries')
    <3>1. entries' \subseteq 1..MaxSlot
      BY <1>0, <1>1
    <3> QED
      BY <2>0, <3>1, FS_Subset
  <2>4. Cardinality(entries) \in Nat /\ Cardinality(entries') \in Nat
    BY <2>1, <2>3, FS_CardinalityType
  <2> QED
    BY <2>2, <2>4 DEF group_has_room, GROUP_COMMITTED
<1>6. requests' <= GROUP_REQUESTS
  BY <1>0, <1>1 DEF group_has_room
<1>7. sequence' - required_sequence' <= GROUP_RECORDS
  BY <1>0, <1>1 DEF group_has_room
<1> QED
  BY <1>2, <1>4, <1>5, <1>6, <1>7

\* An empty group fits.
LEMMA EmptyFits ==
  /\ Len(<<>>) <= GROUP_MESSAGES
  /\ Cardinality({}) <= GROUP_COMMITTED
  /\ 0 <= GROUP_REQUESTS /\ 0 <= GROUP_RECORDS
<1>1. Cardinality({}) = 0
  BY FS_EmptySet
<1> QED
  BY <1>1, HostAssumption, CapacityAssumption DEF GROUP_COMMITTED

\* Every step keeps the group within its arrays.
LEMMA CapacityStep ==
  ASSUME DurabilityInv, ContiguityInv, WindowInv, GroupFits, [Next]_vars
  PROVE  WindowInv' /\ GroupFits'
<1> USE HostAssumption, CapacityAssumption
    DEF DurabilityInv, TypeOK, PoisonedIsIdle, JournalInMemory, BarrierCrossed,
        ApplicationBehindJournal, WindowInv, Slots,
        journal, app, node, group, call, env
<1>1. CASE TurnBegin
  BY <1>1 DEF TurnBegin, Idle, Ready, GroupFits
<1>2. CASE Admit
  BY <1>2 DEF Admit, Idle, Ready, GroupFits
<1>3. CASE TurnCommit
  BY <1>3 DEF TurnCommit, Idle, Ready, GroupFits
<1>4. CASE NextIdCloses
  BY <1>4 DEF NextIdCloses, Idle, Ready, GroupFits
<1>5. CASE transition_begin
  BY <1>5, EmptyFits DEF transition_begin, Ready, GroupFits
<1>6. CASE transition_full
  BY <1>6 DEF transition_full, Ready, GroupFits
<1>7. CASE Transition
  <2>1. /\ pc = "idle" /\ ~poisoned /\ group_has_room /\ stage_transition
        /\ UNCHANGED <<journal, app, pc, poisoned>>
    BY <1>7 DEF Transition, Ready
  <2>2. /\ Len(packets') <= GROUP_MESSAGES
        /\ Cardinality(entries') <= GROUP_COMMITTED
        /\ requests' <= GROUP_REQUESTS
        /\ sequence' - required_sequence' <= GROUP_RECORDS
        /\ known' \subseteq 1..(applied + WINDOW)
    BY <2>1, StageFits
  <2> QED
    BY <2>1, <2>2 DEF GroupFits
<1>8. CASE FastCommit
  <2>1. pc = "idle" /\ ~poisoned /\ UNCHANGED <<journal, app, pc, poisoned>>
    BY <1>8 DEF FastCommit, Ready
  <2>2. CASE group_has_room
    <3>1. stage_transition
      BY <1>8, <2>2 DEF FastCommit
    <3>2. /\ Len(packets') <= GROUP_MESSAGES
          /\ Cardinality(entries') <= GROUP_COMMITTED
          /\ requests' <= GROUP_REQUESTS
          /\ sequence' - required_sequence' <= GROUP_RECORDS
          /\ known' \subseteq 1..(applied + WINDOW)
      BY <2>1, <2>2, <3>1, StageFits
    <3> QED
      BY <2>1, <3>2 DEF GroupFits
  <2>3. CASE ~group_has_room
    BY <1>8, <2>3 DEF FastCommit, GroupFits
  <2> QED
    BY <2>2, <2>3
<1>9. CASE CallEnd
  BY <1>9 DEF CallEnd, Ready, GroupFits
<1>10. CASE JournalCommit
  <2>1. /\ journal_chosen' = known /\ known' = known /\ applied' \in applied..MaxSlot
        /\ pc = "journal" /\ ~poisoned
    BY <1>10 DEF JournalCommit
  <2>2. WindowInv'
    <3>1. known \subseteq 1..(applied + WINDOW) /\ 1..applied \subseteq known
      BY <2>1
    <3>2. \A s \in known : 1..(s - WINDOW) \subseteq known
      BY <3>1
    <3>3. known' \subseteq 1..(applied' + WINDOW)
      <4>1. applied \in Nat /\ applied' \in Nat /\ applied <= applied'
        BY <2>1
      <4> QED
        BY <2>1, <3>1, <4>1, WindowMoves
    <3> QED
      BY <2>1, <3>2, <3>3
  <2>3. GroupFits'
    BY <1>10 DEF JournalCommit, GroupFits
  <2> QED
    BY <2>2, <2>3
<1>11. CASE ApplyEntries
  <2>1. /\ applied' \in applied..MaxSlot /\ pc' = pc
        /\ UNCHANGED <<journal, poisoned, node, group>>
    BY <1>11 DEF ApplyEntries
  <2>2. pc = "apply" /\ known' \subseteq 1..(applied' + WINDOW)
    <3>1. applied \in Nat /\ applied' \in Nat /\ applied <= applied' /\ pc = "apply"
      BY <1>11, <2>1 DEF ApplyEntries
    <3> QED
      BY <2>1, <3>1, WindowMoves
  <2>3. GroupFits'
    BY <2>1 DEF GroupFits
  <2>4. WindowInv'
    BY <2>1, <2>2
  <2> QED
    BY <2>3, <2>4
<1>12. CASE ApplyDone
  BY <1>12 DEF ApplyDone, GroupFits
<1>13. CASE Publish
  <2>1. Len(packets') <= Len(packets) /\ Len(packets) \in Nat /\ Len(packets') \in Nat
    <3>1. packets' = Tail(packets) /\ packets # <<>> /\ packets \in Seq(0..MaxSeq)
      BY <1>13 DEF Publish
    <3> QED
      BY <3>1
  <2>2. /\ pc' = pc
        /\ UNCHANGED <<journal, app, poisoned, node, open, required_sequence, entries, requests>>
    BY <1>13 DEF Publish
  <2> QED
    BY <2>1, <2>2 DEF GroupFits
<1>14. CASE Serve
  BY <1>14 DEF Serve, GroupFits
<1>15. CASE CloseDone
  BY <1>15, EmptyFits DEF CloseDone, EmptyGroup, GroupFits
<1>16. CASE Pop
  BY <1>16 DEF Pop, Idle, Ready, GroupFits
<1>17. ASSUME NEW s \in Slots, Acknowledge(s) PROVE WindowInv' /\ GroupFits'
  BY <1>17 DEF Acknowledge, Idle, Ready, GroupFits
<1>18. CASE Checkpoint
  BY <1>18 DEF Checkpoint, GroupFits
<1>19. CASE Poison
  <2>1. /\ applied' \in applied..MaxSlot /\ known' = known /\ poisoned'
        /\ pc \notin {"down", "recover"} /\ pc' = "idle"
        /\ journal_chosen' = journal_chosen \/ journal_chosen' = known
        /\ UNCHANGED <<packets, entries, requests>>
    BY <1>19 DEF Poison, SkipPrefix
  <2>2. known \subseteq 1..(applied + WINDOW) /\ 1..applied \subseteq known
    BY <2>1
  <2>3. \A s \in known : 1..(s - WINDOW) \subseteq known
    BY <2>2
  <2>4. WindowInv'
    <3>1. known' \subseteq 1..(applied' + WINDOW)
      <4>1. applied \in Nat /\ applied' \in Nat /\ applied <= applied'
        BY <2>1
      <4> QED
        BY <2>1, <2>2, <4>1, WindowMoves
    <3>2. \A s \in journal_chosen' : 1..(s - WINDOW) \subseteq journal_chosen'
      BY <2>1, <2>3
    <3> QED
      BY <3>1, <3>2
  <2>5. GroupFits'
    BY <2>1 DEF GroupFits
  <2> QED
    BY <2>4, <2>5
<1>20. CASE Crash
  BY <1>20, EmptyFits DEF Crash, EmptyGroup, GroupFits
<1>21. CASE Open
  BY <1>21 DEF Open, GroupFits, ContiguityInv
<1>22. CASE RecoverOne
  BY <1>22 DEF RecoverOne, GroupFits
<1>23. CASE RecoverDone
  <2>1. /\ pc = "recover" /\ known = journal_chosen /\ applied + 1 \notin known
        /\ UNCHANGED <<journal, app, known, group, poisoned, sequence>>
    BY <1>23 DEF RecoverDone
  <2>2. ASSUME NEW s \in known PROVE s \in 1..(applied + WINDOW)
    <3>1. s \in Nat /\ s >= 1 /\ 1..(s - WINDOW) \subseteq known
      BY <2>1
    <3>2. ~(s > applied + WINDOW)
      BY <2>1, <3>1
    <3> QED
      BY <3>1, <3>2
  <2>3. WindowInv'
    BY <2>1, <2>2
  <2>4. GroupFits'
    BY <2>1 DEF GroupFits
  <2> QED
    BY <2>3, <2>4
<1>24. CASE UNCHANGED vars
  BY <1>24 DEF vars, GroupFits
<1>25. QED
  BY <1>1, <1>2, <1>3, <1>4, <1>5, <1>6, <1>7, <1>8, <1>9, <1>10, <1>11, <1>12,
     <1>13, <1>14, <1>15, <1>16, <1>17, <1>18, <1>19, <1>20, <1>21, <1>22, <1>23, <1>24
  DEF Next, CallStep, CloseStep

\* The group arrays never overflow: what group_has_room reserves for one more
\* transition is at least what any transition can stage, after any recovery.
THEOREM GroupNeverOverflows == Spec => []GroupFits
<1>1. Init => ContiguityInv
  BY DEF Init, ContiguityInv
<1>2. Init => WindowInv /\ GroupFits
  BY EmptyFits DEF Init, WindowInv, GroupFits
<1>3. DurabilityInv /\ ContiguityInv /\ WindowInv /\ GroupFits /\ [Next]_vars
         => WindowInv' /\ GroupFits'
  BY CapacityStep
<1> QED
  BY <1>1, <1>2, <1>3, Durability, ContiguityStep, PTL DEF Spec
=============================================================================
