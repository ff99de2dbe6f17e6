----------------------------- MODULE DurableHost -----------------------------
(***************************************************************************)
(* One durable host (src/src/durable): the single-threaded owner of a      *)
(* consensus journal and of an application database.  Calls arrive one at  *)
(* a time; a call makes protocol transitions, each of which stages journal *)
(* records, outgoing packets, peer requests and newly committed slots into *)
(* the open transition group.  group_close crosses the journal barrier,    *)
(* applies the committed slots and publishes the packets, in that order.   *)
(* The process may stop, and any storage call may fail, between any two of *)
(* these steps; a failure poisons the host until it is reopened.           *)
(*                                                                         *)
(* A record is abstracted to its sequence number, a packet to the number   *)
(* of the last record its transition staged, a decision to its slot (which *)
(* value it holds is settled by consensus, see MultiMaster).               *)
(***************************************************************************)
EXTENDS Integers, Sequences, FiniteSets

CONSTANTS
    Skips,                \* slots whose decision is a no-op
    WINDOW,               \* slots a node may learn above its memory floor
    MAX_STEP_BATCH,       \* packets of one step_batch call
    QUEUE_LIMIT,          \* packets queued before calls are refused
    GROUP_MESSAGES, TRANSITION_MESSAGES,
    GROUP_REQUESTS, MAX_MEMBERS,
    GROUP_RECORDS, TRANSITION_RECORDS,
    MaxSlot, MaxSeq       \* bounds on the log and on the journal

GROUP_COMMITTED == 2 * (WINDOW + 1)

ASSUME HostAssumption ==
    /\ Skips \subseteq Nat
    /\ WINDOW \in Nat \ {0} /\ MAX_STEP_BATCH \in Nat \ {0} /\ QUEUE_LIMIT \in Nat
    /\ MaxSlot \in Nat /\ MaxSeq \in Nat

ASSUME CapacityAssumption ==
    /\ TRANSITION_MESSAGES \in Nat /\ GROUP_MESSAGES \in Nat
    /\ MAX_MEMBERS \in Nat /\ GROUP_REQUESTS \in Nat
    /\ TRANSITION_RECORDS \in Nat /\ GROUP_RECORDS \in Nat
    /\ TRANSITION_MESSAGES <= GROUP_MESSAGES
    /\ MAX_MEMBERS <= GROUP_REQUESTS
    /\ TRANSITION_RECORDS <= GROUP_RECORDS

VARIABLES
    \* the journal database, behind its last FULL commit
    journal_seq,        \* records in it
    journal_chosen,     \* slots with a decision record
    separated,          \* format 5: the journal has a database of its own
    \* the application database
    applied,            \* engine.applied_through: slots committed to it
    app_disk,           \* slots of it that a power loss cannot take back
    \* the process
    pc,                 \* "down", "recover", "idle", or a step of group_close
    poisoned,
    turn,               \* "none", "service" (turn_begin) or "call" (standalone)
    budget,             \* transitions the current call may still make
    fast,               \* owner_fast_commit may follow the last transition
    sequence,           \* h.sequence: records staged or committed
    durable_sequence,   \* h.durable_sequence
    known,              \* slots the node's ledger holds a decision for
    emitted,            \* highest slot emitted as committed
    open,               \* the group's journal transaction has begun
    required_sequence, packets, entries, requests,   \* the rest of the group
    queue,              \* packets released to pop
    \* the environment
    sent,               \* highest record a packet on the transport rests on
    acked               \* highest slot whose outcome a caller was told

journal == <<journal_seq, journal_chosen, separated>>
app == <<applied, app_disk>>
node == <<sequence, known, emitted>>
group == <<open, required_sequence, packets, entries, requests>>
call == <<turn, budget, fast>>
env == <<sent, acked>>
vars == <<journal, app, pc, poisoned, call, node, durable_sequence, group, queue, env>>

Slots == 1..MaxSlot

\* Type correctness of the host.
TypeOK ==
    /\ journal_seq \in 0..MaxSeq /\ journal_chosen \subseteq Slots
    /\ separated \in BOOLEAN
    /\ applied \in 0..MaxSlot /\ app_disk \in 0..applied
    /\ pc \in {"down", "recover", "idle", "journal", "apply", "publish"}
    /\ poisoned \in BOOLEAN
    /\ turn \in {"none", "service", "call"}
    /\ budget \in 0..MAX_STEP_BATCH
    /\ fast \in BOOLEAN
    /\ sequence \in 0..MaxSeq /\ durable_sequence \in 0..MaxSeq
    /\ known \subseteq Slots /\ emitted \in 0..MaxSlot
    /\ open \in BOOLEAN /\ required_sequence \in 0..MaxSeq
    /\ packets \in Seq(0..MaxSeq) /\ requests \in Nat
    /\ entries \subseteq Slots
    /\ queue \in Seq(0..MaxSeq)
    /\ sent \in 0..MaxSeq /\ acked \in 0..MaxSlot

-----------------------------------------------------------------------------
EmptyGroup ==
    /\ open' = FALSE /\ required_sequence' = 0
    /\ packets' = <<>> /\ entries' = {} /\ requests' = 0

\* A freshly created store of either format, before its first open.
Init ==
    /\ journal_seq = 0 /\ journal_chosen = {} /\ separated \in BOOLEAN
    /\ applied = 0 /\ app_disk = 0
    /\ pc = "down" /\ poisoned = FALSE
    /\ turn = "none" /\ budget = 0 /\ fast = FALSE
    /\ sequence = 0 /\ durable_sequence = 0 /\ known = {} /\ emitted = 0
    /\ open = FALSE /\ required_sequence = 0
    /\ packets = <<>> /\ entries = {} /\ requests = 0
    /\ queue = <<>> /\ sent = 0 /\ acked = 0

Ready == pc = "idle" /\ ~poisoned

\* Between two calls of the owning thread.
Idle == Ready /\ budget = 0 /\ ~fast /\ turn # "call"

\* turn_begin, called by the service's run loop.
TurnBegin ==
    /\ Idle /\ turn = "none"
    /\ turn' = "service"
    /\ UNCHANGED <<journal, app, pc, poisoned, budget, fast, node, durable_sequence,
                   group, queue, env>>

\* Mutant of Admit: one packet more than the batch bound.
AdmitOneMore ==
    /\ Idle /\ Len(queue) < QUEUE_LIMIT
    /\ budget' \in 1..MAX_STEP_BATCH + 1
    /\ turn' = IF turn = "none" THEN "call" ELSE turn
    /\ UNCHANGED <<journal, app, pc, poisoned, fast, node, durable_sequence, group, queue, env>>

\* A call is admitted: propose, propose_batch, step, tick, progress and
\* catch_up make one transition, step_batch one per packet.  Outside a turn the
\* call opens and closes a group of its own (finish, or step_batch standalone).
Admit ==
    /\ Idle /\ Len(queue) < QUEUE_LIMIT
    /\ budget' \in 1..MAX_STEP_BATCH
    /\ turn' = IF turn = "none" THEN "call" ELSE turn
    /\ UNCHANGED <<journal, app, pc, poisoned, fast, node, durable_sequence, group, queue, env>>

\* Mutant of group_has_room: the journal records of the group are not counted.
RoomWithoutRecords ==
    /\ GROUP_MESSAGES - Len(packets) >= TRANSITION_MESSAGES
    /\ GROUP_COMMITTED - Cardinality(entries) >= WINDOW + 1
    /\ GROUP_REQUESTS - requests >= MAX_MEMBERS

\* group_has_room: the group can take every effect of one more transition.
group_has_room ==
    /\ GROUP_MESSAGES - Len(packets) >= TRANSITION_MESSAGES
    /\ GROUP_COMMITTED - Cardinality(entries) >= WINDOW + 1
    /\ GROUP_REQUESTS - requests >= MAX_MEMBERS
    /\ (sequence - required_sequence) + TRANSITION_RECORDS <= GROUP_RECORDS

\* transition_room on a group that is not open: begin the journal transaction.
transition_begin ==
    /\ Ready /\ budget > 0 /\ ~fast /\ ~open
    /\ sequence = durable_sequence
    /\ open' = TRUE /\ required_sequence' = sequence
    /\ packets' = <<>> /\ entries' = {} /\ requests' = 0
    /\ UNCHANGED <<journal, app, pc, poisoned, call, node, durable_sequence, queue, env>>

\* Mutant of transition_full: the group is applied without its barrier.
FullAppliesFirst ==
    /\ Ready /\ budget > 0 /\ ~fast /\ open /\ ~group_has_room
    /\ pc' = "apply"
    /\ UNCHANGED <<journal, app, poisoned, call, node, durable_sequence, group, queue, env>>

\* transition_room on a full group: close it before the next transition.
transition_full ==
    /\ Ready /\ budget > 0 /\ ~fast /\ open /\ ~group_has_room
    /\ pc' = "journal"
    /\ UNCHANGED <<journal, app, poisoned, call, node, durable_sequence, group, queue, env>>

\* stage_transition: what one upstream transition may produce.  It learns some
\* slots of its window, writes at least a record for each, emits the newly
\* contiguous slots as committed, and sends messages and requests.
stage_transition ==
    \E learned \in SUBSET {s \in Slots \ known : s > applied /\ s <= applied + WINDOW} :
    \E e \in emitted..MaxSlot :
    \E records \in 0..TRANSITION_RECORDS :
    \E messages \in 0..TRANSITION_MESSAGES :
    \E served \in 0..MAX_MEMBERS :
        /\ Cardinality(learned) <= records /\ sequence + records <= MaxSeq
        /\ 1..e \subseteq known \cup learned /\ e + 1 \notin known \cup learned
        /\ known' = known \cup learned
        /\ emitted' = e
        /\ sequence' = sequence + records
        /\ packets' = packets \o [i \in 1..messages |-> sequence + records]
        /\ entries' = entries \cup (emitted + 1)..e
        /\ requests' = requests + served
        /\ UNCHANGED <<open, required_sequence>>

\* One transition of the call; the packet it stepped may be an Accept that
\* owner_fast_commit turns into a Commit.
Transition ==
    /\ Ready /\ budget > 0 /\ ~fast /\ open /\ group_has_room
    /\ stage_transition
    /\ budget' = budget - 1
    /\ fast' \in BOOLEAN
    /\ UNCHANGED <<journal, app, pc, poisoned, turn, durable_sequence, queue, env>>

\* step_batch: the synthesized Commit of owner_fast_commit is stepped only when
\* the group still has room; otherwise it is left to the owner's own Commit.
FastCommit ==
    /\ Ready /\ fast /\ open
    /\ IF group_has_room THEN stage_transition ELSE UNCHANGED <<node, group>>
    /\ fast' = FALSE
    /\ UNCHANGED <<journal, app, pc, poisoned, turn, budget, durable_sequence, queue, env>>

\* A call outside a turn ends by closing its group; inside a turn it just
\* returns (budget 0), leaving the group open.
CallEnd ==
    /\ Ready /\ turn = "call" /\ budget = 0 /\ ~fast
    /\ turn' = "none"
    /\ pc' = IF open THEN "journal" ELSE "idle"
    /\ UNCHANGED <<journal, app, poisoned, budget, fast, node, durable_sequence, group,
                   queue, env>>

\* Mutant of TurnCommit: a group without committed slots is left open.
TurnCommitOnlyEntries ==
    /\ Idle /\ turn = "service"
    /\ turn' = "none"
    /\ pc' = IF open /\ entries # {} THEN "journal" ELSE "idle"
    /\ UNCHANGED <<journal, app, poisoned, budget, fast, node, durable_sequence, group,
                   queue, env>>

\* turn_commit, at the end of a service turn.
TurnCommit ==
    /\ Idle /\ turn = "service"
    /\ turn' = "none"
    /\ pc' = IF open THEN "journal" ELSE "idle"
    /\ UNCHANGED <<journal, app, poisoned, budget, fast, node, durable_sequence, group,
                   queue, env>>

\* next_id closes the open group before it hands out an id (the reservation
\* itself is module Ids).
NextIdCloses ==
    /\ Idle /\ turn = "service" /\ open
    /\ pc' = "journal"
    /\ UNCHANGED <<journal, app, poisoned, call, node, durable_sequence, group, queue, env>>

-----------------------------------------------------------------------------
\* stage_journal_skips: in format 4 the leading no-ops of the group are applied
\* by the journal transaction itself.
SkipPrefix(through) ==
    /\ through >= applied
    /\ (applied + 1)..through \subseteq entries \cap Skips
    /\ separated => through = applied
    /\ ~separated => through + 1 \notin entries \cap Skips

\* Mutant of JournalCommit: the commit returns before all records are synced.
JournalCommitUnsynced ==
    /\ pc = "journal"
    /\ durable_sequence' = sequence
    /\ journal_chosen' = known /\ UNCHANGED <<journal_seq, separated, app>>
    /\ pc' = "apply"
    /\ UNCHANGED <<poisoned, call, node, group, queue, env>>

\* group_close, first step: commit_group_journal crosses the FULL barrier.
JournalCommit ==
    /\ pc = "journal"
    /\ journal_seq' = sequence
    /\ journal_chosen' = known /\ UNCHANGED separated
    /\ durable_sequence' = sequence
    /\ \E through \in applied..MaxSlot :
         /\ SkipPrefix(through)
         /\ applied' = through
         /\ app_disk' = IF separated THEN app_disk ELSE through
    /\ pc' = "apply"
    /\ UNCHANGED <<poisoned, call, node, group, queue, env>>

\* engine_apply_outcomes refuses entries that do not continue the application.
Contiguous == entries \ 1..applied \subseteq (applied + 1)..emitted

\* group_close, second step: apply_host_entries commits the entries in order to
\* the application, one or several per commit; format 5 does so without a sync.
ApplyEntries ==
    /\ pc = "apply" /\ applied + 1 \in entries /\ Contiguous
    /\ \E through \in (applied + 1)..MaxSlot :
         /\ (applied + 1)..through \subseteq entries
         /\ applied' = through
         /\ app_disk' = IF separated THEN app_disk ELSE through
    /\ UNCHANGED <<journal, pc, poisoned, call, node, durable_sequence, group, queue, env>>

\* Mutant of ApplyDone: entries left over by a partial application are dropped.
ApplyDonePartial ==
    /\ pc = "apply"
    /\ pc' = "publish"
    /\ UNCHANGED <<journal, app, poisoned, call, node, durable_sequence, group, queue, env>>

\* Every entry of the group is applied.
ApplyDone ==
    /\ pc = "apply" /\ entries \subseteq 1..applied
    /\ pc' = "publish"
    /\ UNCHANGED <<journal, app, poisoned, call, node, durable_sequence, group, queue, env>>

\* append_packet refuses while records are staged.
append_packet(p) ==
    /\ sequence <= durable_sequence
    /\ queue' = Append(queue, p)

\* group_close, third step: publish the group's packets.
Publish ==
    /\ pc = "publish" /\ packets # <<>>
    /\ append_packet(Head(packets))
    /\ packets' = Tail(packets)
    /\ UNCHANGED <<journal, app, pc, poisoned, call, node, durable_sequence, open,
                   required_sequence, entries, requests, env>>

\* ... then serve the peers' requests from the journal: one packet stands for
\* the chunk of decisions a request draws, none if it falls below the base.
Serve ==
    /\ pc = "publish" /\ packets = <<>> /\ requests > 0
    /\ requests' = requests - 1
    /\ append_packet(durable_sequence) \/ UNCHANGED queue
    /\ UNCHANGED <<journal, app, pc, poisoned, call, node, durable_sequence, open,
                   required_sequence, packets, entries, env>>

\* group_close returns: the node forgets slots up to the applied floor.
CloseDone ==
    /\ pc = "publish" /\ packets = <<>> /\ requests = 0
    /\ EmptyGroup
    /\ pc' = "idle"
    /\ UNCHANGED <<journal, app, poisoned, call, node, durable_sequence, queue, env>>

-----------------------------------------------------------------------------
\* pop: the transport takes a released packet.
Pop ==
    /\ Idle /\ sequence <= durable_sequence /\ queue # <<>>
    /\ sent' = IF Head(queue) > sent THEN Head(queue) ELSE sent
    /\ queue' = Tail(queue)
    /\ UNCHANGED <<journal, app, pc, poisoned, call, node, durable_sequence, group, acked>>

\* Mutant of Acknowledge: a decided slot is complete before it is applied.
AcknowledgeDecided(s) ==
    /\ Idle /\ s \in known
    /\ acked' = IF s > acked THEN s ELSE acked
    /\ UNCHANGED <<journal, app, pc, poisoned, call, node, durable_sequence, group, queue, sent>>

\* outcome/acknowledged: a caller learns that its slot is decided and applied.
Acknowledge(s) ==
    /\ Idle /\ s <= applied /\ s \in known
    /\ acked' = IF s > acked THEN s ELSE acked
    /\ UNCHANGED <<journal, app, pc, poisoned, call, node, durable_sequence, group, queue, sent>>

\* SQLite moves the application's WAL into its database and syncs it.
Checkpoint ==
    /\ pc \notin {"down", "recover"} /\ app_disk < applied
    /\ app_disk' = applied
    /\ UNCHANGED <<journal, applied, pc, poisoned, call, node, durable_sequence, group,
                   queue, env>>

\* Any storage call of a running operation fails: poison.  A failing journal
\* commit may still have reached the disk.
Poison ==
    /\ pc \in {"idle", "journal", "apply", "publish"} /\ ~poisoned
    /\ poisoned' = TRUE /\ pc' = "idle" /\ budget' = 0 /\ fast' = FALSE
    /\ \/ UNCHANGED <<journal, app>>
       \/ /\ pc = "journal"
          /\ journal_seq' = sequence /\ journal_chosen' = known /\ UNCHANGED separated
          /\ IF separated THEN UNCHANGED app
             ELSE \E through \in applied..MaxSlot :
                    SkipPrefix(through) /\ applied' = through /\ app_disk' = through
    /\ UNCHANGED <<turn, node, durable_sequence, group, queue, env>>

\* The process stops or the machine loses power; the application database comes
\* back at a committed prefix no older than its last sync.
Crash ==
    /\ pc # "down"
    /\ \E survives \in app_disk..applied : applied' = survives /\ app_disk' = survives
    /\ pc' = "down" /\ poisoned' = FALSE
    /\ turn' = "none" /\ budget' = 0 /\ fast' = FALSE
    /\ sequence' = 0 /\ durable_sequence' = 0 /\ known' = {} /\ emitted' = 0
    /\ EmptyGroup /\ queue' = <<>>
    /\ UNCHANGED <<journal, env>>

\* open: recover_ledger rebuilds the node from the journal; every slot of the
\* application must have its decision there, or the store is refused.
Open ==
    /\ pc = "down"
    /\ 1..applied \subseteq journal_chosen
    /\ sequence' = journal_seq /\ durable_sequence' = journal_seq
    /\ known' = journal_chosen
    /\ pc' = "recover"
    /\ UNCHANGED <<journal, app, poisoned, call, emitted, group, queue, env>>

\* recover_application replays the decided suffix, each slot a FULL commit.
RecoverOne ==
    /\ pc = "recover" /\ applied + 1 \in known
    /\ applied' = applied + 1 /\ app_disk' = applied + 1
    /\ UNCHANGED <<journal, pc, poisoned, call, node, durable_sequence, group, queue, env>>

\* Mutant of RecoverDone: waits for decisions above a gap in the log.
RecoverDoneNoGap ==
    /\ pc = "recover" /\ known \subseteq 1..applied
    /\ emitted' = applied
    /\ pc' = "idle"
    /\ UNCHANGED <<journal, app, poisoned, call, sequence, known, durable_sequence, group,
                   queue, env>>

\* node_restore at the applied floor; the host serves.
RecoverDone ==
    /\ pc = "recover" /\ applied + 1 \notin known
    /\ emitted' = applied
    /\ pc' = "idle"
    /\ UNCHANGED <<journal, app, poisoned, call, sequence, known, durable_sequence, group,
                   queue, env>>

CloseStep == JournalCommit \/ ApplyEntries \/ ApplyDone \/ Publish \/ Serve \/ CloseDone

CallStep ==
    transition_begin \/ transition_full \/ Transition \/ FastCommit \/ CallEnd

Next ==
    \/ TurnBegin \/ Admit \/ TurnCommit \/ NextIdCloses
    \/ CallStep \/ CloseStep
    \/ Pop \/ (\E s \in Slots : Acknowledge(s))
    \/ Checkpoint \/ Poison \/ Crash
    \/ Open \/ RecoverOne \/ RecoverDone

Spec == Init /\ [][Next]_vars

\* What the run loop guarantees: a call in progress, a close in progress and a
\* recovery in progress go on (one thread executes them), and every turn comes
\* to its turn_commit however many calls it makes.
Fairness ==
    /\ WF_vars(CallStep) /\ WF_vars(CloseStep)
    /\ SF_vars(TurnCommit)
    /\ WF_vars(Open \/ RecoverOne \/ RecoverDone)

FairSpec == Spec /\ Fairness

-----------------------------------------------------------------------------
\* Every packet the transport ever got is covered by journal records that no
\* crash takes back: a promise, a vote or a decision is on disk before the
\* first byte that depends on it leaves (append_packet, pop, group_close).
SentIsDurable == sent <= journal_seq

\* The application database, whatever survives of it, never holds a slot whose
\* decision is not behind the journal barrier, so recover_application never
\* refuses the store.
ApplicationBehindJournal == 1..applied \subseteq journal_chosen

\* A slot that a caller was told is complete stays complete, and so do the
\* slots below it: their decisions are journaled, and a recovered host has
\* applied them again, although the application database may have lost them
\* in the crash.
AcknowledgedSurvives ==
    /\ 1..acked \subseteq journal_chosen
    /\ pc \notin {"down", "recover"} => acked <= applied

\* The bounded workspace never overflows: what stage_transition copies always
\* fits the group arrays, whatever mix of calls shares the group.
GroupFits ==
    /\ Len(packets) <= GROUP_MESSAGES
    /\ Cardinality(entries) <= GROUP_COMMITTED
    /\ requests <= GROUP_REQUESTS
    /\ open /\ ~poisoned => sequence - required_sequence <= GROUP_RECORDS

\* The entries of a closing group always continue the application: the refusal
\* in engine_apply_outcomes (Invalid_Slot, which poisons) is never reached.
EntriesContinueApplication ==
    pc = "apply" => (entries \ 1..applied) = (applied + 1)..emitted

\* Staged packets do not wait for ever: they are released, unless the host is
\* poisoned or dies; no capacity bound, early close or empty group stalls them.
StagedPacketsSettle == packets # <<>> ~> (packets = <<>> \/ poisoned)

\* Reopening comes to an end: once crashes stop, a stopped host serves again,
\* however many slots its application lost.
RecoveryCompletes ==
    <>[][~Crash]_vars => (pc \in {"down", "recover"} ~> pc = "idle")
=============================================================================
