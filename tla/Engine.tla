------------------------------- MODULE Engine -------------------------------
(***************************************************************************)
(* The replicated SQL engine (src/src/engine*.odin): one replica applies   *)
(* the decided log, slot by slot, to its SQLite database.  Requests carry  *)
(* a session and a sequence number so that a retry, possibly through       *)
(* another master and in another slot, executes at most once; sessions can *)
(* be retired, which fences their requests by an epoch; optimistic         *)
(* transactions carry the revision they were previewed at.  Decided        *)
(* entries are applied one per SQLite transaction (the reference path) or  *)
(* up to MAX_APPLICATION_GROUP per transaction with a savepoint each.      *)
(*                                                                         *)
(* SQL is abstracted to seven statements on a set of keys that apply or    *)
(* reject in the ways the code tells apart; the database is a record of    *)
(* its tables.                                                             *)
(***************************************************************************)
EXTENDS Integers, Sequences, FiniteSets

CONSTANTS
    Keys, Sessions,
    Requests,               \* mutations clients and operators may submit
    MAX_REQUEST_SESSIONS,
    MAX_APPLICATION_GROUP,
    MaxSlot                 \* bound on the log

ASSUME EngineAssumption ==
    /\ MAX_REQUEST_SESSIONS \in Nat /\ MAX_APPLICATION_GROUP \in Nat \ {0}
    /\ MaxSlot \in Nat

\* The statements a body may hold, and the mutations that mutation_validate
\* admits: a request names a session, a sequence from 1, an epoch and the
\* revision it was previewed at (0 for none).
Statements == [op : {"replace", "insert", "rollback", "delete", "child", "denied", "invalid"},
               key : Keys]
Mutations ==
    [kind : {"Skip"}] \cup [kind : {"Session_Epoch"}, expected : Nat]
    \cup [kind : {"Raw_SQL"}, body : Statements]
    \cup [kind : {"Transaction"}, session : Sessions, sequence : Nat \ {0}, epoch : Nat,
          read_version : Nat, body : Statements]

ASSUME RequestAssumption == Requests \subseteq Mutations

Kinds == {"Applied", "Constraint", "Policy", "Sequence_Gap", "Expired",
          "Identity_Conflict", "Session_Limit", "Invalid_SQL", "Conflict"}
Outcomes == [kind : Kinds, slot : 1..MaxSlot]

NoRow == [seq |-> 0]

VARIABLES
    log,        \* decided mutations, slots 1, 2, ...
    db,         \* the replica's database as last committed
    synced,     \* the database a power loss falls back to
    fallback    \* entries of an aborted group still to be applied one by one

vars == <<log, db, synced, fallback>>

\* transaction_digest: what two submissions of one request have in common.
transaction_digest(m) == <<m.epoch, m.read_version, m.body>>

EmptyDb == [rows     |-> {},
            sessions |-> [s \in Sessions |-> NoRow],
            epoch    |-> 0,          \* _sqlodin_tx_revision.epoch
            version  |-> 1,          \* _sqlodin_tx_revision.version
            outcomes |-> <<>>]       \* _sqlodin_outcomes; its length is the watermark

Through(d) == Len(d.outcomes)

Init ==
    /\ log = <<>>
    /\ db = EmptyDb /\ synced = EmptyDb
    /\ fallback = 0

SessionCount(d) == Cardinality({s \in Sessions : d.sessions[s] # NoRow})

\* Type correctness: the tables of the committed and of the synced database.
TypeOK ==
    /\ log \in Seq(Requests)
    /\ \A d \in {db, synced} :
         /\ d.rows \subseteq Keys
         /\ d.epoch \in Nat /\ d.version \in 1..MaxSlot + 1
         /\ d.outcomes \in Seq(Outcomes) /\ Through(d) <= Len(log)
         /\ \A s \in Sessions : d.sessions[s] # NoRow =>
               d.sessions[s].seq \in Nat \ {0} /\ d.sessions[s].out \in Outcomes
         /\ SessionCount(d) <= MAX_REQUEST_SESSIONS
    /\ fallback \in 0..MAX_APPLICATION_GROUP

-----------------------------------------------------------------------------
Out(kind, slot) == [kind |-> kind, slot |-> slot]

\* Mutant of engine_request_lookup: no epoch fence.
LookupUnfenced(d, m, slot) ==
    LET row == d.sessions[m.session]
        answer(out, record) == [out |-> out, execute |-> FALSE, record |-> record]
    IN IF row # NoRow /\ m.sequence < row.seq THEN answer(Out("Expired", slot), FALSE)
       ELSE IF row # NoRow /\ m.sequence = row.seq THEN answer(row.out, FALSE)
       ELSE IF m.sequence # row.seq + 1 THEN answer(Out("Sequence_Gap", slot), TRUE)
       ELSE [out |-> Out("Applied", slot), execute |-> TRUE, record |-> TRUE]

\* engine_request_lookup: the answer to a request that is not to be executed,
\* or the permission to execute it, and whether its session row is written.
engine_request_lookup(d, m, slot) ==
    LET row == d.sessions[m.session]
        answer(out, record) == [out |-> out, execute |-> FALSE, record |-> record]
    IN IF m.epoch # d.epoch THEN answer(Out("Expired", slot), FALSE)
       ELSE IF row # NoRow /\ m.sequence < row.seq THEN answer(Out("Expired", slot), FALSE)
       ELSE IF row # NoRow /\ m.sequence = row.seq
       THEN IF row.hash # transaction_digest(m)
            THEN answer(Out("Identity_Conflict", slot), FALSE)
            ELSE answer(row.out, FALSE)
       ELSE IF row = NoRow /\ SessionCount(d) >= MAX_REQUEST_SESSIONS
       THEN answer(Out("Session_Limit", slot), FALSE)
       ELSE IF m.sequence # row.seq + 1 THEN answer(Out("Sequence_Gap", slot), TRUE)
       ELSE [out |-> Out("Applied", slot), execute |-> TRUE, record |-> TRUE]

\* engine_retire_sessions: advance the epoch and forget every session, once.
engine_retire_sessions(d, expected) ==
    IF d.epoch = expected + 1 THEN [kind |-> "Applied", db |-> d]
    ELSE IF d.epoch # expected THEN [kind |-> "Conflict", db |-> d]
    ELSE [kind |-> "Applied",
          db |-> [d EXCEPT !.epoch = @ + 1, !.sessions = [s \in Sessions |-> NoRow]]]

\* engine_execute_mutation on the abstract statements.  "insert" rejects a
\* present key; "replace" never rejects; "rollback" is an insert whose conflict
\* clause rolls back the whole SQLite transaction; "child" leaves a deferred
\* foreign key open unless its parent key is present; "denied" and "invalid"
\* are rejected by the policy and by the parser.
Execute(d, body) ==
    LET present == body.key \in d.rows
        added == [d EXCEPT !.rows = @ \cup {body.key}]
    IN CASE body.op = "replace"  -> [kind |-> "Applied", db |-> added]
         [] body.op = "insert"   -> IF present THEN [kind |-> "Constraint", db |-> d]
                                    ELSE [kind |-> "Applied", db |-> added]
         [] body.op = "rollback" -> IF present THEN [kind |-> "Constraint", db |-> d]
                                    ELSE [kind |-> "Applied", db |-> added]
         [] body.op = "delete"   -> [kind |-> "Applied",
                                     db |-> [d EXCEPT !.rows = @ \ {body.key}]]
         [] body.op = "child"    -> [kind |-> "Applied", db |-> d]
         [] body.op = "denied"   -> [kind |-> "Policy", db |-> d]
         [] body.op = "invalid"  -> [kind |-> "Invalid_SQL", db |-> d]

\* The statement ended the surrounding transaction (autocommit is back on).
EndsTransaction(d, m) ==
    m.kind \in {"Transaction", "Raw_SQL"} /\ m.body.op = "rollback" /\ m.body.key \in d.rows

\* A deferred foreign key is still violated after the statement.
DeferredViolation(d, m) ==
    m.kind \in {"Transaction", "Raw_SQL"} /\ m.body.op = "child" /\ m.body.key \notin d.rows

\* Mutant of StaleRevision: only a revision of the future is stale.
StaleOnlyAhead(d, m) ==
    m.kind = "Transaction" /\ m.read_version # 0 /\ m.read_version > d.version

\* An optimistic transaction whose revision is no longer the current one.
StaleRevision(d, m) ==
    m.kind = "Transaction" /\ m.read_version # 0 /\ m.read_version # d.version

\* engine_run_outcome.
engine_run_outcome(d, m) ==
    CASE m.kind = "Skip" -> [kind |-> "Applied", db |-> d]
      [] m.kind = "Session_Epoch" -> engine_retire_sessions(d, m.expected)
      [] m.kind = "Raw_SQL" -> Execute(d, m.body)
      [] m.kind = "Transaction" -> IF StaleRevision(d, m)
                                   THEN [kind |-> "Conflict", db |-> d]
                                   ELSE Execute(d, m.body)

\* engine_advance_version: an execution that applied sets the revision.
AdvancesVersion(slot, out, m) ==
    m.kind # "Skip" /\ out.kind = "Applied" /\ out.slot = slot

\* Mutant of engine_record_outcome: a rejected request leaves no session row.
RecordOnlyApplied(d, slot, out, m, record) ==
    [d EXCEPT
        !.version = IF AdvancesVersion(slot, out, m) THEN slot + 1 ELSE @,
        !.outcomes = Append(@, out),
        !.sessions = IF record /\ out.kind = "Applied"
                     THEN [@ EXCEPT ![m.session] =
                              [seq |-> m.sequence, hash |-> transaction_digest(m),
                               out |-> out]]
                     ELSE @]

\* engine_record_outcome: revision, outcome, session row and watermark.
engine_record_outcome(d, slot, out, m, record) ==
    [d EXCEPT
        !.version = IF AdvancesVersion(slot, out, m) THEN slot + 1 ELSE @,
        !.outcomes = Append(@, out),
        !.sessions = IF record
                     THEN [@ EXCEPT ![m.session] =
                              [seq |-> m.sequence, hash |-> transaction_digest(m),
                               out |-> out]]
                     ELSE @]

Lookup(d, slot, m) ==
    IF m.kind = "Transaction" THEN engine_request_lookup(d, m, slot)
    ELSE [out |-> Out("Applied", slot), execute |-> TRUE, record |-> FALSE]

\* engine_apply_outcome: one entry in a SQLite transaction of its own.  A
\* rejection rolls it back and records the outcome in a fresh one; a deferred
\* foreign key rejects only at COMMIT.
engine_apply_outcome(d, slot, m) ==
    LET look == Lookup(d, slot, m)
        run == engine_run_outcome(d, m)
        committed == engine_record_outcome(run.db, slot, Out("Applied", slot), m, look.record)
        rejected(kind) == engine_record_outcome(d, slot, Out(kind, slot), m, look.record)
    IN IF ~look.execute THEN engine_record_outcome(d, slot, look.out, m, look.record)
       ELSE IF run.kind # "Applied" THEN rejected(run.kind)
       ELSE IF DeferredViolation(d, m) THEN rejected("Constraint")
       ELSE committed

\* Mutant of engine_stage_request: deferred constraints are left to the commit.
StageWithoutDeferred(d, slot, m) ==
    LET look == Lookup(d, slot, m)
        run == IF look.execute THEN engine_run_outcome(d, m)
               ELSE [kind |-> look.out.kind, db |-> d]
        out == IF look.execute THEN Out(run.kind, slot) ELSE look.out
    IN [staged |-> ~(look.execute /\ ~StaleRevision(d, m) /\ EndsTransaction(d, m)),
        db |-> engine_record_outcome(run.db, slot, out, m, look.record)]

\* engine_stage_request: one entry of a group, under a savepoint.  It sees what
\* the entries before it did.  A statement that ended the surrounding
\* transaction has undone them all: the group is given up.
engine_stage_request(d, slot, m) ==
    LET look == Lookup(d, slot, m)
        run == IF look.execute THEN engine_run_outcome(d, m)
               ELSE [kind |-> look.out.kind, db |-> d]
        kind == IF look.execute /\ run.kind = "Applied" /\ DeferredViolation(d, m)
                THEN "Constraint" ELSE run.kind
        out == IF look.execute THEN Out(kind, slot) ELSE look.out
        after == IF look.execute /\ kind = "Applied" THEN run.db ELSE d
    IN [staged |-> ~(look.execute /\ ~StaleRevision(d, m) /\ EndsTransaction(d, m)),
        db |-> engine_record_outcome(after, slot, out, m, look.record)]

\* engine_apply_group: stage k entries after the watermark, then commit once.
engine_apply_group(d, k) ==
    LET stage[i \in 0..k] ==
          IF i = 0 THEN [staged |-> TRUE, db |-> d]
          ELSE IF ~stage[i-1].staged THEN stage[i-1]
          ELSE engine_stage_request(stage[i-1].db, Through(d) + i, log[Through(d) + i])
    IN stage[k]

-----------------------------------------------------------------------------
\* The one-entry-per-transaction execution of a prefix of the log.
Reference ==
    LET f[n \in 0..Len(log)] ==
          IF n = 0 THEN EmptyDb ELSE engine_apply_outcome(f[n-1], n, log[n])
    IN f

\* Consensus decides one more slot.  A client learned the epoch it puts in a
\* request, and an operator the epoch to retire, from a replica that had it,
\* so from a prefix of the log.
Decide(m) ==
    /\ Len(log) < MaxSlot
    /\ m.kind = "Transaction" => m.epoch <= Reference[Len(log)].epoch
    /\ m.kind = "Session_Epoch" => m.expected <= Reference[Len(log)].epoch
    /\ log' = Append(log, m)
    /\ UNCHANGED <<db, synced, fallback>>

\* engine_apply_outcomes on a group of one, on the entries of a group that was
\* given up, or in recovery.
ApplyOne ==
    /\ Through(db) < Len(log)
    /\ db' = engine_apply_outcome(db, Through(db) + 1, log[Through(db) + 1])
    /\ fallback' = IF fallback > 0 THEN fallback - 1 ELSE 0
    /\ UNCHANGED <<log, synced>>

\* engine_apply_outcomes on a group: committed whole, or given up untouched.
ApplyGroup(k) ==
    /\ fallback = 0 /\ Through(db) + k <= Len(log)
    /\ LET group == engine_apply_group(db, k) IN
       /\ db' = IF group.staged THEN group.db ELSE db
       /\ fallback' = IF group.staged THEN 0 ELSE k
    /\ UNCHANGED <<log, synced>>

Checkpoint ==
    /\ synced # db
    /\ synced' = db
    /\ UNCHANGED <<log, db, fallback>>

\* Power is lost; the replica restarts from what was synced and replays.
Crash ==
    /\ synced # db \/ fallback > 0
    /\ db' = synced
    /\ fallback' = 0
    /\ UNCHANGED <<log, synced>>

Next ==
    \/ \E m \in Requests : Decide(m)
    \/ ApplyOne
    \/ \E k \in 2..MAX_APPLICATION_GROUP : ApplyGroup(k)
    \/ Checkpoint
    \/ Crash

Spec == Init /\ [][Next]_vars

-----------------------------------------------------------------------------
\* However the entries were grouped, however often groups were given up and
\* crashes made the replica replay, its database is the one the reference
\* execution gives.  Hence all replicas agree, and an outcome once told is the
\* outcome after every recovery.
GroupingIsInvisible == db = Reference[Through(db)]

SameIdentity(m1, m2) ==
    /\ m1.kind = "Transaction" /\ m2.kind = "Transaction"
    /\ m1.session = m2.session /\ m1.sequence = m2.sequence /\ m1.epoch = m2.epoch

Executed(s) == db.outcomes[s].kind = "Applied" /\ db.outcomes[s].slot = s

\* A request identity executes in at most one slot of the log, although retries
\* put it in several, sessions are retired in between and the table is full.
ExactlyOnce ==
    /\ TypeOK
    /\ \A s1, s2 \in 1..Through(db) :
        s1 < s2 /\ SameIdentity(log[s1], log[s2]) => ~(Executed(s1) /\ Executed(s2))

\* A retry of the same request never contradicts what an earlier slot answered:
\* it is told the same outcome, or that the request has expired.
RetriesAreStable ==
    \A s1, s2 \in 1..Through(db) :
        s1 < s2 /\ log[s1].kind = "Transaction" /\ log[s1] = log[s2] =>
            LET first == db.outcomes[s1]
                later == db.outcomes[s2]
            IN \/ later.kind = "Expired"
               \/ later = first
               \/ later.kind = first.kind
                    /\ first.kind \in {"Session_Limit", "Identity_Conflict"}

\* An optimistic transaction that applies has run on the rows it was previewed
\* on: no SQL executed in the slots from its revision to its own.
OptimisticIsolation ==
    \A s \in 1..Through(db) :
        log[s].kind = "Transaction" /\ log[s].read_version # 0 /\ Executed(s) =>
            \A t \in 1..s-1 : t >= log[s].read_version =>
                ~(log[t].kind \in {"Transaction", "Raw_SQL"} /\ Executed(t))
=============================================================================
