-------------------------------- MODULE DbApi --------------------------------
(***************************************************************************)
(* Transactions of the Python package: DB-API connections (dbapi.py) and   *)
(* buffered batches (transaction.py) over native connections (client.py),  *)
(* against what the service promises them.  A connection keeps its work as *)
(* a list of statements, previews it at the revision its transaction began *)
(* at and submits it as one body under a session and sequence number; the  *)
(* service runs a body at most once and only at the revision it names.     *)
(* Replies get lost: a body may be applied long after its caller gave up.  *)
(*                                                                         *)
(* A statement is a name of its own and toggles the row of that name, so   *)
(* that the database is the set of statements it has seen an odd number of *)
(* times.  Texts and parameters are module SqlText.                        *)
(***************************************************************************)
EXTENDS Integers, Sequences, FiniteSets, SequencesExt, History

CONSTANTS
    Conns,           \* connections of the application
    Names,           \* savepoint names
    None,            \* no pending write, no call
    MAX_STATEMENTS,  \* statements of one body (eight)
    MaxNew,          \* statements the application makes on each connection
    MaxSavepoints,   \* open savepoints it nests on each connection
    Modes,           \* autocommit settings it uses on each connection
    MaxOps,          \* operations of each connection that enter the history
    MaxSession,      \* sessions of each connection
    MaxEpoch

ASSUME DbApiAssumption ==
    /\ MAX_STATEMENTS \in Nat \ {0} /\ MaxNew \in [Conns -> Nat]
    /\ MaxSavepoints \in [Conns -> Nat] /\ Modes \in [Conns -> (SUBSET BOOLEAN) \ {{}}]
    /\ MaxOps \in [Conns -> Nat] /\ MaxSession \in [Conns -> Nat \ {0}] /\ MaxEpoch \in Nat

VARIABLES
    \* the service
    db,              \* rows that are active
    revision,        \* the optimistic revision
    epoch,           \* the session epoch
    rows,            \* last request of every session of this epoch, with its outcome
    requests,        \* bodies on their way to the service, for ever
    \* the native connection
    session, sequence, pending, session_epoch,
    \* the DB-API connection
    version,         \* _version, 0 for None
    statements, savepoints, failed, autocommit, closed,
    call,            \* the call in progress
    \* what the application asked for and what it was told
    created,         \* statements it has made
    frames,          \* its transaction as nested savepoints
    fate,            \* what it knows of each statement
    op,              \* its current operation, for the history
    history

service == <<db, revision, epoch, rows, requests>>
native == <<session, sequence, pending, session_epoch>>
dbapi == <<version, statements, savepoints, failed, autocommit, closed>>
app == <<created, frames, fate, op, history>>
vars == <<service, native, dbapi, call, app>>

Stmts == UNION {{c} \X (1..MaxNew[c]) : c \in Conns}
Sessions == UNION {{c} \X (1..MaxSession[c]) : c \in Conns}
NoRow == [sequence |-> 0, outcome |-> "None"]
NoOp == [before |-> {}, observed |-> NoRead, after |-> NoRead]
Base == <<[name |-> None, work |-> <<>>]>>

Frames == [name : Names \cup {None}, work : Seq(Stmts)]
PendingWrites == [session : Sessions, sequence : Nat \ {0}, epoch : 0..MaxEpoch,
                  version : Nat, body : Seq(Stmts)]
Calls == [kind : {"query", "write", "many", "commit", "commitmany", "batch", "resolve"},
          left : 0..2, before : Seq(Stmts), nest : Seq(Frames)]
Ids == Conns \X (Nat \ {0})
Reads == (SUBSET Stmts) \cup {NoRead}
Operations == [before : SUBSET Ids, observed : Reads, after : Reads]

\* None is the absence of a write, of a call, of an operation and of a name.
ASSUME ValueAssumption == None \notin PendingWrites \cup Calls \cup Operations \cup Names

\* The statements of a nest of savepoints, outermost first.
Work(nest) == FlattenSeq([i \in 1..Len(nest) |-> nest[i].work])

\* Rows a statement list leaves active.
After(state, list) ==
    Toggle(state, {s \in Range(list) : Cardinality({i \in 1..Len(list) : list[i] = s}) % 2 = 1})

Init ==
    /\ db = {} /\ revision = 1 /\ epoch = 0
    /\ rows = [s \in Sessions |-> NoRow] /\ requests = {}
    /\ session = [c \in Conns |-> 1] /\ sequence = [c \in Conns |-> 1]
    /\ pending = [c \in Conns |-> None] /\ session_epoch = [c \in Conns |-> -1]
    /\ version = [c \in Conns |-> 0] /\ statements = [c \in Conns |-> <<>>]
    /\ savepoints = [c \in Conns |-> <<>>] /\ failed = [c \in Conns |-> FALSE]
    /\ autocommit = [c \in Conns |-> FALSE \notin Modes[c]] /\ closed = [c \in Conns |-> FALSE]
    /\ call = [c \in Conns |-> None]
    /\ created = [c \in Conns |-> 0] /\ frames = [c \in Conns |-> Base]
    /\ fate = [s \in Stmts |-> "new"] /\ op = [c \in Conns |-> None]
    /\ history = {}

-----------------------------------------------------------------------------
\* The service, as far as the package can tell (modules Engine and WritePath):
\* a body runs at most once, in the order of its session, and an optimistic one
\* only at the revision it was previewed at.
Apply(p) ==
    /\ p.epoch = epoch /\ p.sequence = rows[p.session].sequence + 1
    /\ LET stale == p.version \notin {0, revision} IN
       /\ rows' = [rows EXCEPT ![p.session] =
                     [sequence |-> p.sequence,
                      outcome |-> IF stale THEN "Conflict" ELSE "Applied"]]
       /\ db' = IF stale THEN db ELSE After(db, p.body)
       /\ revision' = IF stale THEN revision ELSE revision + 1
    /\ UNCHANGED <<epoch, requests, native, dbapi, call, app>>

\* retire_sessions by an operator: the epoch's session rows are reclaimed.
retire_sessions ==
    /\ epoch < MaxEpoch
    /\ epoch' = epoch + 1 /\ rows' = [s \in DOMAIN rows |-> NoRow]
    /\ revision' = revision + 1
    /\ UNCHANGED <<db, requests, native, dbapi, call, app>>

-----------------------------------------------------------------------------
Idle(c) == call[c] = None

\* Connection._ready: closed, unresolved and aborted connections refuse.
_ready(c) == ~closed[c] /\ pending[c] = None /\ ~failed[c]

\* Connection._clear.
_clear(c) ==
    /\ version' = [version EXCEPT ![c] = 0]
    /\ statements' = [statements EXCEPT ![c] = <<>>]
    /\ savepoints' = [savepoints EXCEPT ![c] = <<>>]
    /\ failed' = [failed EXCEPT ![c] = FALSE]

\* What the application knows: these statements, if they were undecided, have
\* been given this verdict.
Settle(some, verdict) ==
    fate' = [s \in Stmts |->
               IF s \in some /\ fate[s] \in {"new", "open"} THEN verdict ELSE fate[s]]

\* The first call of a transaction starts an operation of the history.
StartOp(c) ==
    op' = IF op[c] # None THEN op
          ELSE [op EXCEPT ![c] = [NoOp EXCEPT !.before = {h.id : h \in history}]]

Finished(c) == {h \in history : h.id[1] = c}
MayStart(c) == op[c] # None \/ Cardinality(Finished(c)) < MaxOps[c]

EndOp(c, list) ==
    LET o == IF op[c] = None THEN NoOp ELSE op[c] IN
    /\ history' = history \cup {[id |-> <<c, Cardinality(Finished(c)) + 1>>, before |-> o.before,
                                 observed |-> o.observed, after |-> o.after,
                                 toggled |-> Range(list)]}
    /\ op' = [op EXCEPT ![c] = None]

AbandonOp(c) == op' = [op EXCEPT ![c] = None] /\ UNCHANGED history

-----------------------------------------------------------------------------
\* Mutant of _begin: every call asks for a read version of its own.
BeginAgain(c) ==
    /\ version' = [version EXCEPT ![c] = revision]
    /\ session_epoch' = [session_epoch EXCEPT ![c] = IF @ = -1 THEN epoch ELSE @]

\* Connection._begin: the read version is asked for once a transaction, and a
\* connection keeps the first session epoch it hears of.
_begin(c) ==
    /\ version' = [version EXCEPT ![c] = IF @ = 0 THEN revision ELSE @]
    /\ session_epoch' = [session_epoch EXCEPT ![c] = IF @ = -1 THEN epoch ELSE @]

\* The request for it fails: the transaction is aborted, an autocommit call
\* leaves nothing behind.
BeginFails(c) ==
    /\ Idle(c) /\ _ready(c) /\ version[c] = 0 /\ ~autocommit[c]
    /\ failed' = [failed EXCEPT ![c] = TRUE]
    /\ UNCHANGED <<service, native, version, statements, savepoints, autocommit, closed, call, app>>

\* Cursor.execute and executemany (two sets of parameters) up to their first
\* preview; every parameter set is a statement of its own.
Execute(c, kind) ==
    /\ Idle(c) /\ _ready(c) /\ MayStart(c)
    /\ kind = "query" => ~autocommit[c]
    /\ LET left == CASE kind = "query" -> 0 [] kind = "write" -> 1 [] OTHER -> 2 IN
       /\ created[c] + left <= MaxNew[c]
       /\ call' = [call EXCEPT ![c] = [kind |-> kind, left |-> left,
                                       before |-> statements[c], nest |-> frames[c]]]
    /\ _begin(c) /\ StartOp(c)
    /\ UNCHANGED <<service, session, sequence, pending, statements, savepoints, failed,
                   autocommit, closed, created, frames, fate, history>>

\* A query of an autocommit connection is a linearizable read of its own.
QueryAutocommit(c) ==
    /\ Idle(c) /\ _ready(c) /\ autocommit[c] /\ op[c] = None /\ MayStart(c)
    /\ history' = history \cup {[id |-> <<c, Cardinality(Finished(c)) + 1>>,
                                 before |-> {h.id : h \in history},
                                 observed |-> db, after |-> NoRead, toggled |-> {}]}
    /\ UNCHANGED <<service, native, dbapi, call, created, frames, fate, op>>

Executing(c) == call[c] # None /\ call[c].kind \in {"query", "write", "many"}

\* The statement a write adds.
New(c) == IF call[c].kind = "query" THEN <<>> ELSE <<<<c, created[c] + 1>>>>

\* The body submitted under the next identity of the session.
Write(c, list, ver) ==
    [session |-> <<c, session[c]>>, sequence |-> sequence[c], epoch |-> session_epoch[c],
     version |-> ver, body |-> list]

\* _execute_prepared: the write is pending before its first byte is sent.
_execute_prepared(c, w, kind) ==
    /\ pending' = [pending EXCEPT ![c] = w]
    /\ requests' = requests \cup {w}
    /\ call' = [call EXCEPT ![c] = [kind |-> kind, left |-> 0,
                                    before |-> <<>>, nest |-> Base]]

\* A preview that succeeded, with the rest of the call: a query returns, a write
\* becomes part of the transaction, the last write of an autocommit call is
\* submitted at once.
Previewed(c) ==
    /\ Executing(c) /\ version[c] = revision
    /\ Len(statements[c] \o New(c)) <= MAX_STATEMENTS
    /\ LET list == statements[c] \o New(c)
           last == call[c].left <= 1
           seen == After(db, list)
       IN
       /\ statements' = [statements EXCEPT ![c] = list]
       /\ frames' = [frames EXCEPT ![c][Len(frames[c])].work = @ \o New(c)]
       /\ created' = [created EXCEPT ![c] = @ + Len(New(c))]
       /\ Settle(Range(New(c)), "open")
       /\ op' = IF call[c].kind # "query" THEN [op EXCEPT ![c].after = NoRead]
                ELSE IF list = <<>> /\ op[c].observed = NoRead
                     THEN [op EXCEPT ![c].observed = seen] ELSE [op EXCEPT ![c].after = seen]
       /\ IF last /\ autocommit[c] /\ call[c].kind # "query"
          THEN _execute_prepared(c, Write(c, list, version[c]),
                                 IF call[c].kind = "many" THEN "commitmany" ELSE "commit")
          ELSE /\ call' = [call EXCEPT ![c] =
                             IF last THEN None ELSE [call[c] EXCEPT !.left = @ - 1]]
               /\ UNCHANGED <<pending, requests>>
    /\ UNCHANGED <<db, revision, epoch, rows, session, sequence, session_epoch, version,
                   savepoints, failed, autocommit, closed, history>>

\* A call that raises: an autocommit transaction is over; otherwise the
\* statement never was, executemany takes back the ones before it, and a lost
\* version or connection aborts the transaction.
Raise(c, fails) ==
    /\ IF autocommit[c]
       THEN /\ _clear(c)
            /\ frames' = [frames EXCEPT ![c] = Base]
            /\ Settle(Range(statements[c] \o New(c)), "gone")
            /\ AbandonOp(c)
       ELSE /\ statements' = [statements EXCEPT ![c] =
                                IF call[c].kind = "many" THEN call[c].before ELSE @]
            /\ frames' = [frames EXCEPT ![c] = call[c].nest]
            /\ Settle(Range(statements[c] \o New(c)) \ Range(call[c].before), "gone")
            /\ failed' = [failed EXCEPT ![c] = @ \/ fails]
            /\ UNCHANGED <<version, savepoints, op, history>>
    /\ created' = [created EXCEPT ![c] = @ + Len(New(c))]
    /\ call' = [call EXCEPT ![c] = None]
    /\ UNCHANGED <<service, native, autocommit, closed>>

\* The preview fails for good: the deadline passes, or the revision moved.
Aborted(c) ==
    /\ Executing(c)
    /\ Raise(c, TRUE)

\* The service refuses the statement, or the client does: the body is too long,
\* a parameter has no encoding.  (A refusal before _begin changes nothing.)
Refused(c) ==
    /\ Executing(c)
    /\ Raise(c, FALSE)

-----------------------------------------------------------------------------
\* Savepoints are marks in the statement list.
savepoint(c, name) ==
    /\ Idle(c) /\ _ready(c) /\ ~autocommit[c] /\ MayStart(c)
    /\ Len(savepoints[c]) < MaxSavepoints[c]
    /\ _begin(c) /\ StartOp(c)
    /\ savepoints' = [savepoints EXCEPT ![c] =
                        Append(@, [name |-> name, at |-> Len(statements[c])])]
    /\ frames' = [frames EXCEPT ![c] = Append(@, [name |-> name, work |-> <<>>])]
    /\ UNCHANGED <<service, session, sequence, pending, statements, failed, autocommit,
                   closed, call, created, fate, history>>

\* _savepoint_index: the innermost mark of that name.
_savepoint_index(list, name) ==
    CHOOSE i \in 1..Len(list) :
        list[i].name = name /\ \A j \in i+1..Len(list) : list[j].name # name

Marks(list, name) == \E i \in 1..Len(list) : list[i].name = name

\* Mutant of rollback_savepoint: the savepoint itself is forgotten too.
RollbackForgets(c, name) ==
    /\ Idle(c) /\ _ready(c) /\ Marks(savepoints[c], name)
    /\ LET mark == _savepoint_index(savepoints[c], name)
           frame == _savepoint_index(frames[c], name)
           keep == savepoints[c][mark].at
       IN
       /\ statements' = [statements EXCEPT ![c] = SubSeq(@, 1, keep)]
       /\ savepoints' = [savepoints EXCEPT ![c] = SubSeq(@, 1, mark - 1)]
       /\ Settle(Range(statements[c]) \ Range(statements'[c]), "gone")
       /\ frames' = [frames EXCEPT ![c] =
                       Append(SubSeq(@, 1, frame - 1), [@[frame] EXCEPT !.work = <<>>])]
    /\ op' = [op EXCEPT ![c].after = NoRead]
    /\ UNCHANGED <<service, native, version, failed, autocommit, closed, call, created, history>>

\* The nested transaction starts over and stays open; inner ones are gone.
rollback_savepoint(c, name) ==
    /\ Idle(c) /\ _ready(c) /\ Marks(savepoints[c], name)
    /\ LET mark == _savepoint_index(savepoints[c], name)
           frame == _savepoint_index(frames[c], name)
           keep == savepoints[c][mark].at
       IN
       /\ statements' = [statements EXCEPT ![c] = SubSeq(@, 1, keep)]
       /\ savepoints' = [savepoints EXCEPT ![c] = SubSeq(@, 1, mark)]
       /\ Settle(Range(statements[c]) \ Range(statements'[c]), "gone")
       /\ frames' = [frames EXCEPT ![c] =
                       Append(SubSeq(@, 1, frame - 1), [@[frame] EXCEPT !.work = <<>>])]
    /\ op' = [op EXCEPT ![c].after = NoRead]
    /\ UNCHANGED <<service, native, version, failed, autocommit, closed, call, created, history>>

\* The nested transaction becomes part of the one around it.
release_savepoint(c, name) ==
    /\ Idle(c) /\ _ready(c) /\ Marks(savepoints[c], name)
    /\ LET mark == _savepoint_index(savepoints[c], name)
           frame == _savepoint_index(frames[c], name)
       IN
       /\ savepoints' = [savepoints EXCEPT ![c] = SubSeq(@, 1, mark - 1)]
       /\ frames' = [frames EXCEPT ![c] =
            Append(SubSeq(@, 1, frame - 2),
                   [frames[c][frame - 1] EXCEPT
                      !.work = @ \o Work(SubSeq(frames[c], frame, Len(frames[c])))])]
    /\ UNCHANGED <<service, native, version, statements, failed, autocommit, closed, call,
                   created, fate, op, history>>

SetAutocommit(c) ==
    /\ Idle(c) /\ _ready(c) /\ version[c] = 0 /\ ~autocommit[c] \in Modes[c]
    /\ autocommit' = [autocommit EXCEPT ![c] = ~@]
    /\ UNCHANGED <<service, native, version, statements, savepoints, failed, closed, call, app>>

-----------------------------------------------------------------------------
\* Connection.commit: nothing to submit for a transaction that wrote nothing.
commit(c) ==
    /\ Idle(c) /\ _ready(c)
    /\ IF statements[c] = <<>>
       THEN /\ _clear(c)
            /\ frames' = [frames EXCEPT ![c] = Base]
            /\ IF op[c] = None THEN UNCHANGED <<op, history>> ELSE EndOp(c, <<>>)
            /\ UNCHANGED <<pending, requests, call>>
       ELSE /\ _execute_prepared(c, Write(c, statements[c], version[c]), "commit")
            /\ UNCHANGED <<version, statements, savepoints, failed, frames, op, history>>
    /\ UNCHANGED <<db, revision, epoch, rows, session, sequence, session_epoch, autocommit,
                   closed, created, fate>>

\* Transaction.__exit__ (and Connection.execute) of a native connection: a
\* buffered batch of new statements, without a read version.
Batch(c) ==
    /\ Idle(c) /\ _ready(c) /\ version[c] = 0 /\ MayStart(c) /\ op[c] = None
    /\ created[c] + MAX_STATEMENTS <= MaxNew[c]
    /\ session_epoch' = [session_epoch EXCEPT ![c] = IF @ = -1 THEN epoch ELSE @]
    /\ LET list == [i \in 1..MAX_STATEMENTS |-> <<c, created[c] + i>>] IN
       /\ _execute_prepared(c, [Write(c, list, 0) EXCEPT !.epoch = session_epoch'[c]], "batch")
       /\ created' = [created EXCEPT ![c] = @ + MAX_STATEMENTS]
       /\ Settle(Range(list), "open")
    /\ StartOp(c)
    /\ UNCHANGED <<db, revision, epoch, rows, session, sequence, dbapi, frames, history>>

\* resolve_pending repeats the very same request.
resolve_pending(c) ==
    /\ Idle(c) /\ ~closed[c] /\ pending[c] # None
    /\ _execute_prepared(c, pending[c], "resolve")
    /\ UNCHANGED <<db, revision, epoch, rows, session, sequence, session_epoch, dbapi, app>>

Commits == {"commit", "commitmany"}
Submitted(c) == call[c] # None /\ call[c].kind \in Commits \cup {"batch", "resolve"}

\* What the service answers to a pending write.
Code(p) ==
    IF p.epoch # epoch THEN "Expired"
    ELSE IF rows[p.session].sequence = p.sequence THEN rows[p.session].outcome ELSE "None"

\* A commit that raises aborts the DB-API transaction; an autocommit call also
\* clears it, unless the outcome is open.  executemany puts the statements back
\* that were there before it: none, in autocommit mode.
CommitRaises(c, open) ==
    IF call[c].kind \notin Commits THEN UNCHANGED <<version, statements, savepoints, failed, frames>>
    ELSE IF autocommit[c] /\ ~open
         THEN _clear(c) /\ frames' = [frames EXCEPT ![c] = Base]
         ELSE /\ failed' = [failed EXCEPT ![c] = TRUE]
              /\ statements' = IF call[c].kind = "commit" THEN statements
                               ELSE [statements EXCEPT ![c] = <<>>]
              /\ UNCHANGED <<version, savepoints, frames>>

\* Mutant of Resolves: an expired session ends the write as a conflict does.
ResolvesExpired(code) == code \in {"Applied", "Conflict", "Expired"}

\* The codes that end a write; Expired leaves it pending.  Invalid_Request and
\* Unsupported, which end it under an unused sequence number, are given to a
\* malformed request only, before anything is proposed (see WritePath).
Resolves(code) == code \in {"Applied", "Conflict"}

\* _resolve: the answer to a pending write.
_resolve(c) ==
    /\ Submitted(c) /\ Code(pending[c]) # "None"
    /\ LET p == pending[c]
           code == Code(p)
       IN
       /\ IF Resolves(code)
          THEN /\ pending' = [pending EXCEPT ![c] = None]
               /\ sequence' = [sequence EXCEPT ![c] = @ + 1]
          ELSE UNCHANGED <<pending, sequence>>
       /\ IF code = "Applied"
          THEN /\ Settle(Range(p.body), "done") /\ EndOp(c, p.body)
               /\ IF call[c].kind \in Commits
                  THEN _clear(c) /\ frames' = [frames EXCEPT ![c] = Base]
                  ELSE UNCHANGED <<version, statements, savepoints, failed, frames>>
          ELSE /\ CommitRaises(c, ~Resolves(code))
               /\ IF Resolves(code) THEN Settle(Range(p.body), "gone") /\ AbandonOp(c)
                  ELSE UNCHANGED <<fate, op, history>>
    /\ call' = [call EXCEPT ![c] = None]
    /\ UNCHANGED <<service, session, session_epoch, autocommit, closed, created>>

\* The deadline passes first: UnknownOutcome.
UnknownOutcome(c) ==
    /\ Submitted(c)
    /\ CommitRaises(c, TRUE)
    /\ call' = [call EXCEPT ![c] = None]
    /\ UNCHANGED <<service, native, autocommit, closed, created, fate, op, history>>

-----------------------------------------------------------------------------
\* What a transaction leaves behind that is not in doubt.
Undone(c) == Range(statements[c]) \ (IF pending[c] = None THEN {} ELSE Range(pending[c].body))

\* rollback accepts an aborted transaction, but not an unresolved one.
MayRollback(c) == ~closed[c] /\ pending[c] = None

rollback(c) ==
    /\ Idle(c) /\ MayRollback(c) /\ (version[c] # 0 \/ failed[c])
    /\ _clear(c)
    /\ frames' = [frames EXCEPT ![c] = Base]
    /\ Settle(Range(statements[c]), "gone") /\ AbandonOp(c)
    /\ UNCHANGED <<service, native, autocommit, closed, call, created>>

close(c) ==
    /\ Idle(c) /\ ~closed[c]
    /\ _clear(c)
    /\ closed' = [closed EXCEPT ![c] = TRUE]
    /\ frames' = [frames EXCEPT ![c] = Base]
    /\ Settle(Undone(c), "gone")
    /\ IF pending[c] = None THEN AbandonOp(c) ELSE UNCHANGED <<op, history>>
    /\ UNCHANGED <<service, native, autocommit, call, created>>

\* A new connection after a close or after the application's process died,
\* either for a saved pending write (from_json) or with a session of its own.
Reconnect(c, keep) ==
    /\ IF keep THEN Idle(c) /\ pending[c] # None
       ELSE session[c] < MaxSession[c]
    /\ _clear(c)
    /\ closed' = [closed EXCEPT ![c] = FALSE]
    /\ call' = [call EXCEPT ![c] = None]
    /\ frames' = [frames EXCEPT ![c] = Base]
    /\ Settle(Undone(c), "gone")
    /\ IF keep THEN UNCHANGED <<native, op, history>>
       ELSE /\ session' = [session EXCEPT ![c] = @ + 1]
            /\ sequence' = [sequence EXCEPT ![c] = 1]
            /\ pending' = [pending EXCEPT ![c] = None]
            /\ session_epoch' = [session_epoch EXCEPT ![c] = -1]
            /\ AbandonOp(c)
    /\ UNCHANGED <<service, autocommit, created>>

Next ==
    \/ \E p \in requests : Apply(p)
    \/ retire_sessions
    \/ \E c \in Conns :
         \/ \E kind \in {"query", "write", "many"} : Execute(c, kind)
         \/ QueryAutocommit(c) \/ BeginFails(c) \/ Previewed(c) \/ Aborted(c) \/ Refused(c)
         \/ \E name \in Names : \/ savepoint(c, name) \/ rollback_savepoint(c, name)
                                \/ release_savepoint(c, name)
         \/ SetAutocommit(c) \/ commit(c) \/ Batch(c) \/ resolve_pending(c)
         \/ _resolve(c) \/ UnknownOutcome(c)
         \/ rollback(c) \/ close(c)
         \/ \E keep \in BOOLEAN : Reconnect(c, keep)

Spec == Init /\ [][Next]_vars

-----------------------------------------------------------------------------
\* Type correctness.
TypeOK ==
    /\ db \subseteq Stmts /\ revision \in Nat \ {0} /\ epoch \in 0..MaxEpoch
    /\ rows \in [Sessions -> [sequence : Nat, outcome : {"None", "Applied", "Conflict"}]]
    /\ requests \subseteq PendingWrites /\ \A p \in requests : p.version <= revision
    /\ session \in [Conns -> Nat] /\ \A c \in Conns : <<c, session[c]>> \in Sessions
    /\ sequence \in [Conns -> Nat \ {0}] /\ pending \in [Conns -> requests \cup {None}]
    /\ session_epoch \in [Conns -> -1..MaxEpoch]
    /\ version \in [Conns -> 0..revision] /\ statements \in [Conns -> Seq(Stmts)]
    /\ savepoints \in [Conns -> Seq([name : Names, at : Nat])]
    /\ failed \in [Conns -> BOOLEAN] /\ autocommit \in [Conns -> BOOLEAN]
    /\ closed \in [Conns -> BOOLEAN] /\ call \in [Conns -> Calls \cup {None}]
    /\ created \in [Conns -> Nat] /\ frames \in [Conns -> Seq(Frames)]
    /\ fate \in [Stmts -> {"new", "open", "done", "gone"}]
    /\ op \in [Conns -> Operations \cup {None}]
    /\ IsFiniteSet(history) /\ \A h \in history : h.id \in Ids

\* Marks in a flat statement list are nested transactions: whatever mixture of
\* savepoints of equal names, releases, rollbacks and failing calls, a usable
\* transaction holds exactly the work of its open nested transactions, and what
\* it would submit has been rolled back nowhere.
SavepointsNest ==
    /\ TypeOK
    /\ \A c \in Conns : _ready(c) /\ Idle(c) =>
        /\ statements[c] = Work(frames[c])
        /\ [i \in 1..Len(savepoints[c]) |-> savepoints[c][i].name]
             = [i \in 1..Len(frames[c]) - 1 |-> frames[c][i + 1].name]
        /\ \A s \in Range(statements[c]) : fate[s] = "open"

\* The application is told the truth: a statement of a transaction that was
\* reported committed is in the database, and one that was reported rolled back,
\* failed or conflicting is not and never will be, although requests are applied
\* after their callers gave up, processes die and sessions are retired.
FatesAreTrue ==
    \A s \in Stmts : /\ fate[s] = "done" => s \in db
                     /\ fate[s] \in {"new", "gone"} => s \notin db

\* The operations that returned have a serial order that respects real time and
\* explains every row they saw, ending in the state a later read finds: the
\* assertion of the history campaign can only fail on a wrong answer.
HistoryExplained ==
    (\A p \in requests : \A s \in Range(p.body) : fate[s] # "open") =>
        serial_history({}, history \cup
            {[id |-> <<None, 0>>, before |-> {h.id : h \in history}, observed |-> db,
              after |-> NoRead, toggled |-> {}]})
=============================================================================
