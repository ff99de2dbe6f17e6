----------------------------- MODULE WritePath ------------------------------
(***************************************************************************)
(* A write from the client library to its answer: the Python connection    *)
(* (src/languages/python/src/sqlodin/client.py) with its single pending    *)
(* write, retries and failover; the servers' connections                   *)
(* (src/service/requests.odin, write_batch.odin, server.odin) that admit,  *)
(* re-propose, answer and time out; the slots consensus decides; and the   *)
(* engine's request table, which is module Engine's.                       *)
(*                                                                         *)
(* A client that gives up on a server leaves a connection behind on which  *)
(* the server goes on working, so one request may be in several slots, at  *)
(* several servers, long after the client was told its result.  Consensus  *)
(* is abstracted to slots that are decided with the value proposed in them *)
(* or, when they are revoked, with a no-op (see MultiMaster).              *)
(***************************************************************************)
EXTENDS Integers, Sequences, FiniteSets

CONSTANTS
    N,                      \* servers 1..N
    Operator,               \* the server an operator retires sessions through
    Clients, Keys,
    Bodies,                 \* Bodies[q]: the SQL a client may submit as its q-th write
    MAX_CONNECTIONS,        \* client connections of one server
    CHUNK,                  \* durable.CHUNK: the most writes of one batch
    WINDOW,                 \* slots a server may propose above its applied prefix
    MAX_REQUEST_SESSIONS,
    None,
    MaxSlot,                \* bound on slots
    MaxSequence,            \* bound on the writes of one client
    MaxAttempts             \* bound on the attempts of one client

Servers == 1..N
Connections == 0..MAX_CONNECTIONS - 1
Slots == 1..MaxSlot

ASSUME WriteAssumption ==
    /\ N \in Nat \ {0} /\ Operator \in 1..N /\ MAX_CONNECTIONS \in Nat \ {0}
    /\ CHUNK \in Nat \ {0} /\ WINDOW \in Nat \ {0}
    /\ MaxSlot \in Nat /\ MaxSequence \in Nat /\ MaxAttempts \in Nat
    /\ MAX_REQUEST_SESSIONS \in Nat

Skip == [kind |-> "Skip"]
Retire == [kind |-> "Session_Epoch", expected |-> 0]

VARIABLES
    proposed,       \* proposed[s]: the value its owner offers in slot s
    chosen,         \* chosen[s]: the decision of slot s
    applied,        \* applied[n]: contiguous applied prefix of server n
    connection,     \* connection[n][i]: None, or a pending write
    write_cursor,   \* write_cursor[n]
    client,         \* client[c]: the library's Connection object
    result          \* history: result[c][q] is what the q-th write returned

slots == <<proposed, chosen, applied>>
vars == <<slots, connection, write_cursor, client, result>>

PendingWrites ==
    [kind : {"Transaction"}, session : Clients, sequence : 1..MaxSequence,
     epoch : Nat, read_version : {0}, body : UNION {Bodies[q] : q \in 1..MaxSequence}]

\* The answers to a proposed write that _resolve takes as final; on any other
\* the write stays pending.  Invalid_Request and Unsupported also end a write,
\* under an unused sequence number, but a server gives them only to a malformed
\* request, before it proposes anything: none of Bodies is one.
FinalCodes == {"Applied", "Constraint", "Policy", "Sequence_Gap", "Invalid_SQL", "Conflict"}

\* Type correctness.
TypeOK ==
    /\ proposed \in [Slots -> PendingWrites \cup {Retire, None}]
    /\ chosen \in [Slots -> PendingWrites \cup {Skip, Retire, None}]
    /\ applied \in [Servers -> 0..MaxSlot]
    /\ connection \in [Servers -> [Connections ->
                         [value : PendingWrites, slot : 0..MaxSlot] \cup {None}]]
    /\ write_cursor \in [Servers -> Connections]
    /\ client \in [Clients -> [sequence : 1..MaxSequence + 1, epoch : Nat \cup {-1},
                               index : 0..N - 1, attempts : 0..MaxAttempts,
                               pending : PendingWrites \cup {None},
                               at : (Servers \X Connections) \cup {None}]]
    /\ result \in [Clients -> [1..MaxSequence -> FinalCodes \cup {None}]]

Init ==
    /\ proposed = [s \in Slots |-> None] /\ chosen = [s \in Slots |-> None]
    /\ applied = [n \in Servers |-> 0]
    /\ connection = [n \in Servers |-> [i \in Connections |-> None]]
    /\ write_cursor = [n \in Servers |-> 0]
    /\ client = [c \in Clients |-> [sequence |-> 1, epoch |-> -1, index |-> 0, attempts |-> 0,
                                 pending |-> None, at |-> None]]
    /\ result = [c \in Clients |-> [q \in 1..MaxSequence |-> None]]

-----------------------------------------------------------------------------
\* The decided prefix of the log, and the engine that executes it.
DecidedThrough == CHOOSE m \in 0..MaxSlot :
    /\ \A s \in 1..m : chosen[s] # None
    /\ m < MaxSlot => chosen[m + 1] = None

Log == [s \in 1..DecidedThrough |-> chosen[s]]

E == INSTANCE Engine WITH
        Sessions <- Clients, Requests <- PendingWrites \cup {Skip, Retire},
        MAX_APPLICATION_GROUP <- 1,
        log <- Log, db <- None, synced <- None, fallback <- 0

\* Bodies hold SQL; None is the absence of a write, of a connection, of a place
\* to wait at, of a decision and of an answer.
ASSUME ValueAssumption ==
    /\ \A q \in 1..MaxSequence : Bodies[q] \subseteq E!Statements
    /\ None \notin PendingWrites \cup [value : PendingWrites, slot : 0..MaxSlot]
                   \cup (Servers \X Connections) \cup {Skip, Retire} \cup FinalCodes

\* The outcome recorded for slot s (every replica records the same: Engine,
\* GroupingIsInvisible).
Outcome(s) == E!Reference[s].outcomes[s]

\* Slot s executed its request, rather than answering from the request table.
Executed(s) == LET out == Outcome(s) IN out.kind = "Applied" /\ out.slot = s

owner_of(s) == ((s - 1) % N) + 1

\* Mutant of OwnFree: slots that already carry a proposal are offered again.
OwnFreeReused(n) ==
    {s \in Slots : /\ owner_of(s) = n /\ chosen[s] = None
                   /\ s > applied[n] /\ s <= applied[n] + WINDOW}

\* The own slots a server may still propose in, in order: above those it has
\* used and inside the window.
OwnFree(n) ==
    {s \in Slots :
        /\ owner_of(s) = n /\ s > applied[n] /\ s <= applied[n] + WINDOW
        /\ \A t \in Slots : owner_of(t) = n /\ t >= s =>
              proposed[t] = None /\ chosen[t] = None}

\* The k-th smallest slot of S.
Nth(S, k) == CHOOSE s \in S : Cardinality({t \in S : t <= s}) = k

-----------------------------------------------------------------------------
\* The client's Connection: execute reads the session epoch once, through a
\* fresh quorum barrier, and makes the write pending under the next sequence.
execute(c) ==
    /\ client[c].pending = None /\ client[c].sequence <= MaxSequence
    /\ \E body \in Bodies[client[c].sequence] :
       LET epoch == IF client[c].epoch # -1 THEN client[c].epoch
                    ELSE E!Reference[DecidedThrough].epoch
       IN client' = [client EXCEPT
             ![c].epoch = epoch,
             ![c].pending = [kind |-> "Transaction", session |-> c,
                             sequence |-> client[c].sequence, epoch |-> epoch,
                             read_version |-> 0, body |-> body]]
    /\ UNCHANGED <<slots, connection, write_cursor, result>>

\* _call: one attempt at the current endpoint, which dispatches it on a free
\* connection.  resolve_pending after UnknownOutcome or SessionError makes
\* attempts too.
Attempt(c, i) ==
    /\ client[c].pending # None /\ client[c].at = None /\ client[c].attempts < MaxAttempts
    /\ LET n == client[c].index + 1 IN
       /\ connection[n][i] = None
       /\ connection' = [connection EXCEPT ![n][i] = [value |-> client[c].pending, slot |-> 0]]
       /\ client' = [client EXCEPT ![c].at = <<n, i>>, ![c].attempts = @ + 1]
    /\ UNCHANGED <<slots, write_cursor, result>>

\* An attempt that is not answered, or answered with an error that is worth a
\* retry, makes the client close its transport and turn to the next endpoint.
NextEndpoint(c) == [client[c] EXCEPT !.at = None, !.index = (@ + 1) % N]

\* The attempt's deadline passes or its link fails; the server's connection
\* goes on without a reader.
GiveUp(c) ==
    /\ client[c].at # None
    /\ client' = [client EXCEPT ![c] = NextEndpoint(c)]
    /\ UNCHANGED <<slots, connection, write_cursor, result>>

Readers(n, i) == {c \in Clients : client[c].at = <<n, i>>}

\* Mutant of Resolved: every answer ends the write.
ResolvedAlways(c, code) ==
    [client[c] EXCEPT !.at = None, !.pending = None, !.sequence = @ + 1]

\* _call and _resolve on the answer to the attempt: Busy and Unknown_Outcome
\* are retried at the next endpoint; a final code ends the write and advances
\* the sequence; a session error leaves it pending.
Resolved(c, code) ==
    IF code \in {"Busy", "Unknown_Outcome"} THEN NextEndpoint(c)
    ELSE IF code \in FinalCodes
    THEN [client[c] EXCEPT !.at = None, !.pending = None, !.sequence = @ + 1]
    ELSE [client[c] EXCEPT !.at = None]

\* The server answers connection i with a code and frees it.
respond(n, i, code) ==
    /\ connection' = [connection EXCEPT ![n][i] = None]
    /\ client' = [c \in Clients |-> IF c \in Readers(n, i) THEN Resolved(c, code) ELSE client[c]]
    /\ result' = [c \in Clients |->
                    IF c \in Readers(n, i) /\ code \in FinalCodes
                    THEN [result[c] EXCEPT ![client[c].sequence] = code]
                    ELSE result[c]]

-----------------------------------------------------------------------------
Waiting(n) == {i \in Connections : connection[n][i] # None /\ connection[n][i].slot = 0}
Offset(n, i) == (i - write_cursor[n] + MAX_CONNECTIONS) % MAX_CONNECTIONS

\* The place of a waiting connection in the order from the cursor.
Rank(n, i) == Cardinality({j \in Waiting(n) : Offset(n, j) <= Offset(n, i)})

\* The writes admit_writes collects: those in line, up to the size of its arrays.
Collected(n) == LET waiting == Cardinality(Waiting(n)) IN
                IF waiting < CHUNK THEN waiting ELSE CHUNK

\* The batch sizes it tries: all it has collected, then half as many, ...
Halvings(k) == {j \in 1..k : \E h \in 0..k : j = k \div (2^h)}

\* admit_writes: propose the largest batch that fits the window.
admit_writes(n) ==
    /\ Waiting(n) # {}
    /\ LET fits == {k \in Halvings(Collected(n)) : k <= Cardinality(OwnFree(n))} IN
       /\ fits # {}
       /\ \E count \in fits :
            /\ \A k \in fits : k <= count
            /\ LET batch == {i \in Waiting(n) : Rank(n, i) <= count}
                   slot(i) == Nth(OwnFree(n), Rank(n, i))
               IN /\ connection' = [connection EXCEPT ![n] =
                        [i \in Connections |-> IF i \in batch
                                               THEN [@[i] EXCEPT !.slot = slot(i)]
                                               ELSE @[i]]]
                  /\ proposed' = [s \in Slots |->
                        IF \E i \in batch : slot(i) = s
                        THEN connection[n][CHOOSE i \in batch : slot(i) = s].value
                        ELSE proposed[s]]
                  /\ \E last \in batch : /\ Rank(n, last) = count
                                         /\ write_cursor' = [write_cursor EXCEPT
                                               ![n] = (last + 1) % MAX_CONNECTIONS]
    /\ UNCHANGED <<chosen, applied, client, result>>

\* admit_writes under history-space pressure: the first in line is refused.
RefuseWrite(n) ==
    /\ \E i \in Waiting(n) :
         /\ Rank(n, i) = 1
         /\ respond(n, i, "Busy")
         /\ write_cursor' = [write_cursor EXCEPT ![n] = (i + 1) % MAX_CONNECTIONS]
    /\ UNCHANGED slots

\* session_request: an operator retires all sessions through one of the servers,
\* which proposes it at once.  The bound is one retirement.
session_request ==
    /\ OwnFree(Operator) # {} /\ \A t \in Slots : Retire \notin {proposed[t], chosen[t]}
    /\ proposed' = [proposed EXCEPT ![Nth(OwnFree(Operator), 1)] = Retire]
    /\ UNCHANGED <<chosen, applied, connection, write_cursor, client, result>>

\* Consensus decides a slot: with the value proposed in it or, if it was
\* revoked or never used, with a no-op.
Decide(s) ==
    /\ chosen[s] = None
    /\ \/ chosen' = [chosen EXCEPT ![s] = Skip]
       \/ proposed[s] # None /\ chosen' = [chosen EXCEPT ![s] = proposed[s]]
    /\ UNCHANGED <<proposed, applied, connection, write_cursor, client, result>>

Apply(n) ==
    /\ applied[n] < DecidedThrough
    /\ applied' = [applied EXCEPT ![n] = @ + 1]
    /\ UNCHANGED <<proposed, chosen, connection, write_cursor, client, result>>

\* Mutant of poll_write: the slot alone is taken for an acknowledgement.
PollSlotOnly(n, i) ==
    /\ connection[n][i] # None
    /\ LET slot == connection[n][i].slot IN
       /\ slot # 0 /\ slot <= applied[n]
       /\ respond(n, i, Outcome(slot).kind)
    /\ UNCHANGED <<slots, write_cursor>>

\* poll_write on a connection whose slot is applied: answer with the slot's
\* outcome if the slot holds this very value ...
poll_write(n, i) ==
    /\ connection[n][i] # None
    /\ LET slot == connection[n][i].slot IN
       /\ slot # 0 /\ slot <= applied[n]
       /\ chosen[slot] = connection[n][i].value
       /\ respond(n, i, Outcome(slot).kind)
    /\ UNCHANGED <<slots, write_cursor>>

\* ... and otherwise, the slot having been displaced, propose it again.
poll_write_again(n, i) ==
    /\ connection[n][i] # None
    /\ LET slot == connection[n][i].slot IN
       /\ slot # 0 /\ slot <= applied[n]
       /\ chosen[slot] # connection[n][i].value
    /\ OwnFree(n) # {}
    /\ LET s == Nth(OwnFree(n), 1) IN
       /\ proposed' = [proposed EXCEPT ![s] = connection[n][i].value]
       /\ connection' = [connection EXCEPT ![n][i].slot = s]
    /\ UNCHANGED <<chosen, applied, write_cursor, client, result>>

\* drive_connection: the request's timeout.
Timeout(n, i) ==
    /\ connection[n][i] # None
    /\ respond(n, i, IF connection[n][i].slot = 0 THEN "Busy" ELSE "Unknown_Outcome")
    /\ UNCHANGED <<slots, write_cursor>>

\* A server restarts: its connections are gone, and with them the proposals
\* that had not passed the barrier.
Restart(n) ==
    /\ \E i \in Connections : connection[n][i] # None
    /\ connection' = [connection EXCEPT ![n] = [i \in Connections |-> None]]
    /\ client' = [c \in Clients |->
                    IF \E i \in Connections : client[c].at = <<n, i>>
                    THEN NextEndpoint(c) ELSE client[c]]
    /\ write_cursor' = [write_cursor EXCEPT ![n] = 0]
    /\ \E lost \in SUBSET {s \in Slots : owner_of(s) = n /\ proposed[s] # None /\ chosen[s] = None} :
          proposed' = [s \in Slots |-> IF s \in lost THEN None ELSE proposed[s]]
    /\ UNCHANGED <<chosen, applied, result>>

Next ==
    \/ \E c \in Clients : execute(c)
    \/ \E c \in Clients, i \in Connections : Attempt(c, i)
    \/ \E c \in Clients : GiveUp(c)
    \/ \E n \in Servers : admit_writes(n) \/ RefuseWrite(n) \/ Apply(n) \/ Restart(n)
    \/ session_request
    \/ \E s \in Slots : Decide(s)
    \/ \E n \in Servers, i \in Connections :
          poll_write(n, i) \/ poll_write_again(n, i) \/ Timeout(n, i)

Spec == Init /\ [][Next]_vars

-----------------------------------------------------------------------------
\* The slots that executed the q-th write of client c.
Executions(c, q) ==
    {s \in 1..DecidedThrough :
        /\ chosen[s].kind = "Transaction" /\ chosen[s].session = c
        /\ chosen[s].sequence = q /\ Executed(s)}

\* What the library returns is the truth, and stays the truth: a write that
\* returned a result has executed exactly once, a write that was rejected has
\* not executed and never will, although copies of it may still be waiting,
\* proposed or displaced at other servers.
ResultsAreTrue ==
    \A c \in Clients, q \in 1..MaxSequence :
        /\ result[c][q] = "Applied" => Cardinality(Executions(c, q)) = 1
        /\ result[c][q] \in FinalCodes \ {"Applied"} => Executions(c, q) = {}

\* Client order: a write executes only in a slot above those that executed the
\* client's earlier writes, and not before the earlier ones have their results.
WritesInOrder ==
    \A c \in Clients, q \in 2..MaxSequence :
        \A s \in Executions(c, q) :
            /\ result[c][q - 1] # None
            /\ \A t \in Executions(c, q - 1) : t < s

\* Pending writes and slots stay paired: a connection that was proposed for
\* holds a slot of its own server, which no other connection holds and in which
\* that server offers this very value.  So a batch cut short by the window, a
\* second proposal after a displacement or a reused connection never leaves a
\* client waiting for the answer to somebody else's write.
SlotsBackConnections ==
    /\ TypeOK
    /\ \A n \in Servers, i \in Connections :
        connection[n][i] # None /\ connection[n][i].slot # 0 =>
            LET s == connection[n][i].slot IN
            /\ owner_of(s) = n
            /\ proposed[s] = connection[n][i].value
            /\ \A j \in Connections \ {i} :
                  connection[n][j] # None => connection[n][j].slot # s
=============================================================================
