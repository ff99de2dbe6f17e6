------------------------------ MODULE MCEngine ------------------------------
(* Small request alphabets for the engine.                                  *)
EXTENDS Engine
CONSTANTS k, s1, s2
MCKeys == {k}
MCSessions == {s1, s2}

Tx(s, n, e, v, op) ==
    [kind |-> "Transaction", session |-> s, sequence |-> n, epoch |-> e,
     read_version |-> v, body |-> [op |-> op, key |-> k]]
Raw(op) == [kind |-> "Raw_SQL", body |-> [op |-> op, key |-> k]]
Skip == [kind |-> "Skip"]
Retire(e) == [kind |-> "Session_Epoch", expected |-> e]

\* Statements that reject in every way, alone and inside sessions; retries,
\* gaps, reused identities, retirement and a full session table; optimistic
\* transactions previewed at several revisions.
MCRequests ==
    {Raw(op) : op \in {"insert", "rollback", "child", "delete"}}
    \cup {Tx(s1, 1, 0, 0, op) : op \in {"replace", "rollback", "child"}}
    \cup {Tx(s1, 2, 0, 0, "invalid"), Tx(s1, 1, 1, 0, "replace")}
    \cup {Tx(s2, 1, 0, v, "insert") : v \in 1..3}
    \cup {Tx(s2, 1, 0, 0, "denied"), Skip, Retire(0)}
=============================================================================
