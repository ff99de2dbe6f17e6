------------------------------ MODULE MCDbApi ------------------------------
(* Two connections that share a database: one nests savepoints and runs      *)
(* batches of two statements, the other one commits a statement under it.    *)
(* The behaviours that start with a text only examine that text.             *)
EXTENDS DbApi, SqlText
CONSTANTS c1, c2
MCConns == {c1, c2}
MCNew == [c \in MCConns |-> IF c = c1 THEN 2 ELSE 1]
MCSavepoints == [c \in MCConns |-> IF c = c1 THEN 2 ELSE 0]
MCModes == [c \in MCConns |-> IF c = c1 THEN BOOLEAN ELSE {TRUE}]
MCOps == [c \in MCConns |-> 1]
MCSession == [c \in MCConns |-> IF c = c1 THEN 1 ELSE 2]
MCFollowers == {<<"w", "?">>, <<"w", ";">>, <<"w", "?", "--">>}
MCInit == Init /\ text \in Texts \cup {<<>>}
MCNext == text = <<>> /\ Next /\ UNCHANGED text
MCSpec == MCInit /\ [][MCNext]_<<vars, text>>
=============================================================================
