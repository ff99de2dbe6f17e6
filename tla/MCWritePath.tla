---------------------------- MODULE MCWritePath -----------------------------
(* One client that writes, retries and moves between two servers.          *)
EXTENDS WritePath
CONSTANTS c1, k
MCKeys == {k}
MCClients == {c1}
\* The second write is rejected if it inserts the key again.
MCBodies == <<{[op |-> "insert", key |-> k]},
              {[op |-> "insert", key |-> k], [op |-> "replace", key |-> k]}>>
=============================================================================
