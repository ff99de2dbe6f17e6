--------------------------- MODULE MCMultiMaster ---------------------------
(* One contended slot, owned by node 1; other nodes revoke it.             *)
EXTENDS MultiMaster
CONSTANT a
MCSlots == {1}
MCValues == {a}
MCBallots == {0, 2, 3}
=============================================================================
