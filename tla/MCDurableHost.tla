--------------------------- MODULE MCDurableHost ---------------------------
(* A small instance of one host: two slots, a journal of three records.     *)
EXTENDS DurableHost
MCSkips == {1, 3}
=============================================================================
