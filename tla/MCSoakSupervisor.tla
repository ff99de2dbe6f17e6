--------------------------- MODULE MCSoakSupervisor --------------------------
(* One host, with the three starts of a campaign that has one fault.         *)
EXTENDS SoakSupervisor
=============================================================================
