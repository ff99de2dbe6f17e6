--------------------------- MODULE MCQualification ---------------------------
(* Every campaign, with two operations wherever a script repeats them.       *)
EXTENDS Qualification
=============================================================================
