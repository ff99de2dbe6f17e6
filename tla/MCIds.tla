------------------------------- MODULE MCIds -------------------------------
(* Two hosts with the extreme node numbers, blocks of two ids and three    *)
(* milliseconds, so that blocks, milliseconds and the word run out.        *)
EXTENDS Ids
MCMembers == {1, 2}
=============================================================================
