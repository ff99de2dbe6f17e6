----------------------------- MODULE MCSnapshot -----------------------------
EXTENDS Snapshot, TLC

Symmetry == Permutations(Node)
=============================================================================
