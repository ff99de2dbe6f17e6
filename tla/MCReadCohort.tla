---------------------------- MODULE MCReadCohort ----------------------------
(* One server and two peers; two clients read while writes are decided.    *)
EXTENDS ReadCohort, TLC
CONSTANTS c1, c2
MCClients == {c1, c2}
MCOneClient == {c1}
MCSkips == {1}
NoSkips == {}
MCSymmetry == Permutations({c1, c2})
=============================================================================
