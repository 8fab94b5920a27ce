------------------------ MODULE MCServerAssignments ------------------------
(* Values for TLC: three calls that race on the key of one server.         *)
EXTENDS ServerAssignments, TLC

CONSTANTS c1, c2, c3, a1, a2

MCCallers == {c1, c2, c3}
MCItems == {a1, a2}

Symmetry == Permutations(MCCallers) \cup Permutations(MCItems)
=============================================================================
