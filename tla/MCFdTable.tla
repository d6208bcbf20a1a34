----------------------------- MODULE MCFdTable -----------------------------
(* Small instances of FdTable for TLC. *)
EXTENDS FdTable, TLC

CONSTANTS p2, t1, t2, e1, e2

Symmetry == Permutations({t1, t2}) \cup Permutations({e1, e2})
=============================================================================
