----------------------------- MODULE MCProcess -----------------------------
(* Small instances of Process for TLC. *)
EXTENDS Process, TLC

CONSTANTS p2, p3, d1, d2, d3

Symmetry == Permutations({p2, p3}) \cup Permutations({d1, d2, d3})
=============================================================================
