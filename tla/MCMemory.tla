------------------------------ MODULE MCMemory ------------------------------
(* Small instances of Memory for TLC. *)
EXTENDS Memory, TLC

CONSTANTS a, b, x, y

Symmetry == Permutations({a, b}) \cup Permutations({x, y})

\* The kernel's own mappings lie in the middle; the first and the last page are
\* free, as they are in the code, so that the search wraps.
KernelPages == {2, 4}

\* Block 0 is never given out, the kernel and its modules lie in 1, 2 and 4.
KernelBlocks == {0, 1, 2, 4}
=============================================================================
