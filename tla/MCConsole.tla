----------------------------- MODULE MCConsole -----------------------------
(* Small instances of Console for TLC. *)
EXTENDS Console, TLC

CONSTANTS u1, u2, u3, k1, p1, s1

\* Three processes, interchangeable, and a kernel task.
UserTasks == {u1, u2, u3}
KernelTasks == {k1}
AllTasks == UserTasks \cup KernelTasks
Symmetry == Permutations(UserTasks)
=============================================================================
