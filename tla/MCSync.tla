------------------------------- MODULE MCSync -------------------------------
(* A small instance of Sync for TLC: two processes and a kernel task. *)
EXTENDS Sync

CONSTANTS u1, u2, k1, s1, m1

KernelTasks == {k1}
AllTasks == {u1, u2} \cup KernelTasks
=============================================================================
