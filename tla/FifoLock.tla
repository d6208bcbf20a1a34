------------------------------ MODULE FifoLock ------------------------------
(***************************************************************************)
(* What mutex_t promises its callers: a lock is a line of tasks.  A task   *)
(* joins the end of the line when it asks for the lock, the first of the   *)
(* line owns it, and only the owner leaves, handing the lock to the next.  *)
(***************************************************************************)
EXTENDS Sequences, Functions

CONSTANTS Task, Mutex

VARIABLE line

Init == line = [m \in Mutex |-> <<>>]

Join(t, m) ==
  /\ t \notin Range(line[m])
  /\ line' = [line EXCEPT ![m] = Append(@, t)]

Leave(m) ==
  /\ line[m] # <<>>
  /\ line' = [line EXCEPT ![m] = Tail(@)]

Next == \E m \in Mutex : Leave(m) \/ \E t \in Task : Join(t, m)

Spec == Init /\ [][Next]_line
=============================================================================
