----------------------------- MODULE Allocator -----------------------------
(***************************************************************************)
(* What the kernel heap promises its callers (kernel/include/heap.h):      *)
(* pieces of memory that belong to one caller each until they are freed.   *)
(***************************************************************************)
EXTENDS Integers

CONSTANTS Address,  \* the addresses of the heap
          Length    \* the lengths callers ask for

VARIABLES live,     \* the pieces that have been handed out
          stopped   \* the machine has stopped

Piece == [start : Address, len : Length]

Bytes(p) == p.start..(p.start + p.len - 1)

Apart(p, q) == p.start # q.start /\ Bytes(p) \cap Bytes(q) = {}

Init == live = {} /\ ~stopped

\* A piece that overlaps no other.
Malloc ==
  \E p \in live' \ live :
    /\ p \in Piece
    /\ live' = live \cup {p}
    /\ \A q \in live : Apart(p, q)

Free == \E p \in live \ live' : live' = live \ {p}

\* A shrunk piece stays where it is, a grown one moves to memory that
\* overlaps neither the others nor its old self.
Realloc ==
  \E p \in live \ live', q \in live' \ live :
    /\ q \in Piece
    /\ live' = (live \ {p}) \cup {q}
    /\ \/ q.start = p.start /\ q.len <= p.len
       \/ q.len > p.len /\ \A o \in live : Apart(q, o)

Next ==
  /\ ~stopped
  /\ \/ (Malloc \/ Free \/ Realloc) /\ UNCHANGED stopped
     \/ stopped' /\ UNCHANGED live

Spec == Init /\ [][Next]_<<live, stopped>>
=============================================================================
