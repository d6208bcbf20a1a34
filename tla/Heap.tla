-------------------------------- MODULE Heap --------------------------------
(***************************************************************************)
(* The kernel heap, kernel/liballoc.c.                                     *)
(*                                                                         *)
(* Majors are runs of pages, kept in a list; minors are the allocations    *)
(* inside one, in the order of their addresses.  The kernel switches tasks *)
(* only where a task lets go of the processor, which the heap never does,  *)
(* so that each call, krealloc() with the calls it makes included, is one  *)
(* step.  Running out of memory stops the machine, and so do the failed    *)
(* assertions.                                                             *)
(***************************************************************************)
EXTENDS Integers, Sequences, FiniteSets, SequencesExt, FiniteSetsExt

CONSTANTS ALIGNMENT, ALIGN_INFO,
          MajorHeader,   \* sizeof(struct liballoc_major)
          MinorHeader,   \* sizeof(struct liballoc_minor)
          PageSize,      \* l_pageSize
          PageCount,     \* l_pageCount
          Frames,        \* the pages that physical memory provides
          Requests       \* the sizes that callers ask for

ASSUME HeapAssumption ==
  /\ \A n \in {ALIGNMENT, ALIGN_INFO, MajorHeader, MinorHeader, PageSize,
               PageCount, Frames} : n \in Nat \ {0}
  /\ PageCount <= Frames
  /\ Requests \subseteq Nat

VARIABLES
  heap,    \* the list from l_memRoot on, l_bestBet, l_allocated and l_inuse
  halted   \* the machine has stopped

heapVars == <<heap, halted>>

NULL == -1

-----------------------------------------------------------------------------
(* Majors and minors.                                                       *)

SetOf(seq) == {seq[i] : i \in DOMAIN seq}

\* The sum of a list of numbers.
Total(seq) ==
  LET sum[i \in 0..Len(seq)] == IF i = 0 THEN 0 ELSE sum[i - 1] + seq[i]
  IN sum[Len(seq)]

Size(maj) == maj.pages * PageSize

FreeBytes(maj) == Size(maj) - maj.usage

\* The distance from the end of a minor's header to the address ALIGN makes,
\* which ALIGN stores before that address and UNALIGN goes back.
Pad(addr) == ALIGN_INFO + ((-(addr + ALIGN_INFO)) % ALIGNMENT)

\* The pointer that kmalloc() returns and kfree() finds the minor from.
Pointer(maj, min) ==
  LET p == maj.base * PageSize + min.off + MinorHeader IN p + Pad(p)

IndexOf(majors, base) == CHOOSE i \in DOMAIN majors : majors[i].base = base

\* find_vspace() gives the first run of n free pages, which begins with the
\* address space or where a major ends.
find_vspace(majors, n) ==
  Min({b \in {0} \cup {m.base + m.pages : m \in SetOf(majors)} :
        \A m \in SetOf(majors) : b + n <= m.base \/ m.base + m.pages <= b})

\* The number of pages for a request.
PagesFor(size) ==
  LET st == size + MajorHeader + MinorHeader
      n == IF st % PageSize = 0 THEN st \div PageSize ELSE st \div PageSize + 1
  IN IF n < PageCount THEN PageCount ELSE n

allocate_new_page(majors, size) ==
  [base |-> find_vspace(majors, PagesFor(size)), pages |-> PagesFor(size),
   usage |-> MajorHeader, minors |-> << >>]

-----------------------------------------------------------------------------
(* kmalloc(): where does the request fit in a major?                        *)

\* The free space after the i-th minor; that before the first is CASE 3.
GapStart(maj, i) ==
  IF i = 0 THEN MajorHeader
  ELSE maj.minors[i].off + MinorHeader + maj.minors[i].size

GapEnd(maj, i) ==
  IF i = Len(maj.minors) THEN Size(maj) ELSE maj.minors[i + 1].off

\* CASE 1: not enough space in the whole major.
Insufficient(maj, size) == FreeBytes(maj) < size + MinorHeader

\* Mutant: counts the space for the data and not that for its header.
FitsWithoutHeader(maj, size) ==
  IF maj.minors = << >> THEN {0}
  ELSE {i \in 0..Len(maj.minors) : GapEnd(maj, i) - GapStart(maj, i) >= size}

\* CASE 2 takes an unused major as it is; CASES 3 and 4 look at the gaps.
Fits(maj, size) ==
  IF maj.minors = << >> THEN {0}
  ELSE {i \in 0..Len(maj.minors) :
          GapEnd(maj, i) - GapStart(maj, i) >= size + MinorHeader}

Suits(maj, size) == ~Insufficient(maj, size) /\ Fits(maj, size) # {}

\* What the cases do to the major they choose: the first gap is taken.
Insert(maj, size, req) ==
  LET i == Min(Fits(maj, size)) IN
  [maj EXCEPT
     !.usage = @ + size + MinorHeader,
     !.minors = InsertAt(@, i + 1,
                  [off |-> GapStart(maj, i), size |-> size, req |-> req])]

-----------------------------------------------------------------------------
(* kmalloc(): the walk over the majors.                                     *)

\* The free bytes of the best bet.
BetSize(h) ==
  IF h.bestBet = NULL THEN 0
  ELSE FreeBytes(h.majors[IndexOf(h.majors, h.bestBet)])

StartedBet(h, size) == h.bestBet # NULL /\ BetSize(h) > size + MinorHeader

UpFrom(h, i) == [k \in 1..(Len(h.majors) - i + 1) |-> h.majors[i + k - 1]]

\* Mutant: does not start over when the walk began at the best bet.
VisitsOnce(h, size) ==
  IF StartedBet(h, size) THEN UpFrom(h, IndexOf(h.majors, h.bestBet)) ELSE UpFrom(h, 1)

\* The majors in the order of the walk if none suits.
Visits(h, size) ==
  IF StartedBet(h, size)
  THEN UpFrom(h, IndexOf(h.majors, h.bestBet)) \o UpFrom(h, 1)
  ELSE UpFrom(h, 1)

\* l_bestBet after visiting these majors: the first of those with the most
\* free bytes, if they are more than it began with.
BetAfter(h, visited) ==
  LET better == {k \in DOMAIN visited :
                   /\ FreeBytes(visited[k]) > BetSize(h)
                   /\ \A j \in DOMAIN visited :
                        FreeBytes(visited[j]) <= FreeBytes(visited[k])}
  IN IF better = {} THEN h.bestBet ELSE visited[Min(better)].base

Padded(req) == req + ALIGNMENT + ALIGN_INFO

\* The positions of the walk that can take the request.
Hits(h, size) ==
  LET visits == Visits(h, size) IN {k \in DOMAIN visits : Suits(visits[k], size)}

\* A major that is on the list takes the request.
Placed(h, size, req) ==
  LET visits == Visits(h, size)
      k == Min(Hits(h, size))
      hit == IndexOf(h.majors, visits[k].base)
  IN [h EXCEPT !.majors[hit] = Insert(@, size, req),
               !.bestBet = BetAfter(h, SubSeq(visits, 1, k)),
               !.inuse = @ + size]

\* No major does, and a new one is appended to the list.  CASE 1 falls
\* through to CASE 2 with it; CASE 5 visits it as it did the others.
Extended(h, size, req) ==
  LET visits == Visits(h, size)
      new == allocate_new_page(h.majors, size)
      again == IF Insufficient(Last(h.majors), size) THEN << >> ELSE <<new>>
  IN [h EXCEPT !.majors = Append(@, Insert(new, size, req)),
               !.bestBet = BetAfter(h, visits \o again),
               !.allocated = @ + Size(new),
               !.inuse = @ + size]

\* Does liballoc_alloc() find enough physical memory for kmalloc(req)?
Enough(h, req) ==
  \/ Hits(h, Padded(req)) # {}
  \/ Total([i \in DOMAIN h.majors |-> h.majors[i].pages])
       + PagesFor(Padded(req)) <= Frames

Allocated(h, req) ==
  IF Hits(h, Padded(req)) # {} THEN Placed(h, Padded(req), req)
                               ELSE Extended(h, Padded(req), req)

-----------------------------------------------------------------------------
(* kfree().                                                                 *)

\* Every allocation, with its places in the lists.
Minors(h) ==
  UNION {{[maj |-> i, min |-> j] : j \in DOMAIN h.majors[i].minors}
         : i \in DOMAIN h.majors}

PointerOf(h, m) == Pointer(h.majors[m.maj], h.majors[m.maj].minors[m.min])

WithPointer(h, p) == CHOOSE m \in Minors(h) : PointerOf(h, m) = p

\* Mutant: frees an empty major and forgets that it was the best bet.
ReleasedBet(h, i) ==
  [h EXCEPT !.majors = RemoveAt(@, i), !.allocated = @ - Size(h.majors[i])]

\* Mutant: keeps a major whose last minor is freed.
ReleasedKept(h, i) == h

\* The clean-up of a major that has become empty.
Released(h, i) ==
  [h EXCEPT !.majors = RemoveAt(@, i),
            !.bestBet = IF @ = h.majors[i].base THEN NULL ELSE @,
            !.allocated = @ - Size(h.majors[i])]

\* Mutant: the header of the minor stays in the usage of its major.
UnlinkedKeepsHeader(h, m) ==
  LET size == h.majors[m.maj].minors[m.min].size IN
  [h EXCEPT !.majors[m.maj].minors = RemoveAt(@, m.min),
            !.majors[m.maj].usage = @ - size,
            !.inuse = @ - size]

\* Mutant: the header of the minor leaves l_inuse, which never held it.
UnlinkedFromInUse(h, m) ==
  LET size == h.majors[m.maj].minors[m.min].size IN
  [h EXCEPT !.majors[m.maj].minors = RemoveAt(@, m.min),
            !.majors[m.maj].usage = @ - (size + MinorHeader),
            !.inuse = @ - (size + MinorHeader)]

\* The minor leaves its major.
Unlinked(h, m) ==
  LET size == h.majors[m.maj].minors[m.min].size IN
  [h EXCEPT !.majors[m.maj].minors = RemoveAt(@, m.min),
            !.majors[m.maj].usage = @ - (size + MinorHeader),
            !.inuse = @ - size]

Freed(h, p) ==
  LET m == WithPointer(h, p)
      u == Unlinked(h, m)
      maj == u.majors[m.maj]
  IN IF maj.minors = << >> THEN Released(u, m.maj)
     ELSE [u EXCEPT !.bestBet = IF @ # NULL /\ FreeBytes(maj) > BetSize(u)
                                THEN maj.base ELSE @]

-----------------------------------------------------------------------------
(* The calls.                                                               *)

Halt == halted' = TRUE /\ UNCHANGED heap

\* kmalloc() and kcalloc(), which clears what kmalloc() returns.
kmalloc(req) ==
  /\ heap.majors # << >>
  /\ Enough(heap, req)
  /\ heap' = Allocated(heap, req)
  /\ UNCHANGED halted

\* The assertion that l_memRoot is not NULL, and the halt of liballoc_alloc().
kmalloc_fails(req) ==
  /\ heap.majors = << >> \/ ~Enough(heap, req)
  /\ Halt

kfree(p) ==
  /\ heap' = Freed(heap, p)
  /\ UNCHANGED halted

\* Mutant: grows in place as far as the padding goes.
krealloc_into_padding(p, size) ==
  LET m == WithPointer(heap, p) IN
  /\ size # 0
  /\ size <= heap.majors[m.maj].minors[m.min].size
  /\ heap' = [heap EXCEPT !.majors[m.maj].minors[m.min].req = size]
  /\ UNCHANGED halted

\* krealloc() that does not grow; with size 0 it is kfree().
krealloc_in_place(p, size) ==
  LET m == WithPointer(heap, p) IN
  /\ size # 0
  /\ size <= heap.majors[m.maj].minors[m.min].req
  /\ heap' = [heap EXCEPT !.majors[m.maj].minors[m.min].req = size]
  /\ UNCHANGED halted

\* krealloc() that grows: kmalloc(), memcpy() and kfree().
krealloc_moves(p, size) ==
  LET m == WithPointer(heap, p) IN
  /\ size > heap.majors[m.maj].minors[m.min].req
  /\ IF Enough(heap, size)
     THEN heap' = Freed(Allocated(heap, size), p) /\ UNCHANGED halted
     ELSE Halt

-----------------------------------------------------------------------------
\* liballoc_init().
HeapInit ==
  LET new == allocate_new_page(<< >>, ALIGNMENT + ALIGN_INFO) IN
  /\ heap = [majors |-> <<new>>, bestBet |-> NULL,
             allocated |-> Size(new), inuse |-> 0]
  /\ halted = FALSE

Pointers == {PointerOf(heap, m) : m \in Minors(heap)}

HeapNext ==
  /\ ~halted
  /\ \/ \E req \in Requests : kmalloc(req)
     \/ \E req \in Requests : kmalloc_fails(req)
     \/ \E p \in Pointers : kfree(p)
     \/ \E p \in Pointers, size \in Requests : krealloc_in_place(p, size)
     \/ \E p \in Pointers, size \in Requests : krealloc_moves(p, size)

HeapSpec == HeapInit /\ [][HeapNext]_heapVars
-----------------------------------------------------------------------------
(* Properties.                                                              *)

Minor == [off : Nat, size : Nat, req : Nat]
Major == [base : Nat, pages : Nat, usage : Nat, minors : Seq(Minor)]

\* The lists and counters have the types that the code declares.
HeapTypeOK ==
  /\ heap \in [majors : Seq(Major), bestBet : Nat \cup {NULL},
               allocated : Nat, inuse : Nat]
  /\ halted \in BOOLEAN

\* The bytes of a minor, header included, as offsets into its major.
Extent(min) == min.off..(min.off + MinorHeader + min.size - 1)

\* What a caller may use, with the information ALIGN keeps before it.
Used(maj, min) ==
  LET p == Pointer(maj, min) - maj.base * PageSize IN
  (p - ALIGN_INFO)..(p + min.req - 1)

\* Whatever the order of kmalloc(), kfree() and krealloc(): minors lie inside
\* their major, behind its header, in order and without overlap, and what the
\* caller was given is aligned and lies inside the minor, behind the header.
\* The headers, the lists and all data are then safe from kfree()'s memset().
MinorsApart ==
  \A maj \in SetOf(heap.majors) :
    /\ \A j \in DOMAIN maj.minors :
         LET min == maj.minors[j] IN
         /\ Extent(min) \subseteq MajorHeader..(Size(maj) - 1)
         /\ Used(maj, min) \subseteq Extent(min) \ min.off..(min.off + MinorHeader - 1)
         /\ Pointer(maj, min) % ALIGNMENT = 0
    /\ \A j \in 1..(Len(maj.minors) - 1) :
         Max(Extent(maj.minors[j])) < maj.minors[j + 1].off

\* The bytes in the minors of a major, without the headers.
InMinors(maj) == Total([j \in DOMAIN maj.minors |-> maj.minors[j].size])

\* The counters that kmalloc() decides by agree with the lists: a usage that
\* drifts up makes space unusable, one that drifts down ends in CASE 2 with a
\* minor that does not fit.
AccountsExact ==
  /\ \A maj \in SetOf(heap.majors) :
       maj.usage = MajorHeader + InMinors(maj) + Len(maj.minors) * MinorHeader
  /\ heap.inuse = Total([i \in DOMAIN heap.majors |-> InMinors(heap.majors[i])])
  /\ heap.allocated = Total([i \in DOMAIN heap.majors |-> Size(heap.majors[i])])

\* l_bestBet, which kmalloc() reads before it looks at the list, never points
\* to a major that kfree() has given back.
BestBetOnList ==
  heap.bestBet # NULL => \E maj \in SetOf(heap.majors) : maj.base = heap.bestBet

\* Memory goes back to the system with the last allocation in it: a major
\* without minors is the one that liballoc_init() made and nobody has used.
EmptyMajorIsFirst ==
  \A i \in DOMAIN heap.majors : heap.majors[i].minors = << >> => i = 1

\* kmalloc() takes pages from the system only when no major has a gap that is
\* large enough, although the walk may begin in the middle of the list.
GrowsOnlyWhenFull ==
  [][Len(heap'.majors) > Len(heap.majors) =>
       \A maj \in SetOf(heap.majors) :
         \A i \in 0..Len(maj.minors) :
           GapEnd(maj, i) - GapStart(maj, i)
             < Last(heap'.majors).minors[1].size + MinorHeader]_heapVars

\* The pieces of memory that callers own.
LiveIn(h) ==
  {[start |-> PointerOf(h, m), len |-> h.majors[m.maj].minors[m.min].req]
   : m \in Minors(h)}

Abstract == INSTANCE Allocator
  WITH live <- LiveIn(heap), stopped <- halted,
       Address <- Nat, Length <- Requests

\* The heap is an allocator: a call changes the pieces of its caller only, and
\* a new piece, that of a growing krealloc() included, overlaps no other.
ImplementsAllocator == Abstract!Spec

\* What kmalloc() decides by is right after every call: the counters, the best
\* bet, and which majors have been given back.
BooksExact == HeapTypeOK /\ AccountsExact /\ BestBetOnList /\ EmptyMajorIsFirst
=============================================================================
