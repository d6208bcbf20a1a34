------------------------------- MODULE Vspace -------------------------------
(***************************************************************************)
(* The kernel's virtual address space: find_vspace() of kernel/vmm.c and   *)
(* the system call helpers of kernel/syscall.c that map user pages into    *)
(* what it finds.                                                          *)
(*                                                                         *)
(* Addresses are counted in pages and wrap as 32 bit addresses do.  No     *)
(* switch happens between a find and its mapping.  The failure path of     *)
(* map_userspace_to_kernel() prints before it cleans up, so that another   *)
(* task may run there when the UART is busy.                               *)
(***************************************************************************)
EXTENDS Integers, FiniteSets, FiniteSetsExt

CONSTANTS Task,
          Pages,      \* pages in the address space, 2^20 in the code
          Boot,       \* pages in use since boot
          MaxBlocks   \* the largest request, in pages

ASSUME VspaceAssumption ==
  /\ Pages \in Nat /\ MaxBlocks \in 1..(Pages - 1)
  /\ Boot \subseteq 0..(Pages - 1)

VARIABLES
  page,    \* the entries of kernel_directory's page tables
  job,     \* what each task has mapped, or is about to clean up
  delayed  \* history: a cleanup has been delayed by a task switch

vspaceVars == <<page, job, delayed>>

Page == 0..(Pages - 1)

-----------------------------------------------------------------------------
(* find_vspace().                                                           *)

\* The n pages from s on, as the address arithmetic reaches them.
Region(s, n) == {(s + k) % Pages : k \in 0..(n - 1)}

\* Mutant: looks at the first page only.
RunLengthUnchecked(pg, i, n) == n

\* The inner loop: how far the free pages from i on reach, at most n.
RunLength(pg, i, n) ==
  Min({k \in 1..n : k = n \/ pg[(i + k) % Pages] # "FREE"})

\* Mutant: skips the size of the request after a region that is too small.
FindStartSkips(pg, n) ==
  LET Search[i \in 1..(Pages + MaxBlocks)] ==
        IF i >= Pages THEN -1
        ELSE IF pg[i] # "FREE" THEN Search[i + 1]
        ELSE IF RunLength(pg, i, n) = n THEN i
        ELSE Search[i + n]
  IN Search[1]

\* The outer loop over the pages from 1 on; -1 when it finds nothing.  No caller
\* tests for that: the address it stands for is not aligned, and the assertion
\* of map_page() or map_userspace_to_kernel() stops the kernel.
FindStart(pg, n) ==
  LET Search[i \in 1..(Pages + MaxBlocks)] ==
        IF i >= Pages THEN -1
        ELSE IF pg[i] # "FREE" THEN Search[i + 1]
        ELSE IF RunLength(pg, i, n) = n THEN i
        ELSE Search[i + RunLength(pg, i, n) + 1]
  IN Search[1]

\* The loop that marks the region stops at the wrapped end address.
Reserve(pg, s, n) ==
  [p \in Page |-> IF s <= p /\ p < (s + n) % Pages THEN "RESERVED" ELSE pg[p]]

-----------------------------------------------------------------------------
(* The users.  A job is a region that a task holds.                         *)

NoJob == [stage |-> "none", start |-> 0, blocks |-> 0]

Set(pg, pages, value) == [p \in Page |-> IF p \in pages THEN value ELSE pg[p]]

\* find_vspace() and then all pages mapped: syscall_read(), syscall_write()
\* and, for longer, the heap and the kernel stacks.
MapRegion(t, n) ==
  LET s == FindStart(page, n) IN
  /\ job[t] = NoJob
  /\ s # -1
  /\ page' = Set(Reserve(page, s, n), Region(s, n), "PRESENT")
  /\ job' = [job EXCEPT ![t] = [stage |-> "mapped", start |-> s, blocks |-> n]]
  /\ UNCHANGED delayed

\* Mutant: clears one page too many.
unmap_from_kernel_past_end(t) ==
  /\ job[t].stage = "mapped"
  /\ page' = Set(page, Region(job[t].start, job[t].blocks + 1), "FREE")
  /\ job' = [job EXCEPT ![t] = NoJob]
  /\ UNCHANGED delayed

unmap_from_kernel(t) ==
  /\ job[t].stage = "mapped"
  /\ page' = Set(page, Region(job[t].start, job[t].blocks), "FREE")
  /\ job' = [job EXCEPT ![t] = NoJob]
  /\ UNCHANGED delayed

\* The pages after map_userspace_to_kernel() met a bad user page at index i:
\* the ones before it are mapped, its own has been cleared.
FailedAt(s, n, i) ==
  Set(Set(Reserve(page, s, n), Region(s, i), "PRESENT"), {(s + i) % Pages}, "FREE")

\* The cleanup clears the pages up to the first free one, and the copy
\* functions then clear all of them.
CleanUp(pg, s, n) ==
  LET free == {k \in 0..(n - 1) : pg[(s + k) % Pages] = "FREE"}
      first == IF free = {} THEN n ELSE Min(free)
  IN Set(pg, Region(s, first), "FREE")

CopyCleanUp(pg, s, n) == Set(pg, Region(s, n), "FREE")

\* The failure path when nothing switches: read() and write() first, then
\* copy_from_userspace() and copy_to_userspace().
MapFails(t, n, i) ==
  LET s == FindStart(page, n) IN
  /\ job[t] = NoJob
  /\ s # -1
  /\ \/ page' = CleanUp(FailedAt(s, n, i), s, n)
     \/ page' = CopyCleanUp(FailedAt(s, n, i), s, n)
  /\ UNCHANGED <<job, delayed>>

\* The failure path when its printf() switches to another task.
MapFailsPrinting(t, n, i) ==
  LET s == FindStart(page, n) IN
  /\ job[t] = NoJob
  /\ s # -1
  /\ page' = FailedAt(s, n, i)
  /\ job' = [job EXCEPT ![t] = [stage |-> "failing", start |-> s, blocks |-> n]]
  /\ delayed' = TRUE

CleanUpLate(t) ==
  LET s == job[t].start
      n == job[t].blocks IN
  /\ job[t].stage = "failing"
  /\ \/ page' = CleanUp(page, s, n)
     \/ page' = CopyCleanUp(page, s, n)
  /\ job' = [job EXCEPT ![t] = NoJob]
  /\ UNCHANGED delayed

-----------------------------------------------------------------------------
Init ==
  /\ page = [p \in Page |-> IF p \in Boot THEN "PRESENT" ELSE "FREE"]
  /\ job = [t \in Task |-> NoJob]
  /\ delayed = FALSE

Next ==
  \E t \in Task :
    \/ \E n \in 1..MaxBlocks :
         \/ MapRegion(t, n)
         \/ \E i \in 0..(n - 1) : MapFails(t, n, i) \/ MapFailsPrinting(t, n, i)
    \/ unmap_from_kernel(t)
    \/ CleanUpLate(t)

Spec == Init /\ [][Next]_vspaceVars

-----------------------------------------------------------------------------
(* Properties.                                                              *)

\* Types of the page table entries of vmm.c and of the regions of its callers.
VspaceTypeOK ==
  /\ page \in [Page -> {"FREE", "RESERVED", "GUARD", "PRESENT"}]
  /\ job \in [Task -> [stage: {"none", "mapped", "failing"}, start: Page,
                       blocks: 0..MaxBlocks]]
  /\ delayed \in BOOLEAN

Mapped == {t \in Task : job[t].stage = "mapped"}
RegionOf(t) == Region(job[t].start, job[t].blocks)

\* No page is handed out while somebody uses it (find_vspace() finds free
\* address space, the comment of vmm.c:268), unless the cleanup of a failed
\* mapping was delayed.
RegionsDisjoint ==
  ~delayed => \A t, u \in Mapped : t # u => RegionOf(t) \cap RegionOf(u) = {}

\* The kernel's own mappings survive every system call, also when a delayed
\* cleanup works on what other tasks made of its pages; the mapping of a system
\* call stays until its owner removes it, unless a cleanup was delayed.
MappingsStay ==
  /\ \A p \in Boot : page[p] = "PRESENT"
  /\ ~delayed => \A t \in Mapped : \A p \in RegionOf(t) : page[p] = "PRESENT"

\* The starts of the free regions of n pages; one at the top of the address
\* space goes on at page 0, which is free in the code.
Candidates(pg, n) ==
  {s \in 1..(Pages - 1) : \A p \in Region(s, n) : pg[p] = "FREE"}

\* The search with its skips returns the lowest region, and fails exactly when
\* there is none.  It then returns -1 (vmm.c:317); that its comment and its
\* callers expect 0 is what FailureIsZero is about.
FindsFirstFit ==
  \A n \in 1..MaxBlocks :
    FindStart(page, n) = IF Candidates(page, n) = {} THEN -1
                         ELSE Min(Candidates(page, n))

\* find_vspace() "returns 0 in case of failure" (vmm.c:271), which its callers
\* test for (syscall.c:88, 112 and 166, vmm.c:121, task.c:18): a system call that
\* finds no space for its pages would fail.
FailureIsZero ==
  \A n \in 1..MaxBlocks : Candidates(page, n) = {} => FindStart(page, n) = 0
=============================================================================
