------------------------------- MODULE Memory -------------------------------
(***************************************************************************)
(* Physical blocks (kernel/pmm.c) together with the kernel pages that map  *)
(* them (Vspace): heap areas, kernel stacks, page directories and tables,  *)
(* user memory, and buffers for devices, whose page has the number of      *)
(* their block.                                                            *)
(*                                                                         *)
(* The block map lies in blocks that are used from boot on, which holds up *)
(* to 128 MB of memory (kmain.c:309 marks a quarter of a larger map).      *)
(* After a delayed cleanup (see Vspace) a page may no longer be its        *)
(* owner's; the steps of this module end there and those of Vspace go on.  *)
(***************************************************************************)
EXTENDS Vspace

CONSTANTS Client,      \* whoever holds memory for longer than a system call
          Blocks,      \* block_map_size
          Word,        \* blocks in a word of the block map, 32 in the code
          MaxDma,      \* the largest request for consecutive blocks
          BootBlocks,  \* the blocks used since boot
          KStack       \* KSTACK_SIZE, in pages

\* Only the searches for consecutive blocks are bounded by a word: longer runs
\* would be skipped in another way.  The drivers ask dma_malloc() for a page at
\* a time, nobody asks pmm_alloc_blocks() for more than a block; the requests
\* for pages, up to MaxBlocks, go beyond it (framebuffer.c:22, syscall.c:607).
ASSUME MemoryAssumption ==
  /\ Blocks \in 1..Pages /\ Word \in Nat
  /\ MaxDma \in 1..MaxBlocks /\ MaxDma < Word
  /\ BootBlocks \subseteq 0..(Blocks - 1) /\ 0 \in BootBlocks
  /\ KStack \in 3..MaxBlocks

VARIABLES
  used,   \* the blocks whose bit in block_map is set
  grant   \* what each client holds

memoryVars == <<used, grant>>
allVars == <<vspaceVars, memoryVars>>

-----------------------------------------------------------------------------
(* The searches.  Only whole words are looked at; 0 says that there is      *)
(* nothing, -1 that an assertion stops the kernel.                          *)

Block == 0..(Blocks - 1)
Words == Blocks \div Word

pmm_find_first_free(u) ==
  LET free == (0..(Words * Word - 1)) \ u
  IN IF free = {} THEN 0 ELSE Min(free)

\* How many good blocks there are from b on, at most n; -1 when they reach
\* the end of memory.
GoodRun(good, b, n) ==
  LET bad == {k \in 0..(n - 1) : b + k < Blocks => b + k \notin good}
  IN IF bad = {} THEN n
     ELSE IF b + Min(bad) < Blocks THEN Min(bad) ELSE -1

\* The nested loops over words and bits, where bit j of word i is block
\* i * Word + j: a run that is too short is skipped, together with the block
\* that ends it, up to the next word.
SearchBlocks(good, n) ==
  LET Search[b \in 0..(Words * Word)] ==
        LET run == GoodRun(good, b, n)
            nextWord == (b \div Word + 1) * Word
        IN IF b = Words * Word THEN 0
           ELSE IF run = n THEN b
           ELSE IF run = -1 THEN -1
           ELSE Search[IF b + run + 1 < nextWord THEN b + run + 1 ELSE nextWord]
  IN Search[0]

pmm_find_region(u, n) ==
  IF n = 1 THEN pmm_find_first_free(u)
  ELSE SearchBlocks(Block \ u, n)

\* Mutant: looks at the block map only.
vmm_find_dma_region_unmapped(u, pg, n) == SearchBlocks(Block \ u, n)

vmm_find_dma_region(u, pg, n) ==
  SearchBlocks({b \in Block \ u : pg[b] = "FREE"}, n)

\* The n blocks that as many calls of pmm_alloc_blocks(1) take.
pmm_alloc_each(u, n) ==
  LET Taken[k \in 0..n] ==
        IF k = 0 THEN {} ELSE Taken[k - 1] \cup {pmm_find_region(u \cup Taken[k - 1], 1)}
  IN Taken[n]

-----------------------------------------------------------------------------
(* Who holds memory.                                                        *)

NoGrant == [kind |-> "none", start |-> 0, pages |-> 0, blocks |-> {}]

Grant(c, kind, s, n, blocks) ==
  /\ grant[c] = NoGrant
  /\ grant' = [grant EXCEPT
                 ![c] = [kind |-> kind, start |-> s, pages |-> n, blocks |-> blocks]]
  /\ used' = used \cup blocks
  /\ UNCHANGED <<job, delayed>>

\* Mutant: goes on without a block.
liballoc_alloc_unchecked(c, n) ==
  LET s == FindStart(page, n)
      blocks == pmm_alloc_each(used, n)
  IN /\ ~delayed /\ s # -1
     /\ page' = Set(Reserve(page, s, n), Region(s, n), "PRESENT")
     /\ Grant(c, "heap", s, n, blocks)

\* Without enough pages or blocks the kernel stops.
liballoc_alloc(c, n) ==
  LET s == FindStart(page, n)
      blocks == pmm_alloc_each(used, n)
  IN /\ ~delayed /\ s # -1 /\ 0 \notin blocks
     /\ page' = Set(Reserve(page, s, n), Region(s, n), "PRESENT")
     /\ Grant(c, "heap", s, n, blocks)

\* Mutant: frees the pages and keeps the blocks.
liballoc_free_pages(c) ==
  /\ ~delayed /\ grant[c].kind = "heap"
  /\ page' = Set(page, Region(grant[c].start, grant[c].pages), "FREE")
  /\ grant' = [grant EXCEPT ![c] = NoGrant]
  /\ UNCHANGED <<used, job, delayed>>

liballoc_free(c) ==
  /\ ~delayed /\ grant[c].kind = "heap"
  /\ page' = Set(page, Region(grant[c].start, grant[c].pages), "FREE")
  /\ used' = used \ grant[c].blocks
  /\ grant' = [grant EXCEPT ![c] = NoGrant]
  /\ UNCHANGED <<job, delayed>>

\* A guard page at either end.  Stacks are never freed: task_kstack_free() is
\* only called by process_destroy(), which nobody calls.
task_kstack_alloc(c) ==
  LET s == FindStart(page, KStack)
      blocks == pmm_alloc_each(used, KStack - 2)
  IN /\ ~delayed /\ s # -1 /\ 0 \notin blocks
     /\ page' = Set(Set(Reserve(page, s, KStack), {s, (s + KStack - 1) % Pages}, "GUARD"),
                    Region(s + 1, KStack - 2), "PRESENT")
     /\ Grant(c, "kept", s, KStack, blocks)

\* A directory, or a table by get_table_alloc(): a block and a page of the
\* kernel to reach it.  Directories in use are never freed (see Process).
page_directory_new(c) ==
  LET s == FindStart(page, 1)
      blocks == pmm_alloc_each(used, 1)
  IN /\ ~delayed /\ s # -1 /\ 0 \notin blocks
     /\ page' = Set(Reserve(page, s, 1), {s}, "PRESENT")
     /\ Grant(c, "kept", s, 1, blocks)

\* Mutant: takes free blocks whose pages may be mapped to something else.
dma_malloc_mapped(c, n) ==
  LET v == pmm_find_region(used, n)
  IN /\ ~delayed /\ v > 0
     /\ page' = Set(page, Region(v, n), "PRESENT")
     /\ Grant(c, "kept", v, n, v..(v + n - 1))

\* The page of a device's buffer is the block itself; it is never freed.
dma_malloc(c, n) ==
  LET v == vmm_find_dma_region(used, page, n)
  IN /\ ~delayed /\ v > 0
     /\ page' = Set(page, Region(v, n), "PRESENT")
     /\ Grant(c, "kept", v, n, v..(v + n - 1))

\* A block of a process, mapped in its own directory only.
UserBlock(c) ==
  LET blocks == pmm_alloc_each(used, 1)
  IN /\ ~delayed /\ 0 \notin blocks
     /\ Grant(c, "user", 0, 0, blocks)
     /\ UNCHANGED page

\* The end of a process.  munmap() does the same, to the pages from address 0 on.
UserBlockFreed(c) ==
  /\ ~delayed /\ grant[c].kind = "user"
  /\ used' = used \ grant[c].blocks
  /\ grant' = [grant EXCEPT ![c] = NoGrant]
  /\ UNCHANGED vspaceVars

-----------------------------------------------------------------------------
MemoryInit ==
  /\ Init
  /\ used = BootBlocks
  /\ grant = [c \in Client |-> NoGrant]

MemoryStep ==
  \E c \in Client :
    \/ \E n \in 1..MaxBlocks : liballoc_alloc(c, n)
    \/ \E n \in 1..MaxDma : dma_malloc(c, n)
    \/ liballoc_free(c)
    \/ task_kstack_alloc(c)
    \/ page_directory_new(c)
    \/ UserBlock(c) \/ UserBlockFreed(c)

MemoryNext == MemoryStep \/ (Next /\ UNCHANGED memoryVars)

MemorySpec == MemoryInit /\ [][MemoryNext]_allVars

-----------------------------------------------------------------------------
(* Properties.                                                              *)

\* Types of the block map of pmm.c and of what its callers hold.
MemoryTypeOK ==
  /\ VspaceTypeOK
  /\ used \in SUBSET Block
  /\ grant \in [Client -> [kind: {"none", "heap", "user", "kept"},
                           start: Page, pages: 0..Pages,
                           blocks: SUBSET (1..(Blocks - 1))]]

\* Every block in use is used by one holder or since boot, and its bit in
\* block_map says so: pmm.c and dma_malloc() never give a block out twice, and
\* none is lost.
BlocksOnce ==
  /\ used = BootBlocks \cup UNION {grant[c].blocks : c \in Client}
  /\ \A c \in Client :
       /\ grant[c].blocks \cap BootBlocks = {}
       /\ \A d \in Client \ {c} : grant[c].blocks \cap grant[d].blocks = {}

PagesOf(c) == Region(grant[c].start, grant[c].pages)

\* The kernel's own pages keep what they map through every other allocation
\* and through the mappings of system calls: neither find_vspace() nor the
\* search for a device's buffer, which goes by block numbers, hands out a page
\* that is in use, and no cleanup takes one that is held.
GrantsKeepPages ==
  ~delayed =>
    \A c \in Client :
      /\ \A d \in Client \ {c} : PagesOf(c) \cap PagesOf(d) = {}
      /\ \A t \in Mapped : PagesOf(c) \cap RegionOf(t) = {}
      /\ \A p \in PagesOf(c) : page[p] \in {"PRESENT", "GUARD"}

\* The lowest of the runs of n good blocks that start in a whole word; without
\* one, the search stops the kernel exactly when the last block is good and is
\* looked at.
BlockSearchIs(found, good, n) ==
  LET fits == {b \in 0..(Words * Word - 1) :
                 b + n <= Blocks /\ b..(b + n - 1) \subseteq good}
      ends == \E b \in 0..(Words * Word - 1) : b..(Blocks - 1) \subseteq good
  IN found = IF fits # {} THEN Min(fits) ELSE IF ends THEN -1 ELSE 0

\* The searches of pmm_find_region() and vmm_find_dma_region(), with their
\* skips, find the lowest fit; a free run at the end of memory that is too
\* short stops the kernel instead of reporting that there is none (the
\* assertions of pmm.c:82 and pmm.c:29).
BlockSearchesExact ==
  \A n \in 1..MaxDma :
    /\ n > 1 => BlockSearchIs(pmm_find_region(used, n), Block \ used, n)
    /\ BlockSearchIs(vmm_find_dma_region(used, page, n),
                     {b \in Block \ used : page[b] = "FREE"}, n)

\* No allocation and no cleanup touches pages that somebody else holds.
PagesHeld == RegionsDisjoint /\ MappingsStay /\ GrantsKeepPages

\* Every block is accounted for in block_map and has one holder.
BlocksAccounted == MemoryTypeOK /\ BlocksOnce

\* All three searches, of vmm.c and of pmm.c, are exact on every page map and
\* block map that can come up.
SearchesExact == FindsFirstFit /\ BlockSearchesExact
=============================================================================
