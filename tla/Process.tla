------------------------------ MODULE Process ------------------------------
(***************************************************************************)
(* The processes of kernel/process.c: pids, the process tree, page         *)
(* directories and their memory, execve(), clone(), exit() and waitpid().  *)
(*                                                                         *)
(* Physical blocks stand for the pages that the code allocates one by one: *)
(* one for a directory with its tables, one for a kernel stack, ImageSize  *)
(* for a program.  A kernel path is atomic up to a message, where a busy   *)
(* UART lets other processes run: execve() prints between leaving the old  *)
(* directory and building the new one, exit() between unmapping its kernel *)
(* stack, freeing its memory and its end, waitpid() between its test and   *)
(* its block.  clone() only prints with nothing but its own fresh block in *)
(* hand and is one step.                                                   *)
(***************************************************************************)
EXTENDS Naturals, Sequences, FiniteSets, FiniteSetsExt

CONSTANTS Process,    \* every process_t that is ever allocated
          Dir,        \* every page_directory_t that is ever allocated
          init,       \* the process of process_spawn_init()
          Blocks,     \* physical blocks that pmm.c manages
          ImageSize,  \* blocks of a program
          MaxPid,     \* PROCESS_MAX_PID
          NULL

ASSUME ProcessAssumption ==
  /\ IsFiniteSet(Process) /\ IsFiniteSet(Dir)
  /\ init \in Process
  /\ Blocks \in Nat /\ ImageSize \in Nat \ {0} /\ Blocks >= 2 + ImageSize
  /\ MaxPid \in Nat /\ MaxPid > 2
  /\ NULL \notin Process \cup Dir

VARIABLES
  status,     \* of each process: "unmapped" while it exits without its stack
              \* mapped, "exec" and "exit" when its memory is gone
  pid, parent,
  last_pid,
  pdir,       \* process->task.pdir
  stack,      \* the block of its kernel stack, 0 for none
  refs,       \* pdir->__refcount; 0 means not allocated
  frame,      \* the block of each directory, 0 for none
  user,       \* the blocks mapped with PAGE_USER in each directory
  kernel,     \* the kernel stacks mapped in each directory
  free,       \* the blocks that are not set in pmm.c's block_map
  waiting     \* where each process is in waitpid()

treeVars == <<pid, parent, last_pid>>
memVars  == <<pdir, stack, refs, frame, user, kernel, free>>
procVars == <<status, treeVars, memVars, waiting>>

Block == 1..Blocks

NotWaiting == [stage |-> "no", child |-> NULL, late |-> FALSE]

\* The process executes user code, or the start of a system call.
Running(p) == status[p] = "live" /\ waiting[p] = NotWaiting

-----------------------------------------------------------------------------
(* Memory.                                                                  *)

\* The first n free blocks: pmm_alloc_blocks_safe(), which stops the kernel
\* when there are too few.
Lowest(fr, n) ==
  CHOOSE s \in kSubset(n, fr) : \A b \in s, c \in fr \ s : b < c

\* Mutant: also frees the memory while one other holds the directory.
process_page_directory_free_early(d, stacks) ==
  \/ /\ refs[d] > 2
     /\ refs' = [refs EXCEPT ![d] = @ - 1]
     /\ kernel' = [kernel EXCEPT ![d] = stacks]
     /\ UNCHANGED <<user, free>>
  \/ /\ refs[d] <= 2
     /\ free' = free \cup user[d] \cup stacks
     /\ user' = [user EXCEPT ![d] = {}]
     /\ kernel' = [kernel EXCEPT ![d] = {}]
     /\ UNCHANGED refs

\* Directory d, in which these kernel stacks are still mapped, is given up: the
\* last reference frees all mapped blocks but keeps the directory.  The shared
\* region, the same in all directories, is unmapped before that.
process_page_directory_free(d, stacks) ==
  \/ /\ refs[d] # 1
     /\ refs' = [refs EXCEPT ![d] = @ - 1]
     /\ kernel' = [kernel EXCEPT ![d] = stacks]
     /\ UNCHANGED <<user, free>>
  \/ /\ refs[d] = 1
     /\ free' = free \cup user[d] \cup stacks
     /\ user' = [user EXCEPT ![d] = {}]
     /\ kernel' = [kernel EXCEPT ![d] = {}]
     /\ UNCHANGED refs

\* process_unmap_kstack(): what stays mapped in the directory of p.
StacksWithout(p) == kernel[pdir[p]] \ {stack[p]}

\* process_execve() up to page_directory_new().
ExecveLeave(p) ==
  /\ Running(p)
  /\ status' = [status EXCEPT ![p] = "exec"]
  /\ process_page_directory_free(pdir[p], StacksWithout(p))
  /\ UNCHANGED <<treeVars, pdir, stack, frame, waiting>>

\* The rest: a new directory with the kernel stack and a new program.
ExecveBuild(p) ==
  /\ status[p] = "exec"
  /\ status' = [status EXCEPT ![p] = "live"]
  /\ Cardinality(free) >= 1 + ImageSize
  /\ \E d \in Dir :
       LET fr == Lowest(free, 1)
           im == Lowest(free \ fr, ImageSize) IN
       /\ refs[d] = 0
       /\ refs' = [refs EXCEPT ![d] = 1]
       /\ frame' = [frame EXCEPT ![d] = Min(fr)]
       /\ user' = [user EXCEPT ![d] = im]
       /\ kernel' = [kernel EXCEPT ![d] = {stack[p]}]
       /\ free' = free \ (fr \cup im)
       /\ pdir' = [pdir EXCEPT ![p] = d]
  /\ UNCHANGED <<treeVars, stack, waiting>>

\* Mutant: takes the 0 of a failed allocation for a block.
syscall_mmap_anon_unchecked(p) ==
  LET b == IF free = {} THEN {0} ELSE Lowest(free, 1) IN
  /\ Running(p)
  /\ user' = [user EXCEPT ![pdir[p]] = @ \cup b]
  /\ free' = free \ b
  /\ UNCHANGED <<status, treeVars, pdir, stack, refs, frame, kernel, waiting>>

syscall_mmap_anon(p) ==
  /\ Running(p)
  /\ free # {}
  /\ user' = [user EXCEPT ![pdir[p]] = @ \cup Lowest(free, 1)]
  /\ free' = free \ Lowest(free, 1)
  /\ UNCHANGED <<status, treeVars, pdir, stack, refs, frame, kernel, waiting>>

-----------------------------------------------------------------------------
(* clone().                                                                 *)

\* Mutant: gives out the last pid again.
get_pid_again == UNCHANGED last_pid

\* get_pid() stops the kernel when the next pid has no bit in pid_bitmap.
get_pid ==
  /\ last_pid + 1 < MaxPid
  /\ last_pid' = last_pid + 1

\* Mutant: shares the directory without a reference.
CloneVmUnreferenced(p, child) ==
  LET st == Lowest(free, 1) IN
  /\ free # {}
  /\ pdir' = [pdir EXCEPT ![child] = pdir[p]]
  /\ stack' = [stack EXCEPT ![child] = Min(st)]
  /\ kernel' = [kernel EXCEPT ![pdir[p]] = @ \cup st]
  /\ free' = free \ st
  /\ UNCHANGED <<refs, frame, user>>

\* CLONE_VM: the child uses the parent's directory.
CloneVm(p, child) ==
  LET st == Lowest(free, 1) IN
  /\ free # {}
  /\ pdir' = [pdir EXCEPT ![child] = pdir[p]]
  /\ refs' = [refs EXCEPT ![pdir[p]] = @ + 1]
  /\ stack' = [stack EXCEPT ![child] = Min(st)]
  /\ kernel' = [kernel EXCEPT ![pdir[p]] = @ \cup st]
  /\ free' = free \ st
  /\ UNCHANGED <<frame, user>>

\* Mutant: maps the parent's pages in the child.
CloneCopyAliases(p, child) ==
  LET fr == Lowest(free, 1)
      st == Lowest(free \ fr, 1) IN
  /\ Cardinality(free) >= 2
  /\ \E d \in Dir :
       /\ refs[d] = 0
       /\ refs' = [refs EXCEPT ![d] = 1]
       /\ frame' = [frame EXCEPT ![d] = Min(fr)]
       /\ user' = [user EXCEPT ![d] = user[pdir[p]]]
       /\ kernel' = [kernel EXCEPT ![d] = st]
       /\ pdir' = [pdir EXCEPT ![child] = d]
  /\ stack' = [stack EXCEPT ![child] = Min(st)]
  /\ free' = free \ (fr \cup st)

\* Otherwise page_directory_clone() copies every user page to a new block.
CloneCopy(p, child) ==
  LET n   == Cardinality(user[pdir[p]])
      fr  == Lowest(free, 1)
      im  == Lowest(free \ fr, n)
      st  == Lowest(free \ (fr \cup im), 1) IN
  /\ Cardinality(free) >= n + 2
  /\ \E d \in Dir :
       /\ refs[d] = 0
       /\ refs' = [refs EXCEPT ![d] = 1]
       /\ frame' = [frame EXCEPT ![d] = Min(fr)]
       /\ user' = [user EXCEPT ![d] = im]
       /\ kernel' = [kernel EXCEPT ![d] = st]
       /\ pdir' = [pdir EXCEPT ![child] = d]
  /\ stack' = [stack EXCEPT ![child] = Min(st)]
  /\ free' = free \ (fr \cup im \cup st)

\* process_clone() and process_add().
syscall_clone(p, child) ==
  /\ Running(p)
  /\ status[child] = "none"
  /\ CloneVm(p, child) \/ CloneCopy(p, child)
  /\ get_pid
  /\ pid' = [pid EXCEPT ![child] = last_pid']
  /\ parent' = [parent EXCEPT ![child] = p]
  /\ status' = [status EXCEPT ![child] = "live"]
  /\ UNCHANGED waiting

-----------------------------------------------------------------------------
(* exit() and waitpid().                                                    *)

\* Mutant: leaves the kernel stack mapped.
ExitUnmapNothing(p) ==
  /\ Running(p) /\ p # init
  /\ status' = [status EXCEPT ![p] = "unmapped"]
  /\ UNCHANGED <<treeVars, memVars, waiting>>

\* process_exit() up to the message after process_unmap_kstack(); init never
\* exits.  The process still holds a reference on its directory.
ExitUnmap(p) ==
  /\ Running(p) /\ p # init
  /\ status' = [status EXCEPT ![p] = "unmapped"]
  /\ kernel' = [kernel EXCEPT ![pdir[p]] = StacksWithout(p)]
  /\ UNCHANGED <<treeVars, pdir, stack, refs, frame, user, free, waiting>>

\* Up to its scheduler_lock().
ExitFree(p) ==
  /\ status[p] = "unmapped"
  /\ status' = [status EXCEPT ![p] = "exit"]
  /\ process_page_directory_free(pdir[p], kernel[pdir[p]])
  /\ UNCHANGED <<treeVars, pdir, stack, frame, waiting>>

\* The processes in the wait queue of c.
Waiters(c) == {p \in Process : waiting[p].stage = "blocked" /\ waiting[p].child = c}

\* Mutant: wakes nobody.
ExitEndSilent(p) ==
  /\ status[p] = "exit"
  /\ status' = [status EXCEPT ![p] = "terminated"]
  /\ UNCHANGED <<treeVars, memVars, waiting>>

\* The rest, under the scheduler lock: wake one waiter and end.
ExitEnd(p) ==
  /\ status[p] = "exit"
  /\ status' = [status EXCEPT ![p] = "terminated"]
  /\ \/ /\ Waiters(p) = {}
        /\ UNCHANGED waiting
     \/ \E w \in Waiters(p) : waiting' = [waiting EXCEPT ![w].stage = "woken"]
  /\ UNCHANGED <<treeVars, memVars>>

\* process_waitpid_find() found child, and it has not terminated.
MustWait(p, child) == parent[child] = p /\ status[child] # "terminated"

\* Test and block without a switch in between.
WaitBlocks(p, child) ==
  /\ Running(p) /\ MustWait(p, child)
  /\ waiting' = [waiting EXCEPT ![p] =
                   [stage |-> "blocked", child |-> child, late |-> FALSE]]
  /\ UNCHANGED <<status, treeVars, memVars>>

\* The message between test and block switches to another task.
WaitTests(p, child) ==
  /\ Running(p) /\ MustWait(p, child)
  /\ waiting' = [waiting EXCEPT ![p] =
                   [stage |-> "tested", child |-> child, late |-> TRUE]]
  /\ UNCHANGED <<status, treeVars, memVars>>

WaitBlocksLate(p) ==
  /\ waiting[p].stage = "tested"
  /\ waiting' = [waiting EXCEPT ![p].stage = "blocked"]
  /\ UNCHANGED <<status, treeVars, memVars>>

\* A woken process tests again; waitpid() returns the pid of a terminated child.
WaitReturns(p) ==
  /\ waiting[p].stage = "woken"
  /\ waiting' = [waiting EXCEPT ![p] =
                   IF MustWait(p, @.child)
                   THEN [@ EXCEPT !.stage = "blocked", !.late = FALSE]
                   ELSE NotWaiting]
  /\ UNCHANGED <<status, treeVars, memVars>>

-----------------------------------------------------------------------------
\* process_init() and process_spawn_init().
Init ==
  \E d \in Dir :
    LET first(x, none) == [p \in Process |-> IF p = init THEN x ELSE none]
        only(x, none)  == [e \in Dir |-> IF e = d THEN x ELSE none] IN
    /\ status = first("live", "none")
    /\ pid = first(1, 0)
    /\ parent = [p \in Process |-> NULL]
    /\ last_pid = 1
    /\ pdir = first(d, NULL)
    /\ stack = first(2, 0)
    /\ refs = only(1, 0)
    /\ frame = only(1, 0)
    /\ user = only(3..(2 + ImageSize), {})
    /\ kernel = only({2}, {})
    /\ free = Block \ (1..(2 + ImageSize))
    /\ waiting = [p \in Process |-> NotWaiting]

Next ==
  \E p \in Process :
    \/ ExecveLeave(p)
    \/ ExecveBuild(p)
    \/ syscall_mmap_anon(p)
    \/ \E child \in Process : \/ syscall_clone(p, child)
                              \/ WaitBlocks(p, child)
                              \/ WaitTests(p, child)
    \/ ExitUnmap(p)
    \/ ExitFree(p)
    \/ ExitEnd(p)
    \/ WaitBlocksLate(p)
    \/ WaitReturns(p)

Spec == Init /\ [][Next]_procVars

-----------------------------------------------------------------------------
(* Properties.                                                              *)

\* Types of the process, directory and block state of process.c and pmm.c.
ProcTypeOK ==
  /\ status \in [Process -> {"none", "live", "exec", "unmapped", "exit", "terminated"}]
  /\ pid \in [Process -> 0..(MaxPid - 1)]
  /\ parent \in [Process -> Process \cup {NULL}]
  /\ last_pid \in 1..(MaxPid - 1)
  /\ pdir \in [Process -> Dir \cup {NULL}]
  /\ stack \in [Process -> 0..Blocks]
  /\ refs \in [Dir -> Nat]
  /\ frame \in [Dir -> 0..Blocks]
  /\ user \in [Dir -> SUBSET Block]
  /\ kernel \in [Dir -> SUBSET Block]
  /\ free \subseteq Block
  /\ waiting \in [Process -> [stage: {"no", "tested", "blocked", "woken"},
                              child: Process \cup {NULL}, late: BOOLEAN]]

Alive == {p \in Process : status[p] = "live"}
Users(d) == {p \in Alive : pdir[p] = d}

\* Who has a reference on directory d: also who exits and has not freed it yet.
Holders(d) == {p \in Process : status[p] \in {"live", "unmapped"} /\ pdir[p] = d}

\* How many uses block b has.
Uses(b) ==
  Cardinality({p \in Process : stack[p] = b}) + Cardinality({d \in Dir : frame[d] = b})
  + Cardinality({d \in Dir : b \in user[d]})

\* Every block is free or used once: no page is freed while it is mapped, two
\* directories never share a user page, and none is lost, whatever clone(),
\* execve() and exit() do to directories with one or several users.
BlocksUsedOnce == \A b \in Block : Uses(b) = IF b \in free THEN 0 ELSE 1

\* A directory counts who holds it, and its program is there for them.
MemoryStays ==
  \A d \in Dir : Holders(d) # {} => refs[d] = Cardinality(Holders(d)) /\ user[d] # {}

\* The kernel stacks mapped in a directory are those of the processes that can
\* still run in it, which an interrupt needs: none of a process that is exiting,
\* which process_page_directory_free() would free under the task that uses it.
StacksMapped == \A d \in Dir : kernel[d] = {stack[p] : p \in Users(d)}

\* No parent sleeps on a child that has ended, unless a message let the child
\* run between waitpid()'s test and its block; a woken one finds it ended.
NoLostExit ==
  \A p \in Process :
    /\ waiting[p].stage = "blocked" /\ status[waiting[p].child] = "terminated"
         => waiting[p].late
    /\ waiting[p].stage = "woken" => status[waiting[p].child] = "terminated"

\* Pids name processes: they are unique over all that ever lived, and a child
\* is younger than its parent, so that waitpid()'s search finds the right one.
PidsName ==
  \A p, q \in Process :
    /\ status[p] # "none" /\ pid[p] = pid[q] => p = q
    /\ parent[q] = p => pid[p] < pid[q]

\* Blocks are never lost nor used twice by clone(), execve() and exit().
BlocksOwned == ProcTypeOK /\ BlocksUsedOnce

\* What the users of a directory need stays mapped until the last one has left:
\* the program and their kernel stacks, also while others are between unmapping
\* their stack and giving up the directory in exit().
UsersKeepMemory == MemoryStays /\ StacksMapped
=============================================================================
