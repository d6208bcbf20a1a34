# A verification project for the myunix kernel

myunix is a small Unix-like kernel for one i686 processor, written in C
(`src/kernel`). This directory models its core in TLA+, checks the models on
small instances with TLC, and proves the safety properties of ten of its
parts for all instances with TLAPS: scheduler, locks, log output, descriptors,
file systems, memory, heap, processes, terminal input and the network driver.

`PROJECT.json` lists the components, the runs, the source lines behind every
definition, mutants for the checked properties, the findings, the hazards and the
theorems.

## The system

| Component | State | Operations | Interacts with |
|---|---|---|---|
| Scheduler (`task.c`) | task states, ready and sleep queue, block queues, `blocked_list`, `current_task`, `scheduler_lock_count`, `postponed_schedule` | `task_add`, `yield`, `task_block`, `task_unblock_next`, two sleeps, `scheduler_wakeup`, `task_exit`, `tasking_enable` | called by everything below; the timer interrupt calls `scheduler_wakeup` |
| Semaphores, mutexes (`task.c`) | count, lock, recorded owner, waiters | acquire, release, lock, unlock | block and unblock on the scheduler; interrupt handlers release semaphores |
| Log output (`console.c`, `serial.c`) | `print_mutex`, the message being put, the UART | `printf`, `putc` | a busy UART yields; the scheduler itself prints |
| Processes (`process.c`) | pids, process tree, page directories, wait queues | spawn, execve, clone, exit, waitpid | scheduler, descriptors, memory |
| File descriptors (`process.c`, `syscall.c`) | tables, entries, reference counts | open, dup, dup2, close, read, clone, exit | file system nodes; tables may be shared |
| Kernel address space (`vmm.c`, `syscall.c`) | page tables of the kernel directory | `find_vspace`, mapping of user buffers | every system call with a buffer, heap, stacks |
| Physical memory (`pmm.c`, `vmm.c`) | block map | search, allocate, free, device buffers | heap, stacks, directories, processes, drivers |
| Kernel heap (`liballoc.c`) | majors, minors, best bet, counters | `kmalloc`, `kfree`, `krealloc` | everything; takes pages from physical memory and address space |
| Virtual file system (`fs.c`) | mount graph, nodes with reference counts | `kopen`, `fs_close`, `kmount`, path walk | descriptors; calls the file systems |
| File systems (`tmpfs.c`, `tar.c`, ...) | tmpfs objects; the archive | lookup, create, mkdir, unlink, readdir | called through nodes |
| Terminal input (`serial.c`, `console.c`, `ringbuffer.c`, `irq.c`) | the FIFO of the UART and its interrupt, two ring buffers with semaphores, the line being edited | `irq4_handler`, `irq_ack`, `tty_read` | semaphores, scheduler |
| Network (`net/`) | descriptor rings of the card, packet queue, gateway address | interrupt, receive, send, ARP, IPv4, ICMP, UDP, TCP | semaphores, device buffers, a kernel task |
| USB (`usb/`) | transfer descriptors | polling at start-up | device buffers |
| Boot, PCI, support code | machine tables, lists, strings | set up once | - |

**What is hard about it.** There is one processor and kernel code runs with
interrupts off: every IDT entry is an interrupt gate (`isr.c`), kernel tasks
start with `IF = 0`, and `scheduler_lock` restores the flag it found. So a
kernel path is atomic up to its next task switch, and the difficulty lies in
*where* switches can happen and in what state they leave behind: a schedule
noted under the scheduler lock and taken at its end; the idle loop on the stack
of a task that blocked or exited; the hand-over of a mutex to a task that has
not run yet; and `printf`, which switches tasks when the UART is busy and is
called from inside the scheduler and between a test and the action that relies
on it. Interrupt handlers switch tasks too, when they release a semaphore
somebody waits for: what the handler has still to do, the end of interrupt or
the write of a ring's tail, then waits until the interrupted task runs again.
The hazards of `PROJECT.json` list these places with their lines.

**What makes each part correct.**
Scheduler: no task is lost, queued twice or revived, the lock is balanced,
ready tasks run. Locks: one owner through every hand-over, no lost wakeup,
first come first served. Log: messages are whole, printing does not disturb the
scheduler. Descriptors: no reference to a freed object, every open descriptor is
reachable. Address space: no page is given out twice. Processes: each `waitpid`
returns. Memory and heap: nothing is given out twice, nothing is lost, the
searches find what is there. Files: exact reference counts, no object destroyed
in use, a path leads where it says. Input and network: every byte and every
frame that was accepted arrives once and in order, and none waits for ever.

## Modules

`Scheduler` — `task.c` without its messages. The state has the names of the C
globals. A queue linked through `next_task` is a sequence, `blocked_list` a
count of nodes per task, `wait_target` the number of ticks that remain.
`__schedule(st, rq)` takes the task states and ready queue as its caller leaves
them and has the three cases of the code: keep running, idle, switch. Idling is
`current_task = NULL` with the lock held; `idler` is the task whose stack the
loop runs on, and `IdleExit` the part after the loop. `scheduler_wakeup` is one
action per round of its loop (`TimerIrq`, `WakeExpired`, `PutBack`,
`WakeupDone`), because `Console` looks into it. `scheduler_lock_count` is the
count between actions, i.e. the locks that outlive a kernel path.

`Sync` — extends `Scheduler` with semaphores and mutexes. `mutex_lock` on a
taken mutex blocks, and `MutexLocked` is the rest of the function when the task
runs again. `Interruptible` says when a device's interrupt handler can release a
semaphore: in user mode and in the idle loop. The callers' discipline is part of
the model: nobody locks a mutex twice, exits with one, or waits for a semaphore
with one.

`FifoLock` — the promise of a mutex: a line of tasks whose first one owns it.

`Console` — extends `Sync` with `printf`. A message is a number of characters;
at each one the UART may be busy, and `putc` then yields with `print_mutex`
held. Messages under the scheduler lock (`scheduler_wakeup`, the exit functions)
and inside `__schedule` are modelled at the place where the code prints.
`failed` records the line of `task.c` at which an assertion stops the kernel,
which ends the behaviour. `busy` is a history variable. Sleeping and semaphores
stand for all other activity.

`FdTable` — descriptor tables as records with `entries`, `length`, `capacity`
and `__refcount`, and the system calls on them. A call is atomic except
`read()` of the terminal, which blocks with a pointer to its entry. `dup2()`
accepts any `newfd`, and `fd_table_set` makes an array of `newfd` slots for it and
writes the word behind it (`process.c:164-168`); `clone()` does the same for a
table that has outgrown the first capacity, and `fd_table_get` reads that word. The
outcomes are those the allocation allows: the word is padding and keeps what was
written, so that slot `capacity` is part of the model, or it is foreign, and
`Damage` ends the behaviour. `shared` is a history variable.

`Vspace` — the kernel's pages as free, reserved or present; addresses are page
numbers modulo `Pages`. `FindStart` is the two nested loops of `find_vspace`
with their skips, written as a recursive function; `Reserve` the loop that marks
the result, with its overflow. A user maps a region completely, or fails at some
page; the failure path prints before it cleans up, so there is a variant in
which other tasks run in between. `delayed` is a history variable.

`Process` — pids, the process tree, page directories and physical blocks, with
`execve()`, `clone()`, `mmap_anon()`, `exit()` and `waitpid()`. A block stands
for the pages the code allocates one by one; `StacksWithout` is
`process_unmap_kstack()`. `execve()`, `exit()` and `waitpid()` are split at the
messages between their steps, where a busy UART runs other processes: `exit()`
between unmapping its stack (`ExitUnmap`), giving up the directory (`ExitFree`) and
its end; `clone()` prints with nothing
but its own fresh block in hand and is one step. `late` is a history flag of a
`waitpid()` that was switched away between its test and its block. That pids are
never given back follows the code: `process_destroy()` has no caller.
Descriptors are left to `FdTable`, the order of wait queues to `Scheduler` (only
the parent finds a child, so a wait queue has at most one task).

`Memory` — extends `Vspace` with the block map of `pmm.c` and with everybody who
holds memory for longer than a system call: heap areas, kernel stacks with their
guard pages, directories and tables, user blocks, device buffers. `SearchBlocks`
is the nested loop over words and bits that `pmm_find_region` and
`vmm_find_dma_region` share, as a recursive function of the block it has
reached, with its skips and with the assertion at the end of memory as -1.
`MaxDma` bounds the requests for consecutive blocks, `MaxBlocks` those for
pages. A search that stops the kernel ends the behaviour. Stacks, directories
and buffers are never given back, because the code never does.

`Heap` — `liballoc.c` byte by byte where addresses matter: majors as records
with the list of their minors, the padding of `ALIGN`, the best bet, the
counters. The walk of `kmalloc` over the majors is the sequence `Visits`; its
five cases are `Insufficient`, `Fits` and the growth in `Extended`, and what the
walk does to the best bet is `BetAfter`. Sums over lists are recursive functions. Without a
task switch inside, each call is one step. `Allocator` is what the heap
promises: a set of disjoint pieces of memory, changed by their owners only.

`Vfs` — the mount graph, nodes and lookups of `fs.c` over tmpfs and a tar
archive. A path is a sequence of names, `Prefixed` says which name begins with
which, because tmpfs and tar compare prefixes. `findfile_recursive` is a machine
that keeps one frame per level of the recursion: `Entered` is the call, `Walked` an
element of the path, `Round` what the innermost level does next. It carries along the
state that the references of the lookup, taken and dropped on the way, change.
`findfile` runs it for at most `MaxSteps` rounds. A node is identified by what it
stands for, the open ones are a bag. `VfsNames` holds `Resolve`, an independent
definition of where a path leads, and the properties that compare the lookups with it.

`Net` — the card with both descriptor rings, `e1000_irq`, the queue to
`ktask_net` and the protocols. The handler is split into its loop rounds;
`IrqTake` ends at `semaphore_release`, which may suspend it (`suspended`) before
the tail is written (`IrqResume`), and a second interrupt may come meanwhile,
since `irq_ack` is called first. `IrqCopyFails` stands for the assertions on the
length and on memory for the copy, which may fail at any packet. Packets carry
real bytes where a checksum looks at them; ARP and header checks are fields. The
card is external: it fills the descriptors it owns, raises causes, and sends
from head to tail.

`Input` — the UART, the interrupt controller, `irq4_handler`, the ring buffers
with their semaphores, `buffer_fill` and `buffer_getc` for any number of
readers. Here the handler writes to the ring buffer, and thereby may switch
tasks, *before* `irq_ack`: `acking` is the task that has still to come to it.
The UART raises its line at `Threshold` bytes, or when fewer have waited for the
time of four (`CharTimeout`); the controller is edge triggered, so that
`pending` is set when the line rises and cleared when the cpu takes the
interrupt. A handler that finds no byte stops the machine (`Ignored`), as
`irq_handler` does with what nobody handles. Which ready task runs is left open.
`serialQ`, `textQ` and `overrun` are history variables.

`SchedulerProofs`, `SyncProofs`, `FdTableProofs`, `MemoryProofs`, `ProcessProofs`,
`InputProofs`, `NetProofs` — the theorems about the modules of those names;
`SyncProofs` has those about `Console` too, `MemoryProofs` those about `Heap`,
`FdTableProofs` those about `Vfs`.
`Facts` — the lemmas that several of them use: indices that wrap, ring buffers as
sequences, elements inserted into and removed from one, extremes and counts of
finite sets, induction over searches.

`MC*` — the instances for TLC.

Definitions introduced by "Mutant:" are the plausible bugs that `PROJECT.json`
pairs with the properties; no specification uses them.

## Runs

A run checks one invariant per idea; some are conjunctions of named parts that
belong together, the module's type invariant among them:

| Checked invariant | Its parts |
|---|---|
| `TasksPlaced` (`Scheduler`) | `NoDuplicates`, `QueuesMatchStates`, `RunningIsCurrent`, `BlockedListExact` |
| `MutexesConsistent` (`Sync`) | `SyncTypeOK`, `MutualExclusion`, `WaitersWantIt` |
| `LogSafe` (`Console`) | `ConsoleTypeOK`, `MessageWhole`, `ExitedNeverResumed` |
| `CountsProtect` (`FdTable`) | `FdTypeOK`, `RefsCoverSlots`, `TableRefsExact` |
| `BlocksAccounted`, `PagesHeld`, `SearchesExact` (`Memory`) | `MemoryTypeOK`, `BlocksOnce`; `RegionsDisjoint`, `MappingsStay`, `GrantsKeepPages`; `FindsFirstFit`, `BlockSearchesExact` |
| `BlocksOwned`, `UsersKeepMemory` (`Process`) | `ProcTypeOK`, `BlocksUsedOnce`; `MemoryStays`, `StacksMapped` |
| `BooksExact` (`Heap`) | `HeapTypeOK`, `AccountsExact`, `BestBetOnList`, `EmptyMajorIsFirst` |
| `ObjectsLive` (`Vfs`), `LookupsExact` (`VfsNames`) | `VfsTypeOK`, `NoDangling`, `NoLostDirectory`; `FindsWhatIsNamed`, `ListsDirectory` |
| `FramesArrive`, `FramesAnnounced`, `AnswersRight` (`Net`) | `NetTypeOK`, `ReceivedInOrder`, `TailAdvances`; `UnitsMatchPackets`, `NoForgottenPacket`; `AnswersEcho`, `JudgesSegments`, `EchoesDatagrams` |
| `BytesInOrder` (`Input`) | `InputTypeOK`, `SerialInOrder`, `TextInOrder`, `UnitsMatchBytes` |

`PROJECT.json` has a mutant for each part, so that none is idle.

| Run | Instance | Shows |
|---|---|---|
| `sync` | 2 processes, 1 kernel task, 1 semaphore, 1 mutex, sleeps up to 2 ticks | all scheduler invariants, the ready queue and all wait queues are FIFO, exit is final; mutual exclusion, no lost permit, refinement of `FifoLock`; ready tasks run, sleepers wake, mutexes are granted |
| `console_safety` | 3 processes, 1 kernel task, messages of 2 characters | see below |
| `console_wakeup` | the same | a violation: the assertion of `task.c:467` |
| `fdtable_safety` | 2 processes, 2 tables, 2 files, capacity 3 growing to 4 | reference counts, reachability, blocked readers |
| `fdtable_append` | the same | a violation: the comment of `process.c:192` |
| `memory_safety` | 2 tasks in system calls, 2 clients, 8 pages, 8 blocks in words of 4, requests up to 5 pages or 3 consecutive blocks | exact searches, pages and blocks given out once, what is held stays mapped |
| `memory_failure` | the same | a violation: the comment of `vmm.c:271` on what a search without success returns |
| `process_safety` | 3 processes, 3 directories, 9 blocks, programs of 1 block, pids below 4 | every block free or used once, directories count their users, wakeups of `waitpid` |
| `heap_safety` | pages of 8 bytes, majors of 3 pages or more, 9 pages, requests of 0, 6 and 20 bytes | no overlap, exact counters, refinement of `Allocator` |
| `vfs_safety` | 3 archives, 3 tmpfs objects, 2 open nodes, 2 mount points, 14 paths | exact reference counts, no dangling object, lookups |
| `net_safety` | rings of 3 descriptors, 2 frames under way, 23 kinds of frames | order, no forgotten frame, answers and checksums |
| `input` | 2 readers, 1 other task, buffers of 3, 3 and 2 bytes, a FIFO of 3 with threshold 2, 4 bytes typed, reads of 1 byte | order, units of the semaphores, the machine stops only on a full `text_buffer`, every byte is heard unless the line goes deaf |

**Bounds.** Three tasks allow one that runs, idles or is preempted and two that
wait in line, which is what ordering and hand-over need, and safety is proved
for any number; two queues let a task move between them; two ticks separate a
sleeper that is put back from one that is woken. A message of two characters can
be interrupted in its middle. Capacity 3 is what init's three descriptors fill,
so that the next `open()` meets the boundary, and one growth step follows;
`newfd` goes up to the word behind the grown array. Eight pages with two used
ones in the middle leave gaps smaller and larger than the requests, one of which
wraps from the last page to the first; eight blocks with four used ones do the
same for both words of the block map, and a free run reaches the end of memory.
Requests of five pages are longer than a word and than any gap but one. Two
clients and two tasks compete for them. A heap of nine pages has up to three
majors, one of them larger than the others; requests of 6 and 20 bytes leave
gaps that one of them fits. The archives hold a link into a directory, out of
one and into a mount, a chain that is too long, a loop, and names that begin
with one another; three objects allow a directory within a directory. No lookup
of the instance needs more than the 20 rounds of `MaxSteps`: one cut off there
would differ from `Resolve` (`FindsWhatIsNamed`). A ring of three has two
descriptors for the card, so that a suspended handler and a second packet fill
it; `Alone` are the frames that are there for what the protocols do with them,
which arrive only when nothing else is under way: for the rings and queues all
frames are alike. Lines of two bytes and a `text_buffer` of three let two
readers fill it; with the sizes of the code (1024 and 2048) it takes three
readers, because each takes a byte out after its line. Four bytes are two lines
and fill either buffer. A FIFO of three bytes with threshold two has one byte
below the threshold and one above it, as 13 and 15 of 16 are in the code. A
longer read repeats a read of one byte without leaving the kernel; the theorems
hold for every length. Three processes allow a directory with two users while a
third leaves its own; nine blocks hold three complete processes, and
`mmap_anon()` reaches their end. `MaxCount`, `MaxRefs` and `MaxCapacity` only
cap counters. Deadlock is checked for the scheduler and the locks. It is not
where the system may stop: after a failed assertion (`Console`), and when the
model's supply of files, memory or pids is used up (`FdTable`, `Memory`,
`Process`, `Heap`, `Vfs`). In `Net` and `Input` a stopped machine is a state of
its own and deadlock is checked. Symmetry is used for the processes of `Process`
and `Console`, tables, files, directories, the tasks and the clients of
`Memory`, never with liveness.

**Fairness** (`sync`). The timer keeps firing when interrupts are let
in, and the idle loop reaches its test between two ticks; both are enabled only
now and then, hence strong fairness. Interrupt handlers finish. A kernel task
comes to a call that gives up the cpu; all kernel tasks of `kmain.c` and the
drivers loop around such a call. Owners give a mutex back. User code is not
assumed to do anything. `SleepersWake` and `MutexIsGranted` have the premise
that interrupts are let in again and again: two kernel tasks that yield to each
other keep them off for ever, since only user mode and idling let them in.

`input` assumes that the timer of the UART runs, that the cpu takes a pending
interrupt that it meets again and again (strong fairness: interrupts are let in
only in user mode and while idling), that a ready task runs (strong fairness of
`SwitchTo`: the ready queue is served in order, which `sync` shows), and that
kernel code, `irq_ack` included, runs on. Nobody is assumed to read or to type.

**What the console run shows.** With a UART that was never busy, nothing that
the scheduler prints does harm (`ReadyUartIsHarmless`). With a busy one, messages
are still whole, but four things go wrong, which the model contains:
`scheduler_wakeup` and the exit functions run `mutex_lock` where it cannot wait
(`console_wakeup` shows the failing assertion; in the middle of a hand-over, or
while idling, it fails at lines 463 and 320 instead); a message before
`tasking_enable` fails at line 305; and the message of `__schedule` about a
terminated task (line 245) re-enters `__schedule` and forgets the task it has
just dequeued. `OnlyExitForgets` and `ExitedNeverResumed` say that this is the
only way to lose a task, that the exited task keeps `print_mutex` then, and that
no exited task runs again.

**What the descriptor runs show.** `length` is the last used slot after
`fd_table_set` and one past it after `fd_table_append`. All slots stay reachable
in spite of that, and the walks over `length` slots stay inside the array, but
`fd_table_append` may replace the descriptor at slot `length` (`fdtable_append`:
the first `open()` of init replaces descriptor 2). The replaced entry's
reference is lost, so counts are upper bounds (`RefsCoverSlots`), never too low.
That a descriptor lies inside the array is false and not claimed: `dup2()` to a
`newfd` at or beyond the capacity makes the array one slot too short. What is
shown of counts and reachability holds with such descriptors too, as long as the
word behind the array belongs to nobody else.

**What the memory run shows.** The search of `find_vspace` returns the lowest
region or -1. The comment of `vmm.c:271` promises 0 for failure and the callers test
for it; the code returns -1, the call goes on, and an assertion stops the kernel
(`memory_failure`). Page 0 is free in the kernel directory, so
that a region at the top of the address space goes on there; its end address
overflows and nothing of it is reserved, which does no harm because it is mapped
before anybody else runs. When the message of a failing
mapping switches tasks, another task may be given a page that the late cleanup
then frees; `RegionsDisjoint`, `MappingsStay` and `GrantsKeepPages` state what
holds before that. The block searches find the lowest fit, but a free run at the
end of memory that is too short makes them stop the kernel instead of reporting
failure (`BlockSearchesExact`). The block map itself is safe up to 128 MB only:
`kmain.c:309` and `kmain.c:469` mark and map a quarter of it.

**What the heap run shows.** Majors, minors and counters stay exact under every
order of calls, and `kmalloc` takes new pages only when no gap suffices. Two
things the model contains are not as the comments have them: `l_bestBet` is the
major with the most free memory when it was last looked at, not always now; and
when the only major is freed `l_memRoot` becomes NULL and the next `kmalloc`
stops the kernel.

**What the file system run shows.** References balance on every path of
`kopen`, found or not. What the code does differently from what one would
expect is in the model and in the premises of the properties: tmpfs finds and
unlinks the first name that *begins* with the one asked for; files in tmpfs have
no `close` and are never freed; unlinking a directory that is not empty and ".."
above the root stop the kernel; ".." is resolved in the text of a path, before
links; absolute links below the root are taken for relative ones; a `kmount`
that fails leaks the root of the new file system; `tar_readdir` lists the files
of a directory whose name extends the one asked for.

**What the network run shows.** The handler may be suspended between emptying a
descriptor and giving it back, and still no frame is lost, doubled or reordered:
at most one handler is suspended, and it advances the tail by one
(`TailAdvances`). This is the place the code marks "FIXME: race condition". The
kernel stops when the receive ring is full or a packet cannot be copied, for no other
reason, and a burst of answers as long as
the send ring loses all of them, because nobody looks at the head. The last byte
of an echo request of odd length is under no checksum (`net_calc_checksum` leaves it
out): a sender that counts it gets no answer, and when it is damaged from zero it is
sent back as it is. A UDP answer is eight bytes longer than the datagram, and the gateway is
learned from any ARP reply that claims its address.

**What the input run shows.** Bytes arrive once and in order until a buffer is
filled up; after that old bytes are read again. Two readers may divide a line
between them, and several together can fill `text_buffer` exactly, which then looks
empty: the assertion of `console.c:94` fails (`StopsOnlyOnFullBuffer` says that
this is the only way, and that `irq4_handler` always finds a byte). Although
`irq4_handler` may switch tasks before the end of interrupt, bytes below the
threshold are all read in the end (`LineIsHeard`). When one more than the threshold
has gathered before the interrupt is taken, which takes 15 bytes with interrupts
off, the line is still high after the one byte that the handler reads, the
controller sees no edge, and nothing is read any more (`Deaf`). A zero byte, at which
`console.c:60` stops the kernel, is not typed.

**What the process run shows.** Blocks are never freed while mapped, whether a
directory has one user or several, and the kernel stack a process runs on is
always unmapped before the directory's blocks are freed. In `exit()` others may run
between the two: the process that exits still holds its reference then
(`MemoryStays`), and its stack is no longer among those that the last user frees
(`StacksMapped`). Not a property of the
code is that memory comes back: the last user of a directory frees the mapped
blocks but never the directory itself, and an exited process keeps its kernel
stack and its pid, so that after enough `clone()` and `exit()` the allocator or
`get_pid()` stops the kernel. `waitpid()` tests the child's state, prints, and
blocks (`process.c:755-760`): when the message switches to the child, which
exits, nobody wakes the parent. `NoLostExit` says that this is the only way a
parent sleeps on an ended child. The model also contains what no statement of
the repository excludes: `fd_table_clone()` leaves out the descriptor at slot
`length`, and a failed mapping leaves reserved pages behind (`syscall.c:66`).

## Proofs

The theorems hold for every value of the constants that the assumptions of the
modules allow, so for any number of tasks, processes, clients, readers, for
rings, tables and memories of any size. Every inductive invariant below was
first checked by TLC on the instance of the module's run. A proof has one lemma
per action, or per kind of action, and beneath it one step per part of the
invariant that the action can disturb.

**Assumptions.** The sets of processes, tables, directories and readers are
finite where reference counts or units of a semaphore are compared with the
number of their users (`FdAssumption`, `ProcessAssumption`, `InputAssumption`).
NULL, `Idle` and an empty descriptor are none of the objects. A descriptor table
has room for the three descriptors of init, memory for its first program
(`Blocks >= 2 + ImageSize`). Rings have at least two descriptors. A stack has a
page between its guards and is not larger than the largest request (`KStack`, 8 in
the code); a request for *consecutive blocks* is shorter than a word of the block map
(`MaxDma < Word` in `MemoryAssumption`): `dma_malloc` is asked for one page at a time
(`e1000.c`, `usb/uhci.c`) and nobody asks `pmm_alloc_blocks` for more than one block,
while requests for pages (`framebuffer.c:22`, `syscall.c:607`) are not bounded. The threshold
of the UART is positive. A message has at least one
character and is printed under a mutex of its own (`ConsoleAssumption`). Headers,
pages and alignment of the heap are positive, and a major is not larger than memory
(`HeapAssumption`). Paths and the names of an archive are sequences of elements, no
file system is mounted at the empty path, and the bounds are natural numbers
(`VfsAssumption`).

**Scheduler** (`SchedulerProofs`). `SchedulerSafe`: `SchedulerSpec => []Inv`, and
from it the invariants of the run, `TypesHold`, `LockBalanced`, and `TasksInPlace`
with its parts `NoTaskQueuedTwice`, `NoTaskLost`, `OneTaskRuns`, `BlockedListKept`;
the action properties `ExitFinal` and `FirstInFirstOut` (in the ready queue and in
every wait queue at most the head leaves in a step, those who stay keep their order,
and newcomers go to the end).
None of the invariants is inductive alone: that a task appended to a queue is
not in it already follows from its state, that its state tells where it is from
the current task being the only running one, and that the lock count drops to
zero from the idle loop holding it exactly once. `Inv` is their conjunction with
`BootDiscipline` (before `tasking_enable` nobody runs, sleeps or blocks). The
argument goes by lemmas about sequences (what `Append`, `Tail` and `Head` do to
the elements and to injectivity), then about the three cases of `__schedule` for
*any* states and ready queue with the properties a caller leaves behind, and then
one step per action.

**Locks** (`SyncProofs`). `Sync` is built from the actions of `Scheduler`, so that
all theorems above carry over to it (`SyncKeepsTasks`).
`SyncInv` is the scheduler's `Inv` with `MutexesConsistent` and `NoLostPermit`;
these are inductive together, because `Owners` already says who owns a mutex
between the wakeup in `mutex_unlock` and the end of the woken task's
`mutex_lock`. Hence `MutexesAreExclusive` and `PermitsReachWaiters`.
`MutexesAreFifo` is the refinement of `FifoLock`: owner and wait queue together
are the abstract line, and a hand-over takes its head away.

**Log output** (`SyncProofs`). A message may switch tasks in the middle of
`__schedule`, so that `Console` does not refine `Scheduler`, and after the message
about an exited task its invariant is even false: a task is missing. `ConsoleInv`
therefore is a disjunction. In `Sane` the invariant of the locks holds, the owner of
`print_mutex` can run, whoever is in the middle of a message owns it, and nobody
else has begun one. In `Stuck` the exited task owns `print_mutex` for good, nobody
is in the middle of a message, everybody who prints waits, and the scheduler's
`Inv` holds once the forgotten tasks are taken for terminated ones: `Masked`, an
instance of `SchedulerProofs` with those states replaced, so that its lemmas about
`__schedule` are used again and not proved again. The one step from `Sane` to `Stuck`
is a busy UART at line 245. `MessagesAreWhole`, `ExitsForget` and `ReadyUartHarmless`
follow.

**Descriptors** (`FdTableProofs`). `FdInv` is the checked `CountsProtect` and
`SlotsReachable` with the stages of a blocked `read()` (`ReadersHold`) and with
the history variable (`SharedIsKnown`). It does not say that a descriptor lies inside
the array, but that it is not behind `length` and `length` not behind the array; a clone is
a fold of `fd_table_set`, whose references are bounded by those of the table it
copies. The counts are compared with the set of
(table, slot) pairs that point to an entry; each system call is shown to add or
remove at most as many pairs as it adds to or takes off the count. The theorems
are `DescriptorsProtected`, `DescriptorsReachable`, `ReadersProtected`.

**File systems** (`FdTableProofs`). `VfsInv` says that the lists of tmpfs form
trees (`Shape`): they lead to live objects only, each object is on one list at
most, only live directories have childs, and no set of objects is closed under
"on the list of", so that no circle is cut off from its mount. `RefsCounted`
adds the counts: the root of a mount has the references of the mount and of its
open nodes, a directory those of its parent and of its open nodes, a file at
least as many. A lookup is off these counts on its way: `LookOK` says that at
every round exactly one reference is in excess, the one on the node that the
innermost level stands on. Every round keeps it, whatever path, links and mounts
it meets, so that a lookup has dropped that reference when it fails and hands it
to its caller when it succeeds. `tmpfs_unlink` takes the object off the list and
drops a reference; the two commute, hence it is a drop from a state in which the
list is shorter already. `ObjectsStayLive` (no open node, mount or list leads to
a destroyed object, no directory is lost) and `ReferencesBalance` (`RefsExact`)
follow; that no directory is lost is the absence of closed sets.

**Memory** (`MemoryProofs`). `SearchesFindLowest`: the searches of `find_vspace`,
`pmm_find_region` and `vmm_find_dma_region` are exact on *every* page map and block
map. They are recursive functions; that they are defined at all, and what they
return, goes by induction from their end (`SearchInduction`, `SearchDefined` of
`Facts`): nothing between a place and the one the loop goes on from can be a fit.
`MemInv` then says that a block is used by one holder or since boot, that
regions of system calls and of clients are disjoint and mapped as long as no
cleanup was delayed, and, always, that no region under way contains a page of
the kernel: this last part is what makes a delayed cleanup harmless for it. The theorems
are `BlocksHaveOneHolder` and `PagesStayHeld`; they rest on the first one, because
what is found is free, and what is held is not.

**Heap** (`MemoryProofs`). `HeapInv` says that majors lie in pages of their own,
that the minors of a major are in order, with the gaps between them never negative
and room in each for the request, the alignment and what `ALIGN` stores; that
`usage`, `l_inuse` and `l_allocated` are the sums they should be, that the best bet
is on the list, and that only the first major may be empty. That the sums are
right needs what inserting, removing and replacing an element does to the sum of a
list; these lemmas go by induction on the length, with the formula spelled out.
`AllocationsApart` and `BooksStayExact` follow. `HeapIsAllocator` is the refinement: a
pointer determines its minor, so that a call adds or removes one piece, and a new
piece overlaps no other because it lies in a gap or in fresh pages; a growing
`krealloc()` composes the two. `GrowsWhenFull` needs that a gap is never larger than
the free bytes of its major (so CASE 1 skips no major with a suitable gap), and that
the walk, wherever it starts, visits every major.

**Processes** (`ProcessProofs`). `ProcInv` has three parts: each block has one
use, a directory has as many references as users and holds their stacks and
program (`MemInv`), where one that exits is a user until it has given the
directory up; pids grow along the tree and who does not exist has none
(`TreeInv`); who waits, waits for a child of its own, and who was switched away
between test and block is marked `late` (`WaitInv`). It gives
`BlocksNeverShared`, `MemoryKept`, `ExitsNoticed` and `PidsUnique`.

**Terminal input** (`InputProofs`). `InputInv` ties the ring buffers to the
sequences of bytes that went in and to the units of their semaphores: a unit taken
and not yet used is a reader at `fillGot`; `text_buffer` never has fewer units than
bytes, so that nobody ever waits for it, and a reader that is about to take a byte
holds the cpu. A pending interrupt has a byte, since the line rises with one and only
the handler takes one. It gives `BytesArrive` and `AssertionHolds`.

**Network** (`NetProofs`). `NetInv` says that the frames under way are those of
`rx_queue` followed by those in the ring from the first descriptor that has not
been emptied, which is one further than the tail says while a handler is
suspended; that at most one is; and that a frame in the ring has a cause or a
handler to find it. It gives `FramesReachTask`, `FramesSignalled`,
`FramesSentInOrder` and, as an action property, `StopsWhenFull`.

**Only model-checked.** Liveness (`ReadyRuns`, `SleepersWake`, `MutexIsGranted`,
`LineIsHeard`): fairness and `ENABLED` are beyond the prover. `AnswersRight` of
`Net`: it compares what the driver computes from a packet with sums over the
bytes of the packets that the instance provides; datagrams whose length field
differs from their length are not among them. `LookupsExact` of `VfsNames`: its
reference `Resolve` is a RECURSIVE operator, and that the machine computes the
same would go by induction over paths and the links met on them. The three runs
that expect a violation.

## Plan

Done: all modules above and their proofs. What could follow is the
composition of `Vfs` and `FdTable`, which count references to the same nodes.

## Not modelled

The context switch below `current_task` (stacks, TSS), number formatting,
framebuffer and text terminal (no effect on control), seek positions, file
contents, boot (a straight line before `tasking_enable`), PCI, gdt/idt set-up,
the sanitizer runtime. What the kernel does after it has written to memory that
belongs to somebody else (`damaged` of `FdTable`); a UDP length field that does
not fit its frame, which makes `udp.c:44` read past it. `process_destroy()` (no
caller) and the orphans of an exited process, which the code leaves in the tree.
The ring buffer of the keyboard, which nobody reads. `munmap()` beyond the
freeing of blocks: it walks from address 0 and not from its argument. USB: the
driver polls the controller's registers once at start-up, and everything hard
about it happens inside the hardware.
