----------------------------- MODULE Scheduler -----------------------------
(***************************************************************************)
(* The scheduler of kernel/task.c: the task states, the ready, sleep and   *)
(* block queues, the scheduler lock with its postponed schedule, idling,   *)
(* the timer's wakeup and task exit.                                       *)
(*                                                                         *)
(* After tasking_enable() kernel code always runs with interrupts off:     *)
(* every gate of the IDT is an interrupt gate, kernel tasks are entered    *)
(* with IF = 0, and the lock restores the flag it found.  A kernel path is *)
(* therefore atomic up to its next __schedule(), and an interrupt arrives  *)
(* only in user mode or in the hlt of the idle loop.  The log output of    *)
(* these functions is left out here.                                       *)
(***************************************************************************)
EXTENDS Naturals, Sequences, Functions

CONSTANTS Task,      \* every task_t that is ever added
          KTask,     \* the ones of type TASK_TYPE_KTASK, never in user mode
          Queue,     \* the task_queue_t's of wait queues, semaphores, mutexes
          MaxSleep,  \* the longest sleep, in timer ticks
          NULL       \* the null task pointer

ASSUME SchedulerAssumption ==
  /\ KTask \subseteq Task
  /\ MaxSleep \in Nat
  /\ NULL \notin Task

VARIABLES
  state,                 \* task->state; "NEW" before task_add()
  current_task,          \* NULL while idling and before tasking_enable()
  idler,                 \* __schedule()'s local `task`: the task whose stack idles
  ready_queue,
  wait_queue,
  walk,                  \* scheduler_wakeup()'s detached rest of the wait queue
  in_wakeup,             \* scheduler_wakeup() is running
  blocked_tasks,         \* the task_queue_t of each Queue
  blocked_list,          \* how many nodes of blocked_list hold the task
  remaining,             \* task->wait_target - timer_ticks, at least 0
  scheduler_ready,
  scheduler_lock_count,  \* at a point where another step may follow
  postponed_schedule

switchVars == <<state, current_task, idler, ready_queue,
                scheduler_lock_count, postponed_schedule>>
sleepVars  == <<wait_queue, walk, in_wakeup, remaining>>
blockVars  == <<blocked_tasks, blocked_list>>
schedVars  == <<switchVars, sleepVars, blockVars, scheduler_ready>>

TaskState == {"NEW", "READY", "BLOCKED", "RUNNING", "TERMINATED",
              "WAITING", "BLOCKED_LOCK"}

Idle == scheduler_ready /\ current_task = NULL

\* The current task executes kernel code, with interrupts off.
InKernel    == current_task # NULL /\ ~in_wakeup

\* Interrupts are delivered in user mode and in the hlt of the idle loop.
IrqsEnabled == /\ scheduler_ready /\ ~in_wakeup
               /\ Idle \/ current_task \in Task \ KTask

-----------------------------------------------------------------------------
(* Switching.  st and rq are the task states and the ready queue as the     *)
(* caller of __schedule() leaves them.                                      *)

\* Mutant: keeps the current task on the cpu even when it cannot run.
KeepRunningAlways(st, rq) ==
  /\ rq = <<>>
  /\ state' = st
  /\ ready_queue' = rq
  /\ scheduler_lock_count' = 0
  /\ UNCHANGED <<current_task, idler>>

\* Nothing else is ready: the running task keeps the cpu.
KeepRunning(st, rq) ==
  /\ rq = <<>>
  /\ st[current_task] = "RUNNING"
  /\ state' = st
  /\ ready_queue' = rq
  /\ scheduler_lock_count' = 0
  /\ UNCHANGED <<current_task, idler>>

\* Nothing is ready and the current task cannot run: idle on its stack with
\* the scheduler locked, so that no interrupt switches tasks meanwhile.
StartIdling(st, rq) ==
  /\ rq = <<>>
  /\ st[current_task] # "RUNNING"
  /\ state' = st
  /\ ready_queue' = rq
  /\ scheduler_lock_count' = 1
  /\ idler' = current_task
  /\ current_task' = NULL

\* Mutant: takes the task at the tail of the ready queue.
SwitchToLast(st, rq) ==
  LET next == rq[Len(rq)]
      rest == SubSeq(rq, 1, Len(rq) - 1) IN
  /\ rq # <<>>
  /\ current_task' = next
  /\ IF st[current_task] = "RUNNING"
     THEN /\ state' = [st EXCEPT ![current_task] = "READY", ![next] = "RUNNING"]
          /\ ready_queue' = Append(rest, current_task)
     ELSE /\ state' = [st EXCEPT ![next] = "RUNNING"]
          /\ ready_queue' = rest
  /\ scheduler_lock_count' = 0
  /\ UNCHANGED idler

\* Run the head of the ready queue; a preempted task goes to its tail.
SwitchTo(st, rq) ==
  /\ rq # <<>>
  /\ current_task' = Head(rq)
  /\ IF st[current_task] = "RUNNING"
     THEN /\ state' = [st EXCEPT ![current_task] = "READY", ![Head(rq)] = "RUNNING"]
          /\ ready_queue' = Append(Tail(rq), current_task)
     ELSE /\ state' = [st EXCEPT ![Head(rq)] = "RUNNING"]
          /\ ready_queue' = Tail(rq)
  /\ scheduler_lock_count' = 0
  /\ UNCHANGED idler

__schedule(st, rq) == \/ KeepRunning(st, rq)
                      \/ StartIdling(st, rq)
                      \/ SwitchTo(st, rq)

\* schedule() and then the scheduler_unlock() that leaves `locks` sections
\* open: the outermost one switches, a nested one only leaves the note that
\* schedule() made.
ScheduleAndUnlock(st, rq, locks) ==
  \/ /\ locks = 0
     /\ postponed_schedule' = FALSE
     /\ __schedule(st, rq)
  \/ /\ locks > 0
     /\ postponed_schedule' = TRUE
     /\ scheduler_lock_count' = locks
     /\ state' = st
     /\ ready_queue' = rq
     /\ UNCHANGED <<current_task, idler>>

\* Mutant: the schedule that an interrupt postponed is not taken back.
IdleExitStillPostponed ==
  /\ Idle /\ ~in_wakeup
  /\ ready_queue # <<>>
  /\ scheduler_lock_count' = scheduler_lock_count - 1
  /\ current_task' = Head(ready_queue)
  /\ state' = [state EXCEPT ![Head(ready_queue)] = "RUNNING"]
  /\ ready_queue' = Tail(ready_queue)
  /\ idler' = NULL
  /\ UNCHANGED <<sleepVars, blockVars, scheduler_ready, postponed_schedule>>

\* Mutant: the task whose stack idled is queued as if it had been preempted.
IdleExitRequeues ==
  /\ Idle /\ ~in_wakeup
  /\ ready_queue # <<>>
  /\ postponed_schedule' = FALSE
  /\ scheduler_lock_count' = scheduler_lock_count - 1
  /\ current_task' = Head(ready_queue)
  /\ state' = [state EXCEPT ![idler] = "READY", ![Head(ready_queue)] = "RUNNING"]
  /\ ready_queue' = Append(Tail(ready_queue), idler)
  /\ idler' = NULL
  /\ UNCHANGED <<sleepVars, blockVars, scheduler_ready>>

\* The idle loop finds the ready queue filled by an interrupt handler.
IdleExit ==
  /\ Idle /\ ~in_wakeup
  /\ ready_queue # <<>>
  /\ postponed_schedule' = FALSE
  /\ scheduler_lock_count' = scheduler_lock_count - 1
  /\ current_task' = Head(ready_queue)
  /\ state' = [state EXCEPT ![Head(ready_queue)] = "RUNNING"]
  /\ ready_queue' = Tail(ready_queue)
  /\ idler' = NULL
  /\ UNCHANGED <<sleepVars, blockVars, scheduler_ready>>

-----------------------------------------------------------------------------
(* Blocking and waking.                                                     *)

\* Mutant: the current task joins the head of q's queue.
__task_block_ahead(q, reason) ==
  /\ blocked_tasks' = [blocked_tasks EXCEPT ![q] = <<current_task>> \o @]
  /\ blocked_list' = [blocked_list EXCEPT ![current_task] = @ + 1]
  /\ ScheduleAndUnlock([state EXCEPT ![current_task] = reason], ready_queue, scheduler_lock_count)

\* __task_block(): the current task joins the tail of q's queue.
__task_block(q, reason) ==
  /\ blocked_tasks' = [blocked_tasks EXCEPT ![q] = Append(@, current_task)]
  /\ blocked_list' = [blocked_list EXCEPT ![current_task] = @ + 1]
  /\ ScheduleAndUnlock([state EXCEPT ![current_task] = reason], ready_queue, scheduler_lock_count)

task_block(q, reason) ==
  /\ InKernel
  /\ __task_block(q, reason)
  /\ UNCHANGED <<sleepVars, scheduler_ready>>

\* Mutant: does not notice that the task has no node.
ListRemoveUnchecked(t) == [blocked_list EXCEPT ![t] = @ - 1]

\* list_remove(): deletes the first node of the task, if there is one.
ListRemove(t) ==
  [blocked_list EXCEPT ![t] = IF @ = 0 THEN 0 ELSE @ - 1]

\* Mutant: wakes the waiter that came last.
UnblockLast(q) ==
  LET t == blocked_tasks[q][Len(blocked_tasks[q])] IN
  /\ blocked_tasks[q] # <<>>
  /\ blocked_tasks' = [blocked_tasks EXCEPT ![q] = SubSeq(@, 1, Len(@) - 1)]
  /\ blocked_list' = ListRemove(t)
  /\ ScheduleAndUnlock([state EXCEPT ![t] = "READY"], Append(ready_queue, t),
                       scheduler_lock_count)

\* task_unblock_next() on a queue with a waiter, called by the current task or
\* by an interrupt handler.
Unblock(q) ==
  LET t == Head(blocked_tasks[q]) IN
  /\ blocked_tasks[q] # <<>>
  /\ blocked_tasks' = [blocked_tasks EXCEPT ![q] = Tail(@)]
  /\ blocked_list' = ListRemove(t)
  /\ ScheduleAndUnlock([state EXCEPT ![t] = "READY"], Append(ready_queue, t),
                       scheduler_lock_count)

task_unblock_next(q) ==
  /\ scheduler_ready /\ ~in_wakeup
  /\ Unblock(q)
  /\ UNCHANGED <<sleepVars, scheduler_ready>>

\* Mutant: queues the current task itself, and __schedule() does it again.
yieldQueuesTwice ==
  /\ InKernel
  /\ ScheduleAndUnlock(state, Append(ready_queue, current_task), scheduler_lock_count)
  /\ UNCHANGED <<sleepVars, blockVars, scheduler_ready>>

yield ==
  /\ InKernel
  /\ ScheduleAndUnlock(state, ready_queue, scheduler_lock_count)
  /\ UNCHANGED <<sleepVars, blockVars, scheduler_ready>>

-----------------------------------------------------------------------------
(* Sleeping.                                                                *)

Sleep(ticks) ==
  /\ remaining' = [remaining EXCEPT ![current_task] = ticks]
  /\ wait_queue' = Append(wait_queue, current_task)
  /\ ScheduleAndUnlock([state EXCEPT ![current_task] = "WAITING"], ready_queue,
                       scheduler_lock_count)

\* Returns at once when the target has passed; leaves blocked_list alone.
task_sleep_until(ticks) ==
  /\ InKernel
  /\ ticks > 0
  /\ Sleep(ticks)
  /\ UNCHANGED <<blockVars, walk, in_wakeup, scheduler_ready>>

task_sleep_miliseconds(ticks) ==
  /\ InKernel
  /\ Sleep(ticks)
  /\ blocked_list' = [blocked_list EXCEPT ![current_task] = @ + 1]
  /\ UNCHANGED <<blocked_tasks, walk, in_wakeup, scheduler_ready>>

\* Mutant: does not count the tick.
TimerIrqWithoutTick ==
  /\ IrqsEnabled
  /\ in_wakeup' = TRUE
  /\ scheduler_lock_count' = scheduler_lock_count + 1
  /\ walk' = wait_queue
  /\ wait_queue' = <<>>
  /\ UNCHANGED <<state, current_task, idler, ready_queue, postponed_schedule,
                 remaining, blockVars, scheduler_ready>>

\* irq0_handler() up to scheduler_wakeup()'s loop: count the tick, take the
\* scheduler lock and detach the whole wait queue.
TimerIrq ==
  /\ IrqsEnabled
  /\ in_wakeup' = TRUE
  /\ scheduler_lock_count' = scheduler_lock_count + 1
  /\ remaining' = [t \in Task |-> IF remaining[t] = 0 THEN 0 ELSE remaining[t] - 1]
  /\ walk' = wait_queue
  /\ wait_queue' = <<>>
  /\ UNCHANGED <<state, current_task, idler, ready_queue, postponed_schedule,
                 blockVars, scheduler_ready>>

\* Mutant: leaves the sleeper's state as it is.
WakeExpiredKeepsState ==
  LET t == Head(walk) IN
  /\ in_wakeup /\ walk # <<>>
  /\ remaining[t] = 0
  /\ walk' = Tail(walk)
  /\ ready_queue' = Append(ready_queue, t)
  /\ blocked_list' = ListRemove(t)
  /\ UNCHANGED <<state, current_task, idler, scheduler_lock_count, postponed_schedule,
                 wait_queue, in_wakeup, remaining, blocked_tasks, scheduler_ready>>

\* Mutant: leaves the sleeper's node in blocked_list.
WakeExpiredKeepsNode ==
  LET t == Head(walk) IN
  /\ in_wakeup /\ walk # <<>>
  /\ remaining[t] = 0
  /\ walk' = Tail(walk)
  /\ state' = [state EXCEPT ![t] = "READY"]
  /\ ready_queue' = Append(ready_queue, t)
  /\ UNCHANGED <<current_task, idler, scheduler_lock_count, postponed_schedule,
                 wait_queue, in_wakeup, remaining, blockVars, scheduler_ready>>

\* Mutant: the woken sleeper goes ahead of the tasks that are ready.
WakeExpiredAhead ==
  LET t == Head(walk) IN
  /\ in_wakeup /\ walk # <<>>
  /\ remaining[t] = 0
  /\ walk' = Tail(walk)
  /\ state' = [state EXCEPT ![t] = "READY"]
  /\ ready_queue' = <<t>> \o ready_queue
  /\ blocked_list' = ListRemove(t)
  /\ UNCHANGED <<current_task, idler, scheduler_lock_count, postponed_schedule,
                 wait_queue, in_wakeup, remaining, blocked_tasks, scheduler_ready>>

\* One round of the loop: wake the next sleeper, or put it back.
WakeExpired ==
  LET t == Head(walk) IN
  /\ in_wakeup /\ walk # <<>>
  /\ remaining[t] = 0
  /\ walk' = Tail(walk)
  /\ state' = [state EXCEPT ![t] = "READY"]
  /\ ready_queue' = Append(ready_queue, t)
  /\ blocked_list' = ListRemove(t)
  /\ UNCHANGED <<current_task, idler, scheduler_lock_count, postponed_schedule,
                 wait_queue, in_wakeup, remaining, blocked_tasks, scheduler_ready>>

PutBack ==
  LET t == Head(walk) IN
  /\ in_wakeup /\ walk # <<>>
  /\ remaining[t] > 0
  /\ walk' = Tail(walk)
  /\ wait_queue' = Append(wait_queue, t)
  /\ UNCHANGED <<switchVars, in_wakeup, remaining, blockVars, scheduler_ready>>

\* Mutant: unlocks without schedule().
WakeupDoneWithoutSchedule ==
  /\ in_wakeup /\ walk = <<>>
  /\ in_wakeup' = FALSE
  /\ scheduler_lock_count' = scheduler_lock_count - 1
  /\ UNCHANGED <<state, current_task, idler, ready_queue, postponed_schedule,
                 wait_queue, walk, remaining, blockVars, scheduler_ready>>

\* schedule() and scheduler_unlock(): preempt the interrupted task.
WakeupDone ==
  /\ in_wakeup /\ walk = <<>>
  /\ in_wakeup' = FALSE
  /\ ScheduleAndUnlock(state, ready_queue, scheduler_lock_count - 1)
  /\ UNCHANGED <<wait_queue, walk, remaining, blockVars, scheduler_ready>>

-----------------------------------------------------------------------------
(* Start and end of a task.                                                 *)

\* Called by kmain() before tasking_enable() or by a running task; does not
\* call schedule().
task_add(t) ==
  /\ scheduler_ready => InKernel
  /\ state[t] = "NEW"
  /\ state' = [state EXCEPT ![t] = "READY"]
  /\ ready_queue' = Append(ready_queue, t)
  /\ UNCHANGED <<current_task, idler, scheduler_lock_count, postponed_schedule,
                 sleepVars, blockVars, scheduler_ready>>

\* __ktask_exit() and process_exit() call it with the scheduler locked once.
task_exit ==
  /\ InKernel
  /\ postponed_schedule' = FALSE
  /\ __schedule([state EXCEPT ![current_task] = "TERMINATED"], ready_queue)
  /\ UNCHANGED <<sleepVars, blockVars, scheduler_ready>>

tasking_enable ==
  /\ ~scheduler_ready
  /\ ready_queue # <<>>
  /\ scheduler_ready' = TRUE
  /\ current_task' = Head(ready_queue)
  /\ state' = [state EXCEPT ![Head(ready_queue)] = "RUNNING"]
  /\ ready_queue' = Tail(ready_queue)
  /\ UNCHANGED <<idler, scheduler_lock_count, postponed_schedule,
                 sleepVars, blockVars>>

-----------------------------------------------------------------------------
SchedulerInit ==
  /\ state = [t \in Task |-> "NEW"]
  /\ current_task = NULL
  /\ idler = NULL
  /\ ready_queue = <<>>
  /\ wait_queue = <<>>
  /\ walk = <<>>
  /\ in_wakeup = FALSE
  /\ blocked_tasks = [q \in Queue |-> <<>>]
  /\ blocked_list = [t \in Task |-> 0]
  /\ remaining = [t \in Task |-> 0]
  /\ scheduler_ready = FALSE
  /\ scheduler_lock_count = 0
  /\ postponed_schedule = FALSE

\* What the current task itself may do to the scheduler.
TaskStep ==
  \/ yield
  \/ \E q \in Queue, reason \in {"BLOCKED", "BLOCKED_LOCK"} : task_block(q, reason)
  \/ \E n \in 1..MaxSleep : task_sleep_until(n)
  \/ \E n \in 0..MaxSleep : task_sleep_miliseconds(n)
  \/ task_exit

\* What the timer interrupt and the idle loop do.
SystemStep ==
  \/ TimerIrq
  \/ WakeExpired
  \/ PutBack
  \/ WakeupDone
  \/ IdleExit

SchedulerNext ==
  \/ TaskStep
  \/ SystemStep
  \/ tasking_enable
  \/ \E t \in Task : task_add(t)
  \/ \E q \in Queue : task_unblock_next(q)

SchedulerSpec == SchedulerInit /\ [][SchedulerNext]_schedVars

-----------------------------------------------------------------------------
(* Properties.                                                              *)

\* Types of task.c's globals and of the fields of task_t.
TypeOK ==
  /\ state \in [Task -> TaskState]
  /\ current_task \in Task \cup {NULL}
  /\ idler \in Task \cup {NULL}
  /\ ready_queue \in Seq(Task)
  /\ wait_queue \in Seq(Task)
  /\ walk \in Seq(Task)
  /\ in_wakeup \in BOOLEAN
  /\ blocked_tasks \in [Queue -> Seq(Task)]
  /\ blocked_list \in [Task -> Nat]
  /\ remaining \in [Task -> Nat]
  /\ scheduler_ready \in BOOLEAN
  /\ scheduler_lock_count \in Nat
  /\ postponed_schedule \in BOOLEAN

Blocked(t)  == state[t] \in {"BLOCKED", "BLOCKED_LOCK"}
Sleepers    == Range(wait_queue) \cup Range(walk)

\* No task is linked twice into one queue: next_task is NULL whenever
\* task_queue() is called (the assertion of task.c:89).
NoDuplicates ==
  /\ IsInjective(ready_queue)
  /\ IsInjective(wait_queue)
  /\ IsInjective(walk)
  /\ \A q \in Queue : IsInjective(blocked_tasks[q])

\* A task is in the queue that its state names and in no other: a ready task
\* is never lost from the ready queue nor a blocked or sleeping one left in it
\* (the assertions of task.c:229 and task.c:237).
QueuesMatchStates ==
  /\ \A t \in Task : state[t] = "READY" <=> t \in Range(ready_queue)
  /\ \A t \in Task : state[t] = "WAITING" <=> t \in Sleepers
  /\ Range(wait_queue) \cap Range(walk) = {}
  /\ \A t \in Task : Blocked(t) <=> \E q \in Queue : t \in Range(blocked_tasks[q])
  /\ \A p, q \in Queue :
        p # q => Range(blocked_tasks[p]) \cap Range(blocked_tasks[q]) = {}

\* Exactly the current task is RUNNING, and none is while the cpu idles
\* (the assertions of task.c:170, task.c:260 and task.c:518).
RunningIsCurrent == \A t \in Task : state[t] = "RUNNING" <=> t = current_task

\* The scheduler is locked once by the idle loop and once by a running
\* wakeup, hence not at all when a kernel path starts, and a postponed
\* schedule never outlives the lock it waits for (the assert_panics of
\* task.c:125, 219, 270, 331 and 368).
LockDiscipline ==
  /\ scheduler_lock_count = (IF Idle THEN 1 ELSE 0) + (IF in_wakeup THEN 1 ELSE 0)
  /\ postponed_schedule => Idle

\* blocked_list has one node for each task on a block queue, none for a task
\* that can run or has ended, and at most one for a sleeper (only
\* task_sleep_miliseconds() inserts one): no node is leaked or freed twice.
BlockedListExact ==
  \A t \in Task :
    /\ blocked_list[t] <= 1
    /\ Blocked(t) => blocked_list[t] = 1
    /\ blocked_list[t] = 1 => Blocked(t) \/ state[t] = "WAITING"

\* No order of blocking, waking, sleeping, preemption, idling and exit loses
\* or doubles a task: queues, task states, current_task and blocked_list of
\* task.c tell the same story.
TasksPlaced ==
  /\ NoDuplicates
  /\ QueuesMatchStates
  /\ RunningIsCurrent
  /\ BlockedListExact

\* r is q with nothing or newcomers at its end.
GrowsAtEnd(q, r) == Len(q) <= Len(r) /\ \A i \in DOMAIN q : r[i] = q[i]

\* From q to r at most the head has left; the others keep their order and
\* nobody has come in ahead of them.
InOrder(q, r) ==
  \/ GrowsAtEnd(q, r)
  \/ q # <<>> /\ Head(q) \notin Range(r) /\ GrowsAtEnd(Tail(q), r)

\* The ready queue and the wait queue of every object are first in, first out
\* through every preemption, wakeup and idle phase: who waits longer is served
\* first, and no step lets a task in ahead of another or swaps two of them.
NoOvertaking ==
  [][/\ InOrder(ready_queue, ready_queue')
     /\ \A q \in Queue : InOrder(blocked_tasks[q], blocked_tasks'[q])]_schedVars

\* A terminated task is never scheduled again, even when the cpu idled on its
\* stack after it exited.
ExitIsFinal ==
  [][\A t \in Task : state[t] = "TERMINATED" => state'[t] = "TERMINATED"]_schedVars

\* Every ready task gets the cpu: user code is preempted by the timer and a
\* kernel task blocks, sleeps, yields or ends.
ReadyRuns == \A t \in Task : state[t] = "READY" ~> state[t] = "RUNNING"

\* Every sleeper is woken as long as interrupts are let in again and again,
\* that is as long as kernel tasks do not keep the cpu among themselves.
SleepersWake ==
  []<>IrqsEnabled =>
    \A t \in Task : state[t] = "WAITING" ~> state[t] = "READY"
=============================================================================
