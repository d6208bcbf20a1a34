-------------------------------- MODULE Sync --------------------------------
(***************************************************************************)
(* The semaphores and mutexes of kernel/task.c on top of its scheduler.    *)
(* Both hand over directly: a release wakes the first waiter without ever  *)
(* making the unit or the lock free, so nobody can take it in between.     *)
(*                                                                         *)
(* Each kernel path is atomic up to the next task switch.  The one place   *)
(* where code runs after such a switch is the end of mutex_lock(), which   *)
(* records the new owner once the woken task runs again.                   *)
(***************************************************************************)
EXTENDS Scheduler

CONSTANTS Sem,       \* the semaphores: their blocked_tasks are Queues
          Mutex,     \* the mutexes: likewise
          MaxCount   \* bound on semaphore->count, standing for UINT_MAX

ASSUME SyncAssumption ==
  /\ Queue = Sem \cup Mutex
  /\ Sem \cap Mutex = {}
  /\ MaxCount \in Nat
  /\ NULL \notin Mutex

VARIABLES
  count,        \* semaphore->count
  lock,         \* mutex->lock[0]
  locked_task,  \* mutex->locked_task
  acquiring     \* the mutex whose mutex_lock() the task has blocked in

syncVars == <<count, lock, locked_task, acquiring>>
vars == <<schedVars, syncVars>>

Holding(t) == {m \in Mutex : locked_task[m] = t}

\* The cpu is neither inside an interrupt handler nor at the end of a
\* mutex_lock() that has just been resumed.
AtCallPoint == /\ scheduler_ready /\ ~in_wakeup
               /\ current_task # NULL => acquiring[current_task] = NULL

\* Besides, the cpu is in user mode or idles: a mutex is held only in the
\* kernel, where interrupts are off.
Interruptible == AtCallPoint /\ (current_task # NULL => Holding(current_task) = {})

-----------------------------------------------------------------------------
(* Semaphores.                                                              *)

\* Mutant: takes a unit that is not there.
semaphore_acquire_untested(s) ==
  /\ AtCallPoint /\ current_task # NULL
  /\ Holding(current_task) = {}
  /\ count' = [count EXCEPT ![s] = @ - 1]
  /\ UNCHANGED <<schedVars, lock, locked_task, acquiring>>

\* No caller waits for a semaphore with a mutex in its hands.
semaphore_acquire(s) ==
  /\ AtCallPoint /\ current_task # NULL
  /\ Holding(current_task) = {}
  /\ \/ /\ count[s] > 0
        /\ count' = [count EXCEPT ![s] = @ - 1]
        /\ UNCHANGED schedVars
     \/ /\ count[s] = 0
        /\ task_block(s, "BLOCKED_LOCK")
        /\ UNCHANGED count
  /\ UNCHANGED <<lock, locked_task, acquiring>>

\* Mutant: counts the unit also when it goes to a waiter.
semaphore_release_counting(s) ==
  /\ Interruptible
  /\ count[s] < MaxCount
  /\ count' = [count EXCEPT ![s] = @ + 1]
  /\ \/ blocked_tasks[s] # <<>> /\ task_unblock_next(s)
     \/ blocked_tasks[s] = <<>> /\ UNCHANGED schedVars
  /\ UNCHANGED <<lock, locked_task, acquiring>>

\* Called by the interrupt handlers of the devices, and by tasks that hold no
\* mutex.
semaphore_release(s) ==
  /\ Interruptible
  /\ \/ /\ blocked_tasks[s] # <<>>
        /\ task_unblock_next(s)
        /\ UNCHANGED count
     \/ /\ blocked_tasks[s] = <<>>
        /\ count[s] < MaxCount
        /\ count' = [count EXCEPT ![s] = @ + 1]
        /\ UNCHANGED schedVars
  /\ UNCHANGED <<lock, locked_task, acquiring>>

-----------------------------------------------------------------------------
(* Mutexes.  No caller locks a mutex that it already holds.                 *)

LockFree(m) ==
  /\ lock[m] = 0
  /\ lock' = [lock EXCEPT ![m] = 1]
  /\ locked_task' = [locked_task EXCEPT ![m] = current_task]
  /\ UNCHANGED <<schedVars, acquiring>>

\* Mutant: records the new owner before it waits, not after.
LockTakenRecordsFirst(m) ==
  /\ lock[m] = 1
  /\ acquiring' = [acquiring EXCEPT ![current_task] = m]
  /\ locked_task' = [locked_task EXCEPT ![m] = current_task]
  /\ task_block(m, "BLOCKED_LOCK")
  /\ UNCHANGED lock

LockTaken(m) ==
  /\ lock[m] = 1
  /\ acquiring' = [acquiring EXCEPT ![current_task] = m]
  /\ task_block(m, "BLOCKED_LOCK")
  /\ UNCHANGED <<lock, locked_task>>

mutex_lock(m) ==
  /\ AtCallPoint /\ current_task # NULL
  /\ locked_task[m] # current_task
  /\ LockFree(m) \/ LockTaken(m)
  /\ UNCHANGED count

\* The rest of mutex_lock(), when the task it blocked runs again.
MutexLocked(m) ==
  /\ InKernel
  /\ acquiring[current_task] = m
  /\ locked_task' = [locked_task EXCEPT ![m] = current_task]
  /\ acquiring' = [acquiring EXCEPT ![current_task] = NULL]
  /\ UNCHANGED <<schedVars, count, lock>>

\* Mutant: frees the lock that it hands over.
mutex_unlock_frees(m) ==
  /\ AtCallPoint /\ current_task # NULL
  /\ locked_task[m] = current_task
  /\ locked_task' = [locked_task EXCEPT ![m] = NULL]
  /\ lock' = [lock EXCEPT ![m] = 0]
  /\ \/ blocked_tasks[m] # <<>> /\ task_unblock_next(m)
     \/ blocked_tasks[m] = <<>> /\ UNCHANGED schedVars
  /\ UNCHANGED <<count, acquiring>>

\* Mutant: wakes nobody.
mutex_unlock_silent(m) ==
  /\ AtCallPoint /\ current_task # NULL
  /\ locked_task[m] = current_task
  /\ locked_task' = [locked_task EXCEPT ![m] = NULL]
  /\ lock' = [lock EXCEPT ![m] = 0]
  /\ UNCHANGED <<schedVars, count, acquiring>>

mutex_unlock(m) ==
  /\ AtCallPoint /\ current_task # NULL
  /\ locked_task[m] = current_task
  /\ locked_task' = [locked_task EXCEPT ![m] = NULL]
  /\ \/ /\ blocked_tasks[m] # <<>>
        /\ task_unblock_next(m)
        /\ UNCHANGED lock
     \/ /\ blocked_tasks[m] = <<>>
        /\ lock' = [lock EXCEPT ![m] = 0]
        /\ UNCHANGED schedVars
  /\ UNCHANGED <<count, acquiring>>

-----------------------------------------------------------------------------
SyncInit ==
  /\ SchedulerInit
  /\ count = [s \in Sem |-> 0]
  /\ lock = [m \in Mutex |-> 0]
  /\ locked_task = [m \in Mutex |-> NULL]
  /\ acquiring = [t \in Task |-> NULL]

\* The other calls of a task.  No task ends with a mutex in its hands.
OtherTaskStep ==
  /\ AtCallPoint
  /\ \/ yield
     \/ \E n \in 1..MaxSleep : task_sleep_until(n)
     \/ \E n \in 0..MaxSleep : task_sleep_miliseconds(n)
     \/ Holding(current_task) = {} /\ task_exit
  /\ UNCHANGED syncVars

MachineStep ==
  /\ \/ Interruptible /\ TimerIrq
     \/ WakeExpired \/ PutBack \/ WakeupDone \/ IdleExit
     \/ tasking_enable
     \/ \E t \in Task : (scheduler_ready => AtCallPoint) /\ task_add(t)
  /\ UNCHANGED syncVars

SyncStep ==
  \/ \E s \in Sem : semaphore_acquire(s) \/ semaphore_release(s)
  \/ \E m \in Mutex : mutex_lock(m) \/ MutexLocked(m) \/ mutex_unlock(m)

Next == SyncStep \/ OtherTaskStep \/ MachineStep

\* The machine makes progress: an interrupt handler finishes, the timer keeps
\* firing when interrupts are let in, the idle loop gets to its test between
\* two ticks (hence strong fairness), a kernel task comes to a call that gives
\* up the cpu, the end of mutex_lock() follows at once, and a task that owns a
\* mutex gives it back.  User code is not fair: it may compute forever.
Fairness ==
  /\ SF_vars(TimerIrq /\ MachineStep)
  /\ WF_vars((WakeExpired \/ PutBack \/ WakeupDone) /\ UNCHANGED syncVars)
  /\ SF_vars(IdleExit /\ UNCHANGED syncVars)
  /\ WF_vars(tasking_enable /\ UNCHANGED syncVars)
  /\ WF_vars(current_task \in KTask /\ OtherTaskStep)
  /\ WF_vars(\E m \in Mutex : MutexLocked(m))
  /\ \A t \in Task, m \in Mutex : SF_vars(current_task = t /\ mutex_unlock(m))

Spec == SyncInit /\ [][Next]_vars

FairSpec == Spec /\ Fairness

-----------------------------------------------------------------------------
(* Properties.                                                              *)

\* Types of semaphore_t and mutex_t, and of the mutex each task waits for.
SyncTypeOK ==
  /\ TypeOK
  /\ count \in [Sem -> Nat]
  /\ lock \in [Mutex -> {0, 1}]
  /\ locked_task \in [Mutex -> Task \cup {NULL}]
  /\ acquiring \in [Task -> Mutex \cup {NULL}]

\* The tasks m belongs to: the recorded owner, or the one woken by
\* mutex_unlock() that has not run yet.
Owners(m) ==
  {t \in Task : \/ locked_task[m] = t
                \/ acquiring[t] = m /\ t \notin Range(blocked_tasks[m])}

\* A taken mutex has exactly one owner through every hand-over, a free one has
\* neither owner nor waiter (the assertions of task.c:467, 473 and 474).
MutualExclusion ==
  \A m \in Mutex :
    /\ lock[m] = 0 => Owners(m) = {} /\ blocked_tasks[m] = <<>>
    /\ lock[m] = 1 => \E t \in Task : Owners(m) = {t}

\* No task waits for a semaphore that has a unit to give: no wakeup is lost
\* between semaphore_acquire()'s test and its block.
NoLostPermit == \A s \in Sem : count[s] > 0 => blocked_tasks[s] = <<>>

\* Whoever waits in a mutex's queue is a task stopped inside mutex_lock() of
\* that mutex, and the owner never waits for it.
WaitersWantIt ==
  \A m \in Mutex : \A t \in Range(blocked_tasks[m]) :
    acquiring[t] = m /\ locked_task[m] # t

\* Mutexes keep their shape through mutex_lock(), mutex_unlock() and the time
\* between a hand-over and the new owner's next run.
MutexesConsistent == SyncTypeOK /\ MutualExclusion /\ WaitersWantIt

\* The mutexes implement FifoLock: the line is the owner and the waiters.
Line(m) == IF lock[m] = 0 THEN <<>>
           ELSE <<CHOOSE t \in Owners(m) : TRUE>> \o blocked_tasks[m]

Abstract == INSTANCE FifoLock WITH line <- [m \in Mutex |-> Line(m)]

ImplementsFifoLock == Abstract!Spec

\* Whoever asks for a mutex gets it, provided owners give it back and the
\* timer is let in again and again (an owner may be sleeping).
MutexIsGranted ==
  []<>IrqsEnabled =>
    \A t \in Task, m \in Mutex : acquiring[t] = m ~> locked_task[m] = t
=============================================================================
