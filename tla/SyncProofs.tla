----------------------------- MODULE SyncProofs -----------------------------
(***************************************************************************)
(* Semaphores, mutexes and the log, for every set of tasks, semaphores and *)
(* mutexes.                                                                *)
(*                                                                         *)
(* Every step of Sync is a step of the scheduler, so all that is proved of *)
(* SchedulerSpec holds here.  Together with it the checked invariants are  *)
(* inductive as they stand: Owners() already tells who holds a mutex while *)
(* it is handed over.  On top of them each step is shown to be a step of   *)
(* the abstract lock.                                                      *)
(*                                                                         *)
(* The log (Console) takes steps of Sync until a busy UART in the message  *)
(* about an exit makes __schedule() forget a task.  From then on it is the *)
(* scheduler with the forgotten tasks taken out that keeps its invariant.  *)
(***************************************************************************)
EXTENDS Console, SchedulerProofs, FiniteSetTheorems

-----------------------------------------------------------------------------
(* Sync implements the scheduler.                                           *)

\* What the functions of this module do to the tasks, they do through the
\* scheduler's own functions.
LEMMA SyncSchedules ==
  ASSUME SyncAssumption, [Next]_vars
  PROVE  [SchedulerNext]_schedVars
<1>1. ASSUME NEW q \in Queue, task_block(q, "BLOCKED_LOCK") PROVE SchedulerNext
  BY <1>1 DEF SchedulerNext, TaskStep
<1>2. ASSUME NEW q \in Queue, task_unblock_next(q) PROVE SchedulerNext
  BY <1>2 DEF SchedulerNext
<1>3. ASSUME NEW s \in Sem, semaphore_acquire(s) \/ semaphore_release(s)
      PROVE  [SchedulerNext]_schedVars
  BY <1>1, <1>2, <1>3 DEF semaphore_acquire, semaphore_release, SyncAssumption
<1>4. ASSUME NEW m \in Mutex, mutex_lock(m) \/ MutexLocked(m) \/ mutex_unlock(m)
      PROVE  [SchedulerNext]_schedVars
  BY <1>1, <1>2, <1>4
     DEF mutex_lock, LockFree, LockTaken, MutexLocked, mutex_unlock, SyncAssumption
<1>5. CASE OtherTaskStep
  BY <1>5 DEF OtherTaskStep, SchedulerNext, TaskStep
<1>6. CASE MachineStep
  BY <1>6 DEF MachineStep, SchedulerNext, SystemStep
<1> QED BY <1>3, <1>4, <1>5, <1>6 DEF Next, SyncStep, vars

\* No interleaving of semaphore and mutex calls reaches a scheduler state, or
\* takes a scheduler step, that task.c's queue functions do not.
LEMMA SyncIsScheduling == Spec => SchedulerSpec
<1>1. SyncInit => SchedulerInit
  BY DEF SyncInit
<1>2. [Next]_vars => [SchedulerNext]_schedVars
  BY SyncSchedules, SyncAssumption
<1> QED BY <1>1, <1>2, PTL DEF Spec, SchedulerSpec

\* Hence semaphores and mutexes lose no task, double none, keep the scheduler
\* lock balanced and never resurrect or overtake one.
THEOREM SyncKeepsTasks ==
  Spec => /\ []TasksPlaced /\ []LockDiscipline
          /\ NoOvertaking /\ ExitIsFinal
<1>1. SchedulerSpec => []TasksPlaced /\ []LockDiscipline /\ NoOvertaking /\ ExitIsFinal
  BY TasksInPlace, LockBalanced, FirstInFirstOut, ExitFinal
<1> QED BY <1>1, SyncIsScheduling, PTL

-----------------------------------------------------------------------------
(* The inductive invariant.                                                 *)

SyncInv == /\ Inv
           /\ MutexesConsistent
           /\ NoLostPermit

\* The four shapes of a step as the queues see it: nobody blocks or wakes, the
\* current task blocks in q, or the head of q is woken.
LEMMA QueueEffect ==
  ASSUME SyncInv, SchedulerAssumption, SyncAssumption
  PROVE  /\ \A q \in Queue : task_block(q, "BLOCKED_LOCK") =>
               /\ InKernel
               /\ blocked_tasks' =
                    [blocked_tasks EXCEPT ![q] = Append(blocked_tasks[q], current_task)]
         /\ \A q \in Queue : task_unblock_next(q) =>
               /\ blocked_tasks[q] # <<>>
               /\ blocked_tasks' = [blocked_tasks EXCEPT ![q] = Tail(blocked_tasks[q])]
BY DEF task_block, __task_block, task_unblock_next, Unblock

\* A step that leaves the semaphores, the mutexes and the block queues alone.
LEMMA Untouched ==
  ASSUME SyncInv, TypeOK', UNCHANGED syncVars, blocked_tasks' = blocked_tasks
  PROVE  MutexesConsistent' /\ NoLostPermit'
<1>1. \A m \in Mutex : Owners(m)' = Owners(m)
  BY DEF Owners, syncVars
<1> QED
  BY <1>1 DEF SyncInv, MutexesConsistent, SyncTypeOK, MutualExclusion,
              WaitersWantIt, NoLostPermit, syncVars

\* A step that changes only the queue of a semaphore and semaphore counts.
LEMMA SemaphoreStep ==
  ASSUME SyncInv, SyncAssumption, TypeOK', UNCHANGED <<lock, locked_task, acquiring>>,
         NEW s \in Sem, count' \in [Sem -> Nat],
         \A q \in Queue \ {s} : blocked_tasks'[q] = blocked_tasks[q],
         \A r \in Sem \ {s} : count'[r] = count[r],
         count'[s] > 0 => blocked_tasks'[s] = <<>>
  PROVE  MutexesConsistent' /\ NoLostPermit'
<1>1. \A m \in Mutex : m \in Queue \ {s}
  BY DEF SyncAssumption
<1>2. \A m \in Mutex : Owners(m)' = Owners(m)
  BY <1>1 DEF Owners
<1>3. SyncTypeOK'
  BY DEF SyncInv, MutexesConsistent, SyncTypeOK
<1>4. MutualExclusion'
  BY <1>1, <1>2 DEF SyncInv, MutexesConsistent, MutualExclusion
<1>5. WaitersWantIt'
  BY <1>1 DEF SyncInv, MutexesConsistent, WaitersWantIt
<1>6. NoLostPermit'
  BY DEF SyncInv, NoLostPermit, SyncAssumption
<1> QED BY <1>3, <1>4, <1>5, <1>6 DEF MutexesConsistent

\* What mutex_lock() and mutex_unlock() find: a kernel path whose task waits in
\* no queue.
LEMMA CallerFacts ==
  ASSUME SyncInv, SchedulerAssumption, SyncAssumption, current_task # NULL, ~in_wakeup
  PROVE  /\ current_task \in Task
         /\ \A q \in Queue : current_task \notin Range(blocked_tasks[q])
         /\ \A q \in Queue : blocked_tasks[q] \in Seq(Task) /\ IsInjective(blocked_tasks[q])
         /\ blocked_tasks \in [Queue -> Seq(Task)]
         /\ lock \in [Mutex -> {0, 1}]
         /\ locked_task \in [Mutex -> Task \cup {NULL}]
         /\ acquiring \in [Task -> Mutex \cup {NULL}]
         /\ MutualExclusion /\ WaitersWantIt /\ NoLostPermit
<1>1. InKernel /\ Inv
  BY DEF InKernel, SyncInv
<1>2. current_task \in Task /\ state[current_task] = "RUNNING"
  BY <1>1, KernelPath
<1>3. \A q \in Queue : current_task \notin Range(blocked_tasks[q])
  BY <1>1, <1>2 DEF Inv, QueuesMatchStates, Blocked
<1> QED
  BY <1>2, <1>3 DEF SyncInv, Inv, TypeOK, NoDuplicates, MutexesConsistent, SyncTypeOK

\* mutex_lock() on a free mutex.
LEMMA LockFreeStep ==
  ASSUME SyncInv, SchedulerAssumption, SyncAssumption, TypeOK',
         NEW m \in Mutex, mutex_lock(m), LockFree(m)
  PROVE  MutexesConsistent' /\ NoLostPermit'
<1>1. /\ current_task \in Task /\ lock \in [Mutex -> {0, 1}]
      /\ locked_task \in [Mutex -> Task \cup {NULL}] /\ NULL \notin Task
      /\ MutualExclusion /\ WaitersWantIt
  BY CallerFacts DEF mutex_lock, AtCallPoint, SchedulerAssumption
<1>2. /\ lock[m] = 0 /\ lock' = [lock EXCEPT ![m] = 1]
      /\ locked_task' = [locked_task EXCEPT ![m] = current_task]
      /\ acquiring' = acquiring /\ count' = count /\ blocked_tasks' = blocked_tasks
  BY DEF LockFree, mutex_lock, schedVars, blockVars
<1>3. Owners(m) = {} /\ blocked_tasks[m] = <<>>
  BY <1>1, <1>2 DEF MutualExclusion
<1>4. Owners(m)' = {current_task}
  BY <1>1, <1>2, <1>3 DEF Owners
<1>5. \A n \in Mutex \ {m} : Owners(n)' = Owners(n)
  BY <1>1, <1>2 DEF Owners
<1>6. SyncTypeOK'
  BY <1>1, <1>2 DEF SyncTypeOK, SyncInv, MutexesConsistent
<1>7. MutualExclusion'
  BY <1>1, <1>2, <1>4, <1>5 DEF MutualExclusion
<1>8. WaitersWantIt'
  <2>1. Range(<<>>) = {}
    BY DEF Range
  <2> QED BY <1>1, <1>2, <1>3, <2>1 DEF WaitersWantIt
<1>9. NoLostPermit'
  BY <1>2 DEF NoLostPermit, SyncInv
<1> QED BY <1>6, <1>7, <1>8, <1>9 DEF MutexesConsistent

\* mutex_lock() on a taken mutex: the caller joins the line.
LEMMA LockTakenStep ==
  ASSUME SyncInv, SchedulerAssumption, SyncAssumption, TypeOK',
         NEW m \in Mutex, mutex_lock(m), LockTaken(m)
  PROVE  MutexesConsistent' /\ NoLostPermit' /\ Owners(m)' = Owners(m)
         /\ \A n \in Mutex \ {m} : Owners(n)' = Owners(n)
<1>1. /\ current_task \in Task /\ m \in Queue
      /\ blocked_tasks \in [Queue -> Seq(Task)]
      /\ acquiring \in [Task -> Mutex \cup {NULL}] /\ NULL \notin Mutex
      /\ MutualExclusion /\ WaitersWantIt
  BY CallerFacts DEF mutex_lock, AtCallPoint, SyncAssumption
<1>2. /\ lock[m] = 1 /\ acquiring' = [acquiring EXCEPT ![current_task] = m]
      /\ lock' = lock /\ locked_task' = locked_task /\ count' = count
      /\ blocked_tasks' = [blocked_tasks EXCEPT ![m] = Append(blocked_tasks[m], current_task)]
      /\ acquiring[current_task] = NULL /\ locked_task[m] # current_task
  BY <1>1, QueueEffect DEF LockTaken, mutex_lock, AtCallPoint
<1>3. blocked_tasks[m] \in Seq(Task)
  BY <1>1
<1>4. Range(Append(blocked_tasks[m], current_task)) = Range(blocked_tasks[m]) \cup {current_task}
  BY ONLY <1>1, <1>3, AppendFacts
<1>5. Range(blocked_tasks'[m]) = Range(blocked_tasks[m]) \cup {current_task}
  BY <1>1, <1>2, <1>4
<1>6. \A q \in Queue \ {m} : blocked_tasks'[q] = blocked_tasks[q]
  BY <1>1, <1>2
<1>7. Owners(m)' = Owners(m)
  BY <1>1, <1>2, <1>5 DEF Owners
<1>8. ASSUME NEW n \in Mutex \ {m} PROVE Owners(n)' = Owners(n)
  BY <1>1, <1>2, <1>6, <1>8 DEF Owners, SyncAssumption
<1>9. SyncTypeOK'
  BY <1>1, <1>2 DEF SyncTypeOK, SyncInv, MutexesConsistent
<1>10. MutualExclusion'
  BY <1>1, <1>2, <1>6, <1>7, <1>8 DEF MutualExclusion, SyncAssumption
<1>11. WaitersWantIt'
  <2> SUFFICES ASSUME NEW n \in Mutex, NEW t \in Range(blocked_tasks'[n])
               PROVE  acquiring'[t] = n /\ locked_task'[n] # t
    BY DEF WaitersWantIt
  <2>1. CASE n = m /\ t = current_task
    BY <1>1, <1>2, <2>1
  <2>2. CASE t \in Range(blocked_tasks[n])
    <3>1. acquiring[t] = n /\ locked_task[n] # t /\ t # current_task
      BY <1>1, <1>2, <2>2 DEF WaitersWantIt
    <3> QED BY <1>1, <1>2, <3>1
  <2> QED BY <1>5, <1>6, <2>1, <2>2 DEF SyncAssumption
<1>12. NoLostPermit'
  <2>1. \A s \in Sem : blocked_tasks'[s] = blocked_tasks[s]
    BY <1>6 DEF SyncAssumption
  <2> QED BY <1>2, <2>1 DEF NoLostPermit, SyncInv
<1> QED BY <1>7, <1>8, <1>9, <1>10, <1>11, <1>12 DEF MutexesConsistent

\* The end of mutex_lock(): the woken task was the owner already.
LEMMA MutexLockedStep ==
  ASSUME SyncInv, SchedulerAssumption, SyncAssumption, TypeOK',
         NEW m \in Mutex, MutexLocked(m)
  PROVE  /\ MutexesConsistent' /\ NoLostPermit'
         /\ \A n \in Mutex : Owners(n)' = Owners(n)
<1>1. /\ current_task \in Task /\ m \in Queue
      /\ \A q \in Queue : current_task \notin Range(blocked_tasks[q])
      /\ lock \in [Mutex -> {0, 1}]
      /\ locked_task \in [Mutex -> Task \cup {NULL}]
      /\ acquiring \in [Task -> Mutex \cup {NULL}] /\ NULL \notin Mutex
      /\ MutualExclusion /\ WaitersWantIt
  BY CallerFacts DEF MutexLocked, InKernel, SyncAssumption
<1>2. /\ acquiring[current_task] = m
      /\ locked_task' = [locked_task EXCEPT ![m] = current_task]
      /\ acquiring' = [acquiring EXCEPT ![current_task] = NULL]
      /\ lock' = lock /\ count' = count /\ blocked_tasks' = blocked_tasks
  BY DEF MutexLocked, schedVars, blockVars
<1>3. current_task \in Owners(m)
  BY <1>1, <1>2 DEF Owners
<1>4. lock[m] = 1 /\ Owners(m) = {current_task}
  BY <1>1, <1>3 DEF MutualExclusion
<1>5. Owners(m)' = Owners(m)
  <2>1. ASSUME NEW t \in Task, t # current_task PROVE t \notin Owners(m)'
    <3>1. t \notin Owners(m)
      BY <1>4, <2>1
    <3> QED BY <1>1, <1>2, <2>1, <3>1 DEF Owners
  <2>2. current_task \in Owners(m)'
    BY <1>1, <1>2 DEF Owners
  <2>3. Owners(m)' \subseteq Task
    BY DEF Owners
  <2> QED BY <1>4, <2>1, <2>2, <2>3
<1>6. ASSUME NEW n \in Mutex \ {m} PROVE Owners(n)' = Owners(n)
  BY <1>1, <1>2, <1>6 DEF Owners
<1>7. SyncTypeOK'
  BY <1>1, <1>2 DEF SyncTypeOK, SyncInv, MutexesConsistent
<1>8. MutualExclusion'
  BY <1>1, <1>2, <1>5, <1>6 DEF MutualExclusion
<1>9. WaitersWantIt'
  <2> SUFFICES ASSUME NEW n \in Mutex, NEW t \in Range(blocked_tasks[n])
               PROVE  acquiring'[t] = n /\ locked_task'[n] # t
    BY <1>2 DEF WaitersWantIt
  <2>1. acquiring[t] = n /\ locked_task[n] # t /\ t # current_task
    BY <1>1 DEF WaitersWantIt, SyncAssumption
  <2> QED BY <1>1, <1>2, <2>1
<1>10. NoLostPermit'
  BY <1>2 DEF NoLostPermit, SyncInv
<1> QED BY <1>5, <1>6, <1>7, <1>8, <1>9, <1>10 DEF MutexesConsistent

\* mutex_unlock(): the lock goes to the first waiter, or becomes free.
LEMMA UnlockStep ==
  ASSUME SyncInv, SchedulerAssumption, SyncAssumption, TypeOK',
         NEW m \in Mutex, mutex_unlock(m)
  PROVE  /\ MutexesConsistent' /\ NoLostPermit'
         /\ lock[m] = 1
         /\ \/ /\ blocked_tasks[m] # <<>> /\ lock'[m] = 1
               /\ Owners(m)' = {Head(blocked_tasks[m])}
               /\ blocked_tasks'[m] = Tail(blocked_tasks[m])
            \/ blocked_tasks[m] = <<>> /\ lock'[m] = 0
         /\ \A n \in Mutex \ {m} : /\ Owners(n)' = Owners(n)
                                   /\ blocked_tasks'[n] = blocked_tasks[n]
                                   /\ lock'[n] = lock[n]
<1>1. /\ current_task \in Task /\ m \in Queue
      /\ blocked_tasks \in [Queue -> Seq(Task)]
      /\ IsInjective(blocked_tasks[m])
      /\ lock \in [Mutex -> {0, 1}]
      /\ locked_task \in [Mutex -> Task \cup {NULL}] /\ NULL \notin Task
      /\ acquiring \in [Task -> Mutex \cup {NULL}] /\ NULL \notin Mutex
      /\ MutualExclusion /\ WaitersWantIt
  BY CallerFacts DEF mutex_unlock, AtCallPoint, SyncAssumption, SchedulerAssumption
<1>2. /\ acquiring[current_task] = NULL /\ locked_task[m] = current_task
      /\ locked_task' = [locked_task EXCEPT ![m] = NULL]
      /\ acquiring' = acquiring /\ count' = count
  BY DEF mutex_unlock, AtCallPoint
<1>3. current_task \in Owners(m)
  BY <1>1, <1>2 DEF Owners
<1>4. lock[m] = 1 /\ Owners(m) = {current_task}
  BY <1>1, <1>3 DEF MutualExclusion
<1>5. ASSUME NEW t \in Task, acquiring[t] = m PROVE t \in Range(blocked_tasks[m])
  <2>1. t \notin Owners(m)
    BY <1>1, <1>2, <1>4, <1>5
  <2> QED BY <1>5, <2>1 DEF Owners
<1>6. CASE blocked_tasks[m] # <<>> /\ task_unblock_next(m) /\ lock' = lock
  <2> DEFINE h == Head(blocked_tasks[m])
             tl == Tail(blocked_tasks[m])
  <2>1. blocked_tasks' = [blocked_tasks EXCEPT ![m] = tl]
    BY <1>1, <1>6, QueueEffect
  <2>2. blocked_tasks[m] \in Seq(Task) /\ blocked_tasks[m] # <<>>
    BY <1>1, <1>6
  <2>3. h \in Task /\ h \in Range(blocked_tasks[m]) /\ Range(tl) = Range(blocked_tasks[m]) \ {h}
    BY ONLY <1>1, <2>2, TailFacts
  <2> HIDE DEF h, tl
  <2>4. blocked_tasks'[m] = tl /\ \A q \in Queue \ {m} : blocked_tasks'[q] = blocked_tasks[q]
    BY <1>1, <2>1
  <2>5. acquiring[h] = m
    BY <1>1, <2>3 DEF WaitersWantIt
  <2>6. Owners(m)' = {h}
    <3>1. h \in Owners(m)'
      BY <1>2, <2>3, <2>4, <2>5 DEF Owners
    <3>2. ASSUME NEW t \in Owners(m)' PROVE t = h
      <4>1. t \in Task /\ acquiring[t] = m /\ t \notin Range(tl)
        BY <1>1, <1>2, <2>4, <3>2 DEF Owners
      <4> QED BY <1>5, <2>3, <4>1
    <3> QED BY <3>1, <3>2
  <2>7. ASSUME NEW n \in Mutex \ {m} PROVE Owners(n)' = Owners(n) /\ n \in Queue \ {m}
    BY <1>1, <1>2, <2>4, <2>7 DEF Owners, SyncAssumption
  <2>8. SyncTypeOK'
    BY <1>1, <1>2, <1>6 DEF SyncTypeOK, SyncInv, MutexesConsistent
  <2>9. MutualExclusion'
    BY <1>1, <1>4, <1>6, <2>3, <2>4, <2>6, <2>7 DEF MutualExclusion
  <2>10. WaitersWantIt'
    <3> SUFFICES ASSUME NEW n \in Mutex, NEW t \in Range(blocked_tasks'[n])
                 PROVE  acquiring'[t] = n /\ locked_task'[n] # t
      BY DEF WaitersWantIt
    <3>1. t \in Range(blocked_tasks[n])
      BY <2>3, <2>4, <2>7
    <3>2. acquiring[t] = n /\ locked_task[n] # t
      BY <1>1, <3>1 DEF WaitersWantIt
    <3>3. t \in Task
      BY <1>1, <3>1 DEF SyncAssumption, Range
    <3> QED BY <1>1, <1>2, <3>2, <3>3
  <2>11. NoLostPermit'
    <3>1. \A s \in Sem : blocked_tasks'[s] = blocked_tasks[s]
      BY <2>4 DEF SyncAssumption
    <3> QED BY <1>2, <3>1 DEF NoLostPermit, SyncInv
  <2> QED
    BY <1>4, <1>6, <2>4, <2>6, <2>7, <2>8, <2>9, <2>10, <2>11 DEF MutexesConsistent, h, tl
<1>7. CASE /\ blocked_tasks[m] = <<>> /\ lock' = [lock EXCEPT ![m] = 0]
           /\ UNCHANGED schedVars
  <2>1. blocked_tasks' = blocked_tasks /\ Range(<<>>) = {}
    BY <1>7 DEF schedVars, blockVars, Range
  <2>2. Owners(m)' = {}
    BY <1>1, <1>2, <1>5, <1>7, <2>1 DEF Owners
  <2>3. ASSUME NEW n \in Mutex \ {m} PROVE Owners(n)' = Owners(n)
    BY <1>1, <1>2, <2>1, <2>3 DEF Owners
  <2>4. SyncTypeOK'
    BY <1>1, <1>2, <1>7 DEF SyncTypeOK, SyncInv, MutexesConsistent
  <2>5. MutualExclusion'
    BY <1>1, <1>7, <2>1, <2>2, <2>3 DEF MutualExclusion
  <2>6. WaitersWantIt'
    BY <1>1, <1>2, <1>7, <2>1 DEF WaitersWantIt
  <2>7. NoLostPermit'
    BY <1>2, <2>1 DEF NoLostPermit, SyncInv
  <2> QED BY <1>1, <1>4, <1>7, <2>1, <2>3, <2>4, <2>5, <2>6, <2>7 DEF MutexesConsistent
<1> QED BY <1>6, <1>7 DEF mutex_unlock

\* No other call of a task, and nothing the machine does, blocks or wakes
\* anybody in a semaphore or a mutex.
LEMMA OthersLeaveQueues ==
  ASSUME OtherTaskStep \/ MachineStep
  PROVE  UNCHANGED syncVars /\ blocked_tasks' = blocked_tasks
BY DEF OtherTaskStep, MachineStep, yield, task_sleep_until, task_sleep_miliseconds,
       task_exit, TimerIrq, WakeExpired, PutBack, WakeupDone, IdleExit,
       tasking_enable, task_add, blockVars

\* semaphore_acquire() and semaphore_release().
LEMMA SemaphoreSteps ==
  ASSUME SyncInv, SchedulerAssumption, SyncAssumption, TypeOK',
         NEW s \in Sem, semaphore_acquire(s) \/ semaphore_release(s)
  PROVE  MutexesConsistent' /\ NoLostPermit'
<1>1. /\ count \in [Sem -> Nat] /\ s \in Queue /\ NoLostPermit
      /\ blocked_tasks \in [Queue -> Seq(Task)]
  BY DEF SyncInv, Inv, TypeOK, MutexesConsistent, SyncTypeOK, SyncAssumption
<1>2. UNCHANGED <<lock, locked_task, acquiring>>
  BY DEF semaphore_acquire, semaphore_release
<1>3. CASE semaphore_acquire(s) /\ count[s] > 0
  <2>1. count' = [count EXCEPT ![s] = @ - 1] /\ blocked_tasks' = blocked_tasks
    BY <1>1, <1>3 DEF semaphore_acquire, schedVars, blockVars
  <2>2. blocked_tasks[s] = <<>>
    BY <1>1, <1>3 DEF NoLostPermit
  <2>3. count' \in [Sem -> Nat] /\ \A r \in Sem \ {s} : count'[r] = count[r]
    BY <1>1, <1>3, <2>1
  <2> QED BY <1>2, <2>1, <2>2, <2>3, SemaphoreStep
<1>4. CASE semaphore_acquire(s) /\ count[s] = 0
  <2>1. count' = count /\ task_block(s, "BLOCKED_LOCK")
    BY <1>4 DEF semaphore_acquire
  <2>2. \A q \in Queue \ {s} : blocked_tasks'[q] = blocked_tasks[q]
    BY <1>1, <2>1, QueueEffect
  <2> QED BY <1>1, <1>2, <1>4, <2>1, <2>2, SemaphoreStep
<1>5. CASE semaphore_release(s) /\ blocked_tasks[s] # <<>>
  <2>1. count' = count /\ task_unblock_next(s)
    BY <1>5 DEF semaphore_release
  <2>2. \A q \in Queue \ {s} : blocked_tasks'[q] = blocked_tasks[q]
    BY <1>1, <2>1, QueueEffect
  <2>3. ~(count'[s] > 0)
    BY <1>1, <1>5, <2>1 DEF NoLostPermit
  <2> QED BY <1>1, <1>2, <2>1, <2>2, <2>3, SemaphoreStep
<1>6. CASE semaphore_release(s) /\ blocked_tasks[s] = <<>>
  <2>1. count' = [count EXCEPT ![s] = @ + 1] /\ blocked_tasks' = blocked_tasks
    BY <1>6 DEF semaphore_release, schedVars, blockVars
  <2>2. count' \in [Sem -> Nat] /\ \A r \in Sem \ {s} : count'[r] = count[r]
    BY <1>1, <2>1
  <2> QED BY <1>2, <1>6, <2>1, <2>2, SemaphoreStep
<1> QED BY <1>1, <1>3, <1>4, <1>5, <1>6

LEMMA SyncStepInv ==
  ASSUME SyncInv, SchedulerAssumption, SyncAssumption, [Next]_vars
  PROVE  SyncInv'
<1>1. Inv' /\ TypeOK'
  <2>1. Inv'
    BY SyncSchedules, StepInv DEF SyncInv
  <2> QED BY <2>1 DEF Inv
<1>2. ASSUME NEW s \in Sem, semaphore_acquire(s) \/ semaphore_release(s)
      PROVE  MutexesConsistent' /\ NoLostPermit'
  BY <1>1, <1>2, SemaphoreSteps
<1>3. ASSUME NEW m \in Mutex, mutex_lock(m)
      PROVE  MutexesConsistent' /\ NoLostPermit'
  BY <1>1, <1>3, LockFreeStep, LockTakenStep DEF mutex_lock
<1>4. ASSUME NEW m \in Mutex, MutexLocked(m) \/ mutex_unlock(m)
      PROVE  MutexesConsistent' /\ NoLostPermit'
  BY <1>1, <1>4, MutexLockedStep, UnlockStep
<1>5. OtherTaskStep \/ MachineStep => MutexesConsistent' /\ NoLostPermit'
  BY <1>1, OthersLeaveQueues, Untouched
<1>6. UNCHANGED vars => MutexesConsistent' /\ NoLostPermit'
  BY <1>1, Untouched DEF vars, schedVars, blockVars
<1>7. MutexesConsistent' /\ NoLostPermit'
  BY <1>2, <1>3, <1>4, <1>5, <1>6 DEF Next, SyncStep
<1> QED BY <1>1, <1>7 DEF SyncInv

LEMMA SyncInitInv == ASSUME SchedulerAssumption, SyncAssumption, SyncInit PROVE SyncInv
<1>1. Inv
  BY InitInv DEF SyncInit
<1>2. SyncTypeOK
  BY <1>1 DEF SyncInit, SyncTypeOK, Inv
<1>3. \A q \in Queue : blocked_tasks[q] = <<>>
  BY DEF SyncInit, SchedulerInit
<1>4. \A m \in Mutex : m \in Queue /\ Owners(m) = {} /\ lock[m] = 0 /\ Range(<<>>) = {}
  BY DEF SyncInit, Owners, Range, SyncAssumption, SchedulerAssumption
<1>5. MutualExclusion /\ WaitersWantIt
  BY <1>3, <1>4 DEF MutualExclusion, WaitersWantIt
<1>6. NoLostPermit
  BY <1>3 DEF NoLostPermit, SyncAssumption
<1> QED BY <1>1, <1>2, <1>5, <1>6 DEF SyncInv, MutexesConsistent

\* The scheduler's, the semaphores' and the mutexes' invariants hold together.
THEOREM SyncSafe == Spec => []SyncInv
<1>1. SyncInit => SyncInv
  BY SyncInitInv, SchedulerAssumption, SyncAssumption
<1>2. SyncInv /\ [Next]_vars => SyncInv'
  BY SyncStepInv, SchedulerAssumption, SyncAssumption
<1> QED BY <1>1, <1>2, PTL DEF Spec

\* A taken mutex has exactly one owner, also between mutex_unlock()'s wakeup
\* and the end of the woken task's mutex_lock(); a free one has no waiter
\* (the assertions of task.c:467, 473 and 474).
THEOREM MutexesAreExclusive == Spec => []MutexesConsistent
<1>1. SyncInv => MutexesConsistent
  BY DEF SyncInv
<1> QED BY <1>1, SyncSafe, PTL

\* No task sleeps in semaphore_acquire() while the semaphore has a unit.
THEOREM PermitsReachWaiters == Spec => []NoLostPermit
<1>1. SyncInv => NoLostPermit
  BY DEF SyncInv
<1> QED BY <1>1, SyncSafe, PTL

-----------------------------------------------------------------------------
(* The mutexes implement FifoLock.                                          *)

\* Joining behind somebody, and the first one leaving.
LEMMA LineSteps ==
  ASSUME NEW o \in Task, NEW w \in Seq(Task)
  PROVE  /\ \A t \in Task : <<o>> \o Append(w, t) = Append(<<o>> \o w, t)
         /\ Tail(<<o>> \o w) = w
         /\ <<o>> \o w # <<>>
         /\ w # <<>> => <<Head(w)>> \o Tail(w) = w
         /\ Range(<<o>> \o w) = {o} \cup Range(w)
<1>1. \A t \in Task : <<o>> \o Append(w, t) = Append(<<o>> \o w, t)
  OBVIOUS
<1>2. Tail(<<o>> \o w) = w
  OBVIOUS
<1>3. <<o>> \o w # <<>>
  OBVIOUS
<1>4. w # <<>> => <<Head(w)>> \o Tail(w) = w
  OBVIOUS
<1>5. Range(<<o>> \o w) = {o} \cup Range(w)
  <2> DEFINE l == <<o>> \o w
  <2>1. /\ DOMAIN l = 1..(Len(w) + 1) /\ DOMAIN w = 1..Len(w) /\ Len(w) \in Nat
        /\ l[1] = o /\ \A i \in 1..Len(w) : l[i + 1] = w[i]
    OBVIOUS
  <2> HIDE DEF l
  <2>2. ASSUME NEW x \in Range(l) PROVE x \in {o} \cup Range(w)
    <3>1. PICK i \in 1..(Len(w) + 1) : x = l[i]
      BY <2>1, <2>2 DEF Range
    <3>2. i = 1 \/ (i - 1 \in 1..Len(w) /\ l[(i - 1) + 1] = w[i - 1])
      BY <2>1
    <3> QED BY <2>1, <3>1, <3>2 DEF Range
  <2>3. ASSUME NEW x \in {o} \cup Range(w) PROVE x \in Range(l)
    BY <2>1, <2>3 DEF Range
  <2> QED BY <2>2, <2>3 DEF l
<1> QED BY <1>1, <1>2, <1>3, <1>4, <1>5

lines == [m \in Mutex |-> Line(m)]

\* A step that moves nobody in the line of m.
LEMMA LineStays ==
  ASSUME SyncInv, NEW m \in Mutex,
         lock'[m] = lock[m], Owners(m)' = Owners(m), blocked_tasks'[m] = blocked_tasks[m]
  PROVE  Line(m)' = Line(m)
<1>1. CASE lock[m] = 0
  BY <1>1 DEF Line
<1>2. CASE lock[m] = 1
  <2>1. PICK o \in Task : Owners(m) = {o}
    BY <1>2 DEF SyncInv, MutexesConsistent, MutualExclusion
  <2>2. Line(m) = <<o>> \o blocked_tasks[m]
    BY <1>2, <2>1 DEF Line
  <2>3. Line(m)' = <<o>> \o blocked_tasks[m]
    BY <1>2, <2>1 DEF Line
  <2> QED BY <2>2, <2>3
<1> QED BY <1>1, <1>2 DEF SyncInv, MutexesConsistent, SyncTypeOK

\* One line changes as FifoLock says, the others stay.
LEMMA JoinLine ==
  ASSUME NEW m \in Mutex, NEW t \in Task, t \notin Range(Line(m)),
         Line(m)' = Append(Line(m), t),
         \A n \in Mutex \ {m} : Line(n)' = Line(n)
  PROVE  Abstract!Next
<1>1. lines' = [lines EXCEPT ![m] = Append(lines[m], t)]
  BY DEF lines
<1>2. Abstract!Join(t, m)
  BY <1>1 DEF Abstract!Join, Abstract!Range, Range, lines
<1> QED BY <1>2 DEF Abstract!Next

LEMMA LeaveLine ==
  ASSUME NEW m \in Mutex, Line(m) # <<>>, Line(m)' = Tail(Line(m)),
         \A n \in Mutex \ {m} : Line(n)' = Line(n)
  PROVE  Abstract!Next
<1>1. lines' = [lines EXCEPT ![m] = Tail(lines[m])]
  BY DEF lines
<1>2. Abstract!Leave(m)
  BY <1>1 DEF Abstract!Leave, lines
<1> QED BY <1>2 DEF Abstract!Next

\* mutex_lock() joins the line, at once as its owner or as its last waiter.
LEMMA LockJoins ==
  ASSUME SyncInv, SyncInv', SchedulerAssumption, SyncAssumption,
         NEW m \in Mutex, mutex_lock(m)
  PROVE  Abstract!Next
<1>1. /\ current_task \in Task /\ m \in Queue
      /\ \A q \in Queue : current_task \notin Range(blocked_tasks[q])
      /\ blocked_tasks \in [Queue -> Seq(Task)]
      /\ lock \in [Mutex -> {0, 1}] /\ MutualExclusion
      /\ locked_task \in [Mutex -> Task \cup {NULL}]
  BY CallerFacts DEF mutex_lock, AtCallPoint, SyncAssumption
<1>2. TypeOK' /\ MutualExclusion' /\ acquiring[current_task] = NULL
      /\ locked_task[m] # current_task /\ NULL \notin Mutex /\ NULL \notin Task
  BY DEF SyncInv, Inv, MutexesConsistent, mutex_lock, AtCallPoint, SyncAssumption,
         SchedulerAssumption
<1>3. CASE LockFree(m)
  <2>1. /\ lock[m] = 0 /\ lock' = [lock EXCEPT ![m] = 1]
        /\ locked_task' = [locked_task EXCEPT ![m] = current_task]
        /\ acquiring' = acquiring /\ blocked_tasks' = blocked_tasks
    BY <1>3 DEF LockFree, schedVars, blockVars
  <2>2. Line(m) = <<>> /\ blocked_tasks[m] = <<>> /\ Owners(m) = {}
    BY <1>1, <2>1 DEF Line, MutualExclusion
  <2>3. Owners(m)' = {current_task} /\ lock'[m] = 1
    BY <1>1, <2>1, <2>2 DEF Owners
  <2>4. Line(m)' = <<current_task>> \o <<>>
    BY <2>1, <2>2, <2>3 DEF Line
  <2>5. \A n \in Mutex \ {m} : Owners(n)' = Owners(n) /\ lock'[n] = lock[n]
    BY <1>1, <2>1 DEF Owners
  <2>6. \A n \in Mutex \ {m} : Line(n)' = Line(n)
    BY <2>1, <2>5, LineStays
  <2>7. Line(m)' = Append(Line(m), current_task) /\ current_task \notin Range(Line(m))
    BY <2>2, <2>4 DEF Range
  <2> QED BY <1>1, <2>6, <2>7, JoinLine
<1>4. CASE LockTaken(m)
  <2>1. /\ lock[m] = 1 /\ lock' = lock
        /\ blocked_tasks' = [blocked_tasks EXCEPT ![m] = Append(blocked_tasks[m], current_task)]
    BY <1>1, <1>4, QueueEffect DEF LockTaken
  <2>2. Owners(m)' = Owners(m) /\ \A n \in Mutex \ {m} : Owners(n)' = Owners(n)
    BY <1>2, <1>4, LockTakenStep
  <2>3. PICK o \in Task : Owners(m) = {o}
    BY <1>1, <2>1 DEF MutualExclusion
  <2>4. blocked_tasks[m] \in Seq(Task) /\ blocked_tasks'[m] = Append(blocked_tasks[m], current_task)
    BY <1>1, <2>1
  <2>5. Line(m) = <<o>> \o blocked_tasks[m]
    BY <2>1, <2>3 DEF Line
  <2>6. Line(m)' = <<o>> \o Append(blocked_tasks[m], current_task)
    BY <2>1, <2>2, <2>3, <2>4 DEF Line
  <2>7. Line(m)' = Append(Line(m), current_task)
    BY <1>1, <2>4, <2>5, <2>6, LineSteps
  <2>8. current_task \notin Owners(m)
    BY <1>1, <1>2 DEF Owners
  <2>9. current_task \notin Range(Line(m))
    <3>1. Range(<<o>> \o blocked_tasks[m]) = {o} \cup Range(blocked_tasks[m])
      BY <2>4, LineSteps
    <3> QED BY <1>1, <2>3, <2>5, <2>8, <3>1
  <2>10. \A n \in Mutex \ {m} : blocked_tasks'[n] = blocked_tasks[n]
    BY <1>1, <2>1 DEF SyncAssumption
  <2>11. \A n \in Mutex \ {m} : Line(n)' = Line(n)
    BY <2>1, <2>2, <2>10, LineStays
  <2> QED BY <1>1, <2>7, <2>9, <2>11, JoinLine
<1> QED BY <1>3, <1>4 DEF mutex_lock

\* mutex_unlock() takes the owner off the line, and the next one owns the lock.
LEMMA UnlockLeaves ==
  ASSUME SyncInv, SyncInv', SchedulerAssumption, SyncAssumption,
         NEW m \in Mutex, mutex_unlock(m)
  PROVE  Abstract!Next
<1>1. TypeOK'
  BY DEF SyncInv, Inv
<1>2. /\ lock[m] = 1 /\ m \in Queue /\ MutualExclusion
      /\ blocked_tasks \in [Queue -> Seq(Task)]
  BY <1>1, UnlockStep DEF SyncInv, MutexesConsistent, Inv, TypeOK, SyncAssumption
<1>3. PICK o \in Task : Owners(m) = {o}
  BY <1>2 DEF MutualExclusion
<1>4. Line(m) = <<o>> \o blocked_tasks[m] /\ blocked_tasks[m] \in Seq(Task)
  BY <1>2, <1>3 DEF Line
<1>5. Line(m) # <<>> /\ Tail(Line(m)) = blocked_tasks[m]
  BY <1>4, LineSteps
<1>8. \A n \in Mutex \ {m} : Line(n)' = Line(n)
  <2>1. \A n \in Mutex \ {m} : /\ Owners(n)' = Owners(n)
                               /\ blocked_tasks'[n] = blocked_tasks[n]
                               /\ lock'[n] = lock[n]
    BY <1>1, UnlockStep
  <2> QED BY <2>1, LineStays
<1>6. CASE /\ blocked_tasks[m] # <<>> /\ lock'[m] = 1
           /\ Owners(m)' = {Head(blocked_tasks[m])}
           /\ blocked_tasks'[m] = Tail(blocked_tasks[m])
  <2>1. Line(m)' = <<Head(blocked_tasks[m])>> \o Tail(blocked_tasks[m])
    BY <1>6 DEF Line
  <2>2. Line(m)' = Tail(Line(m))
    BY <1>3, <1>4, <1>5, <1>6, <2>1, LineSteps
  <2> QED BY <1>5, <1>8, <2>2, LeaveLine
<1>7. CASE blocked_tasks[m] = <<>> /\ lock'[m] = 0
  <2>1. Line(m)' = Tail(Line(m))
    BY <1>5, <1>7 DEF Line
  <2> QED BY <1>5, <1>8, <2>1, LeaveLine
<1> QED BY <1>1, <1>6, <1>7, UnlockStep

\* Every step is one of the abstract lock, or moves nobody in any line.
LEMMA FifoStep ==
  ASSUME SyncInv, SyncInv', SchedulerAssumption, SyncAssumption, [Next]_vars
  PROVE  [Abstract!Next]_lines
<1>1. /\ TypeOK' /\ MutexesConsistent
      /\ \A m \in Mutex : m \in Queue /\ m \notin Sem
      /\ blocked_tasks \in [Queue -> Seq(Task)]
  BY DEF SyncInv, Inv, TypeOK, SyncAssumption
<1>2. ASSUME NEW m \in Mutex, mutex_lock(m) PROVE Abstract!Next
  BY <1>2, LockJoins
<1>3. ASSUME NEW m \in Mutex, mutex_unlock(m) PROVE Abstract!Next
  BY <1>3, UnlockLeaves
<1>4. ASSUME NEW m \in Mutex, MutexLocked(m) PROVE lines' = lines
  <2>1. /\ lock' = lock /\ blocked_tasks' = blocked_tasks
        /\ \A n \in Mutex : Owners(n)' = Owners(n)
    BY <1>1, <1>4, MutexLockedStep DEF MutexLocked, schedVars, blockVars
  <2> QED BY <2>1, LineStays DEF lines
<1>5. ASSUME NEW s \in Sem, semaphore_acquire(s) \/ semaphore_release(s)
      PROVE  lines' = lines
  <2>1. UNCHANGED <<lock, locked_task, acquiring>>
    BY <1>5 DEF semaphore_acquire, semaphore_release
  <2>2. s \in Queue
    BY DEF SyncAssumption
  <2>3. \A q \in Queue \ {s} : blocked_tasks'[q] = blocked_tasks[q]
    BY <1>1, <1>5, <2>2, QueueEffect
       DEF semaphore_acquire, semaphore_release, schedVars, blockVars
  <2>4. \A n \in Mutex : blocked_tasks'[n] = blocked_tasks[n]
    BY <1>1, <2>3
  <2>5. \A n \in Mutex : Owners(n)' = Owners(n)
    BY <2>1, <2>4 DEF Owners
  <2> QED BY <2>1, <2>4, <2>5, LineStays DEF lines
<1>6. ASSUME UNCHANGED syncVars, blocked_tasks' = blocked_tasks PROVE lines' = lines
  <2>1. lock' = lock /\ \A n \in Mutex : Owners(n)' = Owners(n)
    BY <1>6 DEF Owners, syncVars
  <2> QED BY <1>6, <2>1, LineStays DEF lines
<1>7. CASE OtherTaskStep \/ MachineStep
  BY <1>6, <1>7, OthersLeaveQueues
<1>8. CASE UNCHANGED vars
  BY <1>6, <1>8 DEF vars, schedVars, blockVars
<1> QED BY <1>2, <1>3, <1>4, <1>5, <1>7, <1>8 DEF Next, SyncStep

\* mutex_t is a first-come, first-served lock: whoever asks joins the line, the
\* first of the line owns the lock, and only the owner leaves it.
THEOREM MutexesAreFifo == Spec => ImplementsFifoLock
<1>1. SyncInit => Abstract!Init
  BY DEF SyncInit, Abstract!Init, Line
<1>2. SyncInv /\ SyncInv' /\ [Next]_vars => [Abstract!Next]_lines
  BY FifoStep, SchedulerAssumption, SyncAssumption
<1> QED BY <1>1, <1>2, SyncSafe, PTL DEF Spec, ImplementsFifoLock, Abstract!Spec, lines

-----------------------------------------------------------------------------
(* The log.  The inductive invariant has two phases.                        *)

\* The message in the middle is the mutex owner's, and who waits for the mutex
\* has his whole message before him.
WriterOwns == \A t \in Task : left[t] \in 1..(MsgLen - 1) => locked_task[PrintMutex] = t

WaitersFresh == \A t \in Task : acquiring[t] = PrintMutex => left[t] = MsgLen

\* With a UART that was always ready the owner of print_mutex has the cpu.
OwnerHasCpu ==
  ~busy => /\ failed = 0
           /\ blocked_tasks[PrintMutex] = <<>>
           /\ lock[PrintMutex] = 1 => InKernel /\ locked_task[PrintMutex] = current_task

\* As long as no exited task has got stuck in __schedule()'s message the mutexes
\* and the scheduler are sound.  Whoever has print_mutex can run, so that the
\* cpu does not idle meanwhile.
Sane ==
  /\ SyncInv
  /\ IdlerSet
  /\ \A t \in Owners(PrintMutex) : Runnable(state[t])
  /\ Idle => lock[PrintMutex] = 0
  /\ WriterOwns
  /\ WaitersFresh
  /\ OwnerHasCpu

\* The task states with those of the tasks in L replaced.
Mask(st, L) == [t \in Task |-> IF t \in L THEN "TERMINATED" ELSE st[t]]

\* The scheduler in which the forgotten tasks have ended.
Masked == INSTANCE SchedulerProofs WITH state <- Mask(state, Forgotten)

\* Once the exited task c has print_mutex nobody gets it any more, and the
\* scheduler goes on soundly with the tasks that it has not forgotten.
StuckOn(c) ==
  /\ busy /\ scheduler_ready
  /\ SyncTypeOK
  /\ Masked!Inv
  /\ IdlerSet
  /\ lock[PrintMutex] = 1 /\ locked_task[PrintMutex] = c
  /\ c \in Range(blocked_tasks[PrintMutex]) \/ state[c] = "TERMINATED"
  /\ \A t \in Task : acquiring[t] = PrintMutex <=> t \in Range(blocked_tasks[PrintMutex])
  /\ \A t \in Task : left[t] \notin 1..(MsgLen - 1)

Stuck == \E c \in Task : StuckOn(c)

LogTypeOK ==
  /\ left \in [Task -> 0..MsgLen]
  /\ busy \in BOOLEAN
  /\ failed \in {0, 305, 320, 463, 467}

ConsoleInv == LogTypeOK /\ (Sane \/ Stuck)

-----------------------------------------------------------------------------
(* Steps of a sound log.                                                    *)

\* The owner of print_mutex in the next state is ready or runs, so the cpu does
\* not idle there.
LEMMA SaneAgain ==
  ASSUME Sane, SchedulerAssumption, SyncAssumption, ConsoleAssumption,
         SyncInv', [SchedulerNext]_schedVars,
         \A t \in Owners(PrintMutex)' : Runnable(state'[t]),
         Idle => lock'[PrintMutex] = lock[PrintMutex],
         WriterOwns', WaitersFresh', OwnerHasCpu'
  PROVE  Sane'
<1>1. IdlerSet' /\ (Idle' => Idle \/ ready_queue' = <<>>)
  BY RunSteps DEF Sane, SyncInv
<1>2. Idle' => lock'[PrintMutex] = 0
  <2> SUFFICES ASSUME Idle', lock'[PrintMutex] # 0 PROVE FALSE
    OBVIOUS
  <2>1. lock'[PrintMutex] = 1 /\ PrintMutex \in Mutex
    BY DEF SyncInv, MutexesConsistent, SyncTypeOK, ConsoleAssumption
  <2>2. PICK o \in Task : Owners(PrintMutex)' = {o}
    BY <2>1 DEF SyncInv, MutexesConsistent, MutualExclusion
  <2>3. Runnable(state'[o]) /\ state'[o] # "RUNNING"
    BY <2>2 DEF SyncInv, Inv, RunningIsCurrent, Idle, SchedulerAssumption
  <2>4. o \in Range(ready_queue')
    BY <2>3 DEF SyncInv, Inv, QueuesMatchStates, Runnable
  <2>5. ready_queue' # <<>>
    BY <2>4 DEF Range
  <2> QED BY <1>1, <2>1, <2>5 DEF Sane
<1> QED BY <1>1, <1>2 DEF Sane

\* What the log needs of the mutexes.
LEMMA LogFacts ==
  ASSUME Sane, SchedulerAssumption, SyncAssumption, ConsoleAssumption
  PROVE  /\ Inv /\ MutualExclusion /\ WaitersWantIt
         /\ PrintMutex \in Mutex /\ PrintMutex \in Queue /\ PrintMutex # NULL
         /\ PrintMutex \notin Sem /\ NULL \notin Task
         /\ lock \in [Mutex -> {0, 1}]
         /\ locked_task \in [Mutex -> Task \cup {NULL}]
         /\ acquiring \in [Task -> Mutex \cup {NULL}]
         /\ blocked_tasks \in [Queue -> Seq(Task)]
         /\ MsgLen \in Nat \ {0}
         /\ lock[PrintMutex] = 0 => /\ \A t \in Task : /\ locked_task[PrintMutex] # t
                                                       /\ acquiring[t] # PrintMutex
                                                       /\ left[t] \notin 1..(MsgLen - 1)
                                    /\ blocked_tasks[PrintMutex] = <<>>
<1>1. /\ Inv /\ MutualExclusion /\ WaitersWantIt
      /\ PrintMutex \in Mutex /\ PrintMutex \in Queue /\ PrintMutex # NULL
      /\ PrintMutex \notin Sem /\ NULL \notin Task
      /\ lock \in [Mutex -> {0, 1}]
      /\ locked_task \in [Mutex -> Task \cup {NULL}]
      /\ acquiring \in [Task -> Mutex \cup {NULL}]
      /\ blocked_tasks \in [Queue -> Seq(Task)]
      /\ MsgLen \in Nat \ {0}
  BY DEF Sane, SyncInv, MutexesConsistent, SyncTypeOK, Inv, TypeOK, SchedulerAssumption,
         SyncAssumption, ConsoleAssumption
<1>2. ASSUME lock[PrintMutex] = 0
      PROVE  /\ \A t \in Task : locked_task[PrintMutex] # t /\ acquiring[t] # PrintMutex
             /\ blocked_tasks[PrintMutex] = <<>>
  <2>1. Owners(PrintMutex) = {} /\ blocked_tasks[PrintMutex] = <<>>
    BY <1>1, <1>2 DEF MutualExclusion
  <2>2. Range(blocked_tasks[PrintMutex]) = {}
    BY <2>1 DEF Range
  <2> QED BY <2>1, <2>2 DEF Owners
<1>3. ASSUME lock[PrintMutex] = 0 PROVE \A t \in Task : left[t] \notin 1..(MsgLen - 1)
  BY <1>2, <1>3 DEF Sane, WriterOwns
<1> QED BY <1>1, <1>2, <1>3

LEMMA NotOwner ==
  ASSUME Sane, SchedulerAssumption, SyncAssumption, ConsoleAssumption,
         AtCallPoint, current_task # NULL, locked_task[PrintMutex] # current_task
  PROVE  current_task \notin Owners(PrintMutex)
BY LogFacts DEF AtCallPoint, Owners

\* The steps that leave print_mutex and the messages alone.
LEMMA AsideSane ==
  ASSUME Sane, SchedulerAssumption, SyncAssumption, ConsoleAssumption,
         [Next]_vars, UNCHANGED <<lock, locked_task, acquiring, left>>,
         blocked_tasks'[PrintMutex] = blocked_tasks[PrintMutex],
         Goes \/ current_task \notin Owners(PrintMutex),
         ~busy' => /\ ~busy /\ failed' = 0
                   /\ lock[PrintMutex] = 1 => /\ current_task' = current_task
                                              /\ in_wakeup' = in_wakeup
  PROVE  Sane'
<1>1. SyncInv' /\ [SchedulerNext]_schedVars
  BY SyncStepInv, SyncSchedules DEF Sane
<1>2. Owners(PrintMutex)' = Owners(PrintMutex)
  BY DEF Owners
<1>3. \A t \in Owners(PrintMutex)' : Runnable(state'[t])
  <2>1. \A t \in Owners(PrintMutex) : t \in Task /\ Runnable(state[t])
    BY DEF Sane, Owners
  <2>2. /\ \A t \in Task \ {current_task} : Runnable(state[t]) => Runnable(state'[t])
        /\ Goes => \A t \in Task : Runnable(state[t]) => Runnable(state'[t])
    BY <1>1, RunSteps DEF Sane, SyncInv
  <2> QED BY <1>2, <2>1, <2>2
<1>4. WriterOwns' /\ WaitersFresh'
  BY DEF Sane, WriterOwns, WaitersFresh
<1>5. OwnerHasCpu'
  BY DEF Sane, OwnerHasCpu, InKernel
<1> QED BY <1>1, <1>3, <1>4, <1>5, SaneAgain

\* vprintf() takes print_mutex, or waits for it with its whole message to put.
LEMMA PrintBeginSane ==
  ASSUME Sane, SchedulerAssumption, SyncAssumption, ConsoleAssumption, LogTypeOK, PrintBegin
  PROVE  Sane'
<1>1. /\ AtCallPoint /\ current_task # NULL /\ locked_task[PrintMutex] # current_task
      /\ left' = [left EXCEPT ![current_task] = MsgLen]
      /\ busy' = busy /\ failed' = failed /\ mutex_lock(PrintMutex)
      /\ LockFree(PrintMutex) \/ LockTaken(PrintMutex)
  BY DEF PrintBegin, mutex_lock
<1>2. [Next]_vars
  BY <1>1, LogFacts DEF Next, SyncStep
<1>3. SyncInv' /\ [SchedulerNext]_schedVars /\ TypeOK'
  <2>1. SyncInv' /\ [SchedulerNext]_schedVars
    BY <1>2, SyncStepInv, SyncSchedules DEF Sane
  <2> QED BY <2>1 DEF SyncInv, Inv
<1>4. /\ current_task \in Task /\ current_task \notin Owners(PrintMutex)
      /\ acquiring[current_task] = NULL /\ InKernel /\ state[current_task] = "RUNNING"
  <2>1. InKernel
    BY <1>1 DEF AtCallPoint, InKernel
  <2> QED BY <1>1, <2>1, NotOwner, KernelPath DEF AtCallPoint, Sane, SyncInv
<1>5. /\ left \in [Task -> 0..MsgLen] /\ MsgLen \in Nat \ {0}
      /\ \A t \in Task : left'[t] = IF t = current_task THEN MsgLen ELSE left[t]
  BY <1>1, <1>4, LogFacts DEF LogTypeOK
<1>6. CASE LockFree(PrintMutex)
  <2>1. /\ lock[PrintMutex] = 0 /\ acquiring' = acquiring /\ UNCHANGED schedVars
        /\ lock'[PrintMutex] = 1 /\ locked_task'[PrintMutex] = current_task
    BY <1>6, LogFacts DEF LockFree
  <2>2. /\ state' = state /\ blocked_tasks' = blocked_tasks /\ current_task' = current_task
        /\ in_wakeup' = in_wakeup
    BY <2>1 DEF schedVars, switchVars, blockVars, sleepVars
  <2>3. \A t \in Owners(PrintMutex)' : Runnable(state'[t])
    BY <1>4, <2>1, <2>2, LogFacts DEF Owners, Runnable
  <2>4. WriterOwns' /\ WaitersFresh'
    BY <1>5, <2>1, LogFacts DEF WriterOwns, WaitersFresh
  <2>5. OwnerHasCpu'
    BY <1>1, <1>4, <2>1, <2>2 DEF Sane, OwnerHasCpu, InKernel
  <2>6. ~Idle
    BY <1>1 DEF Idle
  <2> QED BY <1>3, <2>3, <2>4, <2>5, <2>6, SaneAgain
<1>7. CASE LockTaken(PrintMutex)
  <2>1. /\ lock[PrintMutex] = 1 /\ lock' = lock /\ locked_task' = locked_task
        /\ acquiring' = [acquiring EXCEPT ![current_task] = PrintMutex]
    BY <1>7 DEF LockTaken
  <2>2. Owners(PrintMutex)' = Owners(PrintMutex)
    BY <1>1, <1>3, <1>7, LockTakenStep, LogFacts DEF Sane
  <2>3. \A t \in Owners(PrintMutex)' : Runnable(state'[t])
    <3>1. \A t \in Owners(PrintMutex) : t \in Task /\ Runnable(state[t])
      BY DEF Sane, Owners
    <3>2. \A t \in Task \ {current_task} : Runnable(state[t]) => Runnable(state'[t])
      BY <1>3, RunSteps DEF Sane, SyncInv
    <3> QED BY <1>4, <2>2, <3>1, <3>2
  <2>4. WriterOwns' /\ WaitersFresh'
    BY <1>4, <1>5, <2>1, LogFacts DEF Sane, WriterOwns, WaitersFresh
  <2>5. OwnerHasCpu'
    BY <1>1, <2>1 DEF Sane, OwnerHasCpu
  <2> QED BY <1>3, <2>1, <2>3, <2>4, <2>5, SaneAgain
<1> QED BY <1>1, <1>6, <1>7

\* The new owner comes back from mutex_lock().
LEMMA PrintResumeSane ==
  ASSUME Sane, SchedulerAssumption, SyncAssumption, ConsoleAssumption, PrintResume
  PROVE  Sane'
<1>1. /\ MutexLocked(PrintMutex) /\ left' = left /\ busy' = busy /\ failed' = failed
      /\ InKernel /\ acquiring[current_task] = PrintMutex
      /\ locked_task' = [locked_task EXCEPT ![PrintMutex] = current_task]
      /\ acquiring' = [acquiring EXCEPT ![current_task] = NULL]
      /\ lock' = lock /\ UNCHANGED schedVars
  BY DEF PrintResume, MutexLocked, logVars
<1>2. [Next]_vars
  BY <1>1, LogFacts DEF Next, SyncStep
<1>3. SyncInv' /\ [SchedulerNext]_schedVars /\ TypeOK'
  <2>1. SyncInv' /\ [SchedulerNext]_schedVars
    BY <1>2, SyncStepInv, SyncSchedules DEF Sane
  <2> QED BY <2>1 DEF SyncInv, Inv
<1>4. Owners(PrintMutex)' = Owners(PrintMutex)
  BY <1>1, <1>3, MutexLockedStep, LogFacts DEF Sane
<1>5. /\ state' = state /\ blocked_tasks' = blocked_tasks /\ current_task' = current_task
      /\ in_wakeup' = in_wakeup
  BY <1>1 DEF schedVars, switchVars, blockVars, sleepVars
<1>6. \A t \in Owners(PrintMutex)' : Runnable(state'[t])
  BY <1>4, <1>5 DEF Sane
<1>7. current_task \in Owners(PrintMutex) /\ lock[PrintMutex] = 1
  <2>1. current_task \in Task /\ current_task \notin Range(blocked_tasks[PrintMutex])
    BY <1>1, CallerFacts, LogFacts DEF Sane, InKernel
  <2>2. current_task \in Owners(PrintMutex)
    BY <1>1, <2>1 DEF Owners
  <2> QED BY <2>2, LogFacts DEF MutualExclusion
<1>8. \A t \in Task : locked_task[PrintMutex] = t => t = current_task
  <2>1. PICK o \in Task : Owners(PrintMutex) = {o}
    BY <1>7, LogFacts DEF MutualExclusion
  <2> QED BY <1>7, <2>1 DEF Owners
<1>9. current_task \in Task /\ locked_task'[PrintMutex] = current_task
  BY <1>1, <1>7, LogFacts DEF Owners
<1>10. WriterOwns' /\ WaitersFresh'
  BY <1>1, <1>8, <1>9, LogFacts DEF Sane, WriterOwns, WaitersFresh
<1>11. OwnerHasCpu'
  BY <1>1, <1>5, <1>9 DEF Sane, OwnerHasCpu, InKernel
<1> QED BY <1>1, <1>3, <1>6, <1>10, <1>11, SaneAgain

\* putc(): the owner stays ready when a busy UART makes it yield.
LEMMA putcSane ==
  ASSUME Sane, SchedulerAssumption, SyncAssumption, ConsoleAssumption, LogTypeOK, putc
  PROVE  Sane'
<1>1. /\ AtCallPoint /\ current_task # NULL /\ locked_task[PrintMutex] = current_task
      /\ left[current_task] > 0 /\ left' = [left EXCEPT ![current_task] = left[current_task] - 1]
      /\ UNCHANGED syncVars /\ failed' = failed
      /\ (UNCHANGED schedVars /\ busy' = busy) \/ (yield /\ busy' = TRUE)
  BY DEF putc
<1>2. [Next]_vars /\ Goes
  BY <1>1 DEF Next, OtherTaskStep, vars, Goes
<1>3. SyncInv' /\ [SchedulerNext]_schedVars
  BY <1>2, SyncStepInv, SyncSchedules DEF Sane
<1>4. lock' = lock /\ locked_task' = locked_task /\ acquiring' = acquiring
      /\ blocked_tasks' = blocked_tasks
  BY <1>1 DEF syncVars, yield, schedVars, blockVars
<1>5. \A t \in Owners(PrintMutex)' : Runnable(state'[t])
  <2>1. \A t \in Owners(PrintMutex) : t \in Task /\ Runnable(state[t])
    BY DEF Sane, Owners
  <2>2. \A t \in Task : Runnable(state[t]) => Runnable(state'[t])
    BY <1>2, <1>3, RunSteps DEF Sane, SyncInv
  <2>3. Owners(PrintMutex)' = Owners(PrintMutex)
    BY <1>4 DEF Owners
  <2> QED BY <2>1, <2>2, <2>3
<1>6. /\ current_task \in Task /\ acquiring[current_task] = NULL
      /\ \A t \in Task : t # current_task => left'[t] = left[t]
  <2>1. current_task \in Task /\ acquiring[current_task] = NULL
    BY <1>1, LogFacts DEF AtCallPoint, Inv, TypeOK
  <2> QED BY <1>1, <2>1 DEF LogTypeOK
<1>7. WriterOwns' /\ WaitersFresh'
  BY <1>1, <1>4, <1>6, LogFacts DEF Sane, WriterOwns, WaitersFresh
<1>8. OwnerHasCpu'
  <2>1. CASE busy' = TRUE
    BY <2>1 DEF OwnerHasCpu
  <2>2. CASE UNCHANGED schedVars /\ busy' = busy
    BY <1>1, <1>4, <2>2
       DEF Sane, OwnerHasCpu, InKernel, schedVars, switchVars, sleepVars
  <2> QED BY <1>1, <2>1, <2>2
<1> QED BY <1>3, <1>4, <1>5, <1>7, <1>8, SaneAgain

\* vprintf() gives the mutex back, or to the first who waits.
LEMMA PrintEndSane ==
  ASSUME Sane, SchedulerAssumption, SyncAssumption, ConsoleAssumption, LogTypeOK, PrintEnd
  PROVE  Sane'
<1>1. /\ current_task # NULL /\ left[current_task] = 0 /\ mutex_unlock(PrintMutex)
      /\ left' = left /\ busy' = busy /\ failed' = failed
      /\ AtCallPoint /\ locked_task[PrintMutex] = current_task
      /\ locked_task' = [locked_task EXCEPT ![PrintMutex] = NULL] /\ acquiring' = acquiring
  BY DEF PrintEnd, mutex_unlock, logVars
<1>2. [Next]_vars
  BY <1>1, LogFacts DEF Next, SyncStep
<1>3. SyncInv' /\ [SchedulerNext]_schedVars /\ TypeOK'
  <2>1. SyncInv' /\ [SchedulerNext]_schedVars
    BY <1>2, SyncStepInv, SyncSchedules DEF Sane
  <2> QED BY <2>1 DEF SyncInv, Inv
<1>4. WriterOwns' /\ WaitersFresh'
  BY <1>1, LogFacts DEF Sane, WriterOwns, WaitersFresh
<1>5. ~Idle
  BY <1>1 DEF Idle
<1>6. CASE blocked_tasks[PrintMutex] # <<>>
  <2>1. /\ task_unblock_next(PrintMutex) /\ lock' = lock
        /\ Owners(PrintMutex)' = {Head(blocked_tasks[PrintMutex])}
        /\ lock[PrintMutex] = 1
    BY <1>1, <1>3, <1>6, UnlockStep, LogFacts DEF Sane, mutex_unlock
  <2>2. Runnable(state'[Head(blocked_tasks[PrintMutex])])
    <3>1. PICK h, st, rq : /\ h = Head(blocked_tasks[PrintMutex])
                           /\ st = [state EXCEPT ![h] = "READY"]
                           /\ rq = Append(ready_queue, h)
      OBVIOUS
    <3>2. h \in Task
      BY <1>6, <3>1, LogFacts
    <3>3. /\ state \in [Task -> TaskState] /\ ready_queue \in Seq(Task)
      BY LogFacts DEF Inv, TypeOK
    <3>4. st \in [Task -> TaskState] /\ rq \in Seq(Task) /\ Runnable(st[h])
      BY <3>1, <3>2, <3>3 DEF TaskState, Runnable
    <3>5. ScheduleAndUnlock(st, rq, scheduler_lock_count)
      BY <2>1, <3>1 DEF task_unblock_next, Unblock
    <3> QED BY <3>1, <3>2, <3>4, <3>5, ScheduleRunnable
  <2>3. OwnerHasCpu'
    BY <1>1, <1>6 DEF Sane, OwnerHasCpu
  <2> QED BY <1>3, <1>4, <1>5, <2>1, <2>2, <2>3, SaneAgain
<1>7. CASE blocked_tasks[PrintMutex] = <<>>
  <2>1. lock'[PrintMutex] = 0 /\ UNCHANGED schedVars
    BY <1>7, <1>1, LogFacts DEF mutex_unlock, task_unblock_next, Unblock
  <2>2. Owners(PrintMutex)' = {}
    BY <1>3, <2>1, LogFacts DEF SyncInv, MutexesConsistent, MutualExclusion
  <2>3. OwnerHasCpu'
    BY <1>1, <2>1 DEF Sane, OwnerHasCpu, schedVars, blockVars
  <2> QED BY <1>3, <1>4, <1>5, <2>2, <2>3, SaneAgain
<1> QED BY <1>6, <1>7

\* With a UART that was always ready print_mutex is free whenever its current
\* owner is not the one that acts.
LEMMA FreeUnlessOwner ==
  ASSUME Sane, SchedulerAssumption, SyncAssumption, ConsoleAssumption, ~busy,
         \/ current_task = NULL \/ in_wakeup \/ ~scheduler_ready
         \/ Holding(current_task) = {}
  PROVE  lock[PrintMutex] = 0
<1>1. ASSUME lock[PrintMutex] = 1 PROVE FALSE
  <2>1. InKernel /\ locked_task[PrintMutex] = current_task
    BY <1>1 DEF Sane, OwnerHasCpu
  <2>2. PrintMutex \in Holding(current_task)
    BY <2>1, LogFacts DEF Holding
  <2>3. scheduler_ready
    BY <2>1, LogFacts DEF InKernel, Inv, BootDiscipline
  <2> QED BY <2>1, <2>2, <2>3 DEF InKernel
<1> QED BY <1>1, LogFacts

\* A message under the scheduler lock that finds print_mutex taken, and the one
\* before tasking_enable(), stop the kernel after a busy UART only.
LEMMA FailureSane ==
  ASSUME Sane, SchedulerAssumption, SyncAssumption, ConsoleAssumption,
         UNCHANGED <<vars, left>>, busy'
  PROVE  Sane'
<1>1. UNCHANGED schedVars /\ UNCHANGED <<lock, locked_task, acquiring, left>>
      /\ blocked_tasks' = blocked_tasks
  BY DEF vars, syncVars, schedVars, blockVars
<1> QED BY <1>1, AsideSane DEF Goes

LEMMA LockedFailureSane ==
  ASSUME Sane, SchedulerAssumption, SyncAssumption, ConsoleAssumption, LogTypeOK,
         LockedPrintFails,
         \/ current_task = NULL \/ in_wakeup \/ Holding(current_task) = {}
  PROVE  Sane'
<1>1. busy = TRUE
  BY FreeUnlessOwner DEF LockedPrintFails, LogTypeOK
<1> QED BY <1>1, FailureSane DEF LockedPrintFails

\* The message of scheduler_wakeup().
LEMMA WakeSane ==
  ASSUME Sane, SchedulerAssumption, SyncAssumption, ConsoleAssumption, LogTypeOK, Wake
  PROVE  Sane'
<1>1. CASE WakeExpired /\ UNCHANGED <<syncVars, logVars>> /\ LockedPrint
  <2>1. [Next]_vars /\ Goes
    BY <1>1 DEF Next, MachineStep, Goes, SystemStep
  <2>2. /\ UNCHANGED <<lock, locked_task, acquiring, left>> /\ busy' = busy
        /\ failed' = failed /\ lock[PrintMutex] = 0 /\ blocked_tasks' = blocked_tasks
    BY <1>1 DEF syncVars, logVars, LockedPrint, WakeExpired
  <2>3. ~busy => failed = 0
    BY DEF Sane, OwnerHasCpu
  <2> QED BY <2>1, <2>2, <2>3, AsideSane
<1>2. CASE in_wakeup /\ LockedPrintFails
  BY <1>2, LockedFailureSane
<1> QED BY <1>1, <1>2 DEF Wake

\* Going idle, or leaving a terminated task without a message that waits, is what
\* the scheduler does anyway.
LEMMA QuietEnds ==
  ASSUME Sane, SchedulerAssumption, SyncAssumption, ConsoleAssumption, ready_queue # <<>>,
         postponed_schedule' = FALSE, UNCHANGED <<sleepVars, scheduler_ready, count>>
  PROVE  /\ InKernel /\ QuietEnd(current_task, [state EXCEPT ![current_task] = "TERMINATED"])
            => task_exit /\ UNCHANGED syncVars
         /\ Idle /\ ~in_wakeup /\ QuietEnd(idler, state)
            => IdleExit /\ UNCHANGED syncVars
<1>1. ASSUME InKernel, QuietEnd(current_task, [state EXCEPT ![current_task] = "TERMINATED"])
      PROVE  task_exit /\ UNCHANGED syncVars
  <2>1. PICK st : st = [state EXCEPT ![current_task] = "TERMINATED"]
    OBVIOUS
  <2>2. current_task \in Task /\ current_task # NULL /\ state \in [Task -> TaskState]
    BY <1>1, LogFacts, KernelPath DEF Inv, TypeOK
  <2>3. st[current_task] # "RUNNING"
    BY <2>1, <2>2
  <2>4. idler = NULL
    BY <2>2 DEF Sane, IdlerSet, Idle
  <2>5. /\ current_task' = Head(ready_queue) /\ idler' = idler /\ scheduler_lock_count' = 0
        /\ state' = [st EXCEPT ![Head(ready_queue)] = "RUNNING"]
        /\ ready_queue' = Tail(ready_queue)
        /\ UNCHANGED <<blockVars, lock, locked_task, acquiring>>
    BY <1>1, <2>1, <2>2, <2>4 DEF QuietEnd, LeaveFor
  <2>6. SwitchTo(st, ready_queue)
    BY <2>3, <2>5 DEF SwitchTo
  <2> QED BY <1>1, <2>1, <2>5, <2>6 DEF task_exit, __schedule, syncVars
<1>2. ASSUME Idle, ~in_wakeup, QuietEnd(idler, state)
      PROVE  IdleExit /\ UNCHANGED syncVars
  <2>1. scheduler_lock_count = 1
    BY <1>2, LogFacts DEF Inv, LockDiscipline
  <2> QED BY <1>2, <2>1 DEF QuietEnd, LeaveFor, IdleExit, syncVars
<1> QED BY <1>1, <1>2

\* The exits that forget nobody.
LEMMA ExitSane ==
  ASSUME Sane, SchedulerAssumption, SyncAssumption, ConsoleAssumption, LogTypeOK, Exit,
         ~BusyEnd(current_task, [state EXCEPT ![current_task] = "TERMINATED"])
  PROVE  Sane'
<1>1. /\ AtCallPoint /\ InKernel /\ Holding(current_task) = {} /\ current_task # NULL
      /\ locked_task[PrintMutex] # current_task
  BY LogFacts DEF Exit, InKernel, Holding
<1>2. CASE LockedPrintFails
  BY <1>1, <1>2, LockedFailureSane
<1>3. ASSUME LockedPrint, task_exit, UNCHANGED syncVars, UNCHANGED <<left, failed, busy>>
      PROVE  Sane'
  <2>1. [Next]_vars /\ current_task \notin Owners(PrintMutex)
    BY <1>1, <1>3, NotOwner DEF Next, OtherTaskStep
  <2>2. /\ UNCHANGED <<lock, locked_task, acquiring, left>> /\ lock[PrintMutex] = 0
        /\ blocked_tasks' = blocked_tasks
    BY <1>3 DEF syncVars, LockedPrint, task_exit, blockVars
  <2>3. ~busy => failed = 0
    BY DEF Sane, OwnerHasCpu
  <2> QED BY <1>3, <2>1, <2>2, <2>3, AsideSane
<1>4. CASE /\ LockedPrint /\ ready_queue # <<>>
           /\ QuietEnd(current_task, [state EXCEPT ![current_task] = "TERMINATED"])
           /\ postponed_schedule' = FALSE
           /\ UNCHANGED <<sleepVars, scheduler_ready, count, left, failed>>
  <2>1. task_exit /\ UNCHANGED syncVars
    BY <1>1, <1>4, QuietEnds
  <2>2. busy' = busy
    BY <1>4 DEF QuietEnd
  <2> QED BY <1>3, <1>4, <2>1, <2>2
<1> QED BY <1>2, <1>3, <1>4 DEF Exit, logVars

LEMMA IdleEndSane ==
  ASSUME Sane, SchedulerAssumption, SyncAssumption, ConsoleAssumption, LogTypeOK, IdleEnd,
         ~BusyEnd(idler, state)
  PROVE  Sane'
<1>1. /\ Idle /\ ~in_wakeup /\ ready_queue # <<>> /\ lock[PrintMutex] = 0
  BY DEF IdleEnd, Sane
<1>2. ASSUME IdleExit, UNCHANGED syncVars, UNCHANGED <<left, failed, busy>> PROVE Sane'
  <2>1. [Next]_vars /\ Goes
    BY <1>2 DEF Next, MachineStep, Goes, SystemStep
  <2>2. UNCHANGED <<lock, locked_task, acquiring, left>> /\ blocked_tasks' = blocked_tasks
    BY <1>2 DEF syncVars, IdleExit, blockVars
  <2>3. ~busy => failed = 0
    BY DEF Sane, OwnerHasCpu
  <2> QED BY <1>1, <1>2, <2>1, <2>2, <2>3, AsideSane
<1>3. CASE /\ QuietEnd(idler, state) \/ MutexTakenEnd(idler)
           /\ postponed_schedule' = FALSE
           /\ UNCHANGED <<sleepVars, scheduler_ready, count, left, failed>>
  <2>1. QuietEnd(idler, state) /\ busy' = busy
    BY <1>1, <1>3 DEF MutexTakenEnd, QuietEnd
  <2> QED BY <1>1, <1>2, <1>3, <2>1, QuietEnds
<1> QED BY <1>2, <1>3 DEF IdleEnd, logVars

LEMMA DeviceSane ==
  ASSUME Sane, SchedulerAssumption, SyncAssumption, ConsoleAssumption, DeviceStep
  PROVE  Sane'
<1>1. PICK s \in Sem : semaphore_acquire(s) \/ semaphore_release(s)
  BY DEF DeviceStep
<1>2. [Next]_vars
  BY <1>1 DEF Next, SyncStep
<1>3. /\ UNCHANGED <<lock, locked_task, acquiring, left>> /\ busy' = busy /\ failed' = failed
      /\ s \in Queue /\ s # PrintMutex
  BY <1>1, LogFacts DEF DeviceStep, logVars, semaphore_acquire, semaphore_release, SyncAssumption
<1>4. blocked_tasks'[PrintMutex] = blocked_tasks[PrintMutex]
  <2>1. \/ UNCHANGED schedVars \/ task_block(s, "BLOCKED_LOCK") \/ task_unblock_next(s)
    BY <1>1 DEF semaphore_acquire, semaphore_release
  <2> QED BY <1>3, <2>1, QueueEffect, LogFacts DEF Sane, schedVars, blockVars
<1>5. Goes \/ current_task \notin Owners(PrintMutex)
  <2>1. CASE semaphore_release(s)
    BY <1>3, <2>1 DEF semaphore_release, Goes
  <2>2. CASE semaphore_acquire(s)
    BY <2>2, NotOwner, LogFacts DEF semaphore_acquire, Holding
  <2> QED BY <1>1, <2>1, <2>2
<1>6. ~busy => failed = 0 /\ lock[PrintMutex] = 0
  BY <1>1, FreeUnlessOwner
     DEF Sane, OwnerHasCpu, semaphore_acquire, semaphore_release, Interruptible
<1> QED BY <1>2, <1>3, <1>4, <1>5, <1>6, AsideSane

LEMMA SilentSane ==
  ASSUME Sane, SchedulerAssumption, SyncAssumption, ConsoleAssumption, SilentStep
  PROVE  Sane'
<1>1. UNCHANGED <<lock, locked_task, acquiring, left>> /\ busy' = busy /\ failed' = failed
      /\ UNCHANGED syncVars
  BY DEF SilentStep, syncVars, logVars
<1>2. ~busy => failed = 0
  BY DEF Sane, OwnerHasCpu
<1>3. [Next]_vars
  BY DEF SilentStep, Next, OtherTaskStep, MachineStep
<1>4. blocked_tasks' = blocked_tasks
  BY DEF SilentStep, yield, task_sleep_until, TimerIrq, PutBack, WakeupDone, tasking_enable,
         task_add, blockVars
<1>5. CASE AtCallPoint /\ (current_task # NULL => Holding(current_task) = {})
           /\ (yield \/ \E n \in 1..MaxSleep : task_sleep_until(n))
  <2>1. current_task \notin Owners(PrintMutex)
    BY <1>5, NotOwner, LogFacts DEF Holding, yield, task_sleep_until, InKernel
  <2>2. ~busy => lock[PrintMutex] = 0
    BY <1>5, FreeUnlessOwner
  <2> QED BY <1>1, <1>2, <1>3, <1>4, <2>1, <2>2, AsideSane
<1>6. CASE (Interruptible /\ TimerIrq) \/ PutBack \/ WakeupDone \/ tasking_enable
  <2>1. Goes
    BY <1>6 DEF Goes, SystemStep
  <2>2. ~busy => lock[PrintMutex] = 0
    BY <1>6, FreeUnlessOwner DEF Interruptible, PutBack, WakeupDone, tasking_enable
  <2> QED BY <1>1, <1>2, <1>3, <1>4, <2>1, <2>2, AsideSane
<1>7. ASSUME NEW t \in Task, task_add(t) PROVE Sane'
  <2>1. Goes
    BY <1>7 DEF Goes
  <2>2. current_task' = current_task /\ in_wakeup' = in_wakeup
    BY <1>7 DEF task_add, sleepVars
  <2> QED BY <1>1, <1>2, <1>3, <1>4, <2>1, <2>2, AsideSane
<1> QED BY <1>5, <1>6, <1>7 DEF SilentStep

-----------------------------------------------------------------------------
(* The scheduler without the tasks that it has forgotten.                   *)

\* What is ready in st and not queued in rq.
Lost(st, rq) == {t \in Task : st[t] = "READY" /\ t \notin Range(rq)}

LEMMA MaskedSame ==
  /\ \A s : Masked!Range(s) = Range(s) /\ Masked!IsInjective(s) = IsInjective(s)
  /\ Masked!Idle = Idle /\ Masked!InKernel = InKernel /\ Masked!IdlerSet = IdlerSet
  /\ Masked!TaskState = TaskState
BY DEF Range, Masked!Range, IsInjective, Masked!IsInjective, Idle, Masked!Idle, InKernel,
       Masked!InKernel, IdlerSet, Masked!IdlerSet, TaskState, Masked!TaskState

\* schedule() passes over the forgotten tasks as over ended ones.
LEMMA MaskedSchedule ==
  ASSUME NEW st \in [Task -> TaskState], NEW rq \in Seq(Task), IsInjective(rq),
         NEW locks \in {0, 1}, locks = 0 => current_task \in Task,
         \A t \in Range(rq) : t # current_task, ScheduleAndUnlock(st, rq, locks)
  PROVE  /\ state' \in [Task -> TaskState] /\ Forgotten' = Lost(st, rq)
         /\ Masked!ScheduleAndUnlock(Mask(st, Lost(st, rq)), rq, locks)
<1>1. PICK L : L = Lost(st, rq)
  OBVIOUS
<1>2. L \subseteq Task
  BY <1>1 DEF Lost
<1>3. CASE locks = 1
  <2>1. /\ state' = st /\ ready_queue' = rq /\ postponed_schedule' = TRUE
        /\ scheduler_lock_count' = locks /\ UNCHANGED <<current_task, idler>>
    BY <1>3 DEF ScheduleAndUnlock
  <2>2. Forgotten' = L
    BY <1>1, <2>1 DEF Forgotten, Lost
  <2> QED BY <1>1, <1>3, <2>1, <2>2 DEF Masked!ScheduleAndUnlock
<1>4. ASSUME locks = 0, state' = st, ready_queue' = rq, rq = <<>>, KeepRunning(st, rq) \/ StartIdling(st, rq)
      PROVE  /\ Forgotten' = L
             /\ Masked!KeepRunning(Mask(st, L), rq) \/ Masked!StartIdling(Mask(st, L), rq)
  <2>1. Forgotten' = L
    BY <1>1, <1>4 DEF Forgotten, Lost
  <2>2. Mask(st, L)[current_task] = "RUNNING" <=> st[current_task] = "RUNNING"
    BY <1>1, <1>4 DEF Mask, Lost
  <2> QED BY <1>4, <2>1, <2>2 DEF KeepRunning, StartIdling, Masked!KeepRunning, Masked!StartIdling
<1>5. ASSUME locks = 0, SwitchTo(st, rq)
      PROVE  /\ state' \in [Task -> TaskState] /\ Forgotten' = L
             /\ Masked!SwitchTo(Mask(st, L), rq)
  <2>1. /\ rq # <<>> /\ current_task' = Head(rq) /\ current_task \in Task
        /\ scheduler_lock_count' = 0 /\ UNCHANGED idler
    BY <1>5 DEF SwitchTo
  <2>2. /\ Head(rq) \in Task /\ Head(rq) \in Range(rq) /\ Tail(rq) \in Seq(Task)
        /\ Range(Tail(rq)) = Range(rq) \ {Head(rq)}
    BY <2>1, TailFacts
  <2>3. PICK M : M = Mask(st, L)
    OBVIOUS
  <2>4. /\ M \in [Task -> TaskState]
        /\ \A t \in Task : M[t] = IF t \in L THEN "TERMINATED" ELSE st[t]
    BY <2>3 DEF Mask, TaskState
  <2>5. Head(rq) # current_task /\ Head(rq) \notin L
    BY <1>1, <2>2 DEF Lost
  <2>6. CASE st[current_task] = "RUNNING"
    <3>1. /\ state' = [st EXCEPT ![current_task] = "READY", ![Head(rq)] = "RUNNING"]
          /\ ready_queue' = Append(Tail(rq), current_task)
      BY <1>5, <2>6 DEF SwitchTo
    <3>2. Range(ready_queue') = Range(Tail(rq)) \cup {current_task}
      <4>1. Tail(rq) \in Seq(Task) /\ current_task \in Task
        BY <2>1, <2>2
      <4>2. Range(Append(Tail(rq), current_task)) = Range(Tail(rq)) \cup {current_task}
        BY ONLY <4>1, AppendFacts, Zenon
      <4> QED BY <3>1, <4>2, Zenon
    <3>3. state' \in [Task -> TaskState]
          /\ \A t \in Task : state'[t] = IF t = Head(rq) THEN "RUNNING"
                                         ELSE IF t = current_task THEN "READY" ELSE st[t]
      BY <2>1, <2>2, <2>5, <3>1 DEF TaskState
    <3>4. Forgotten' = L
      BY <1>1, <2>2, <2>6, <3>2, <3>3 DEF Forgotten, Lost
    <3>5. current_task \notin L /\ M[current_task] = "RUNNING"
      BY <1>1, <2>1, <2>4, <2>6 DEF Lost
    <3>6. Mask(state', L) = [M EXCEPT ![current_task] = "READY", ![Head(rq)] = "RUNNING"]
      BY <2>1, <2>2, <2>4, <2>5, <3>3, <3>5 DEF Mask
    <3> QED BY <2>1, <2>3, <3>1, <3>3, <3>4, <3>5, <3>6 DEF Masked!SwitchTo
  <2>7. CASE st[current_task] # "RUNNING"
    <3>1. /\ state' = [st EXCEPT ![Head(rq)] = "RUNNING"] /\ ready_queue' = Tail(rq)
      BY <1>5, <2>7 DEF SwitchTo
    <3>2. state' \in [Task -> TaskState]
          /\ \A t \in Task : state'[t] = IF t = Head(rq) THEN "RUNNING" ELSE st[t]
      BY <2>2, <3>1 DEF TaskState
    <3>3. Forgotten' = L
      BY <1>1, <2>2, <3>1, <3>2 DEF Forgotten, Lost
    <3>4. M[current_task] # "RUNNING"
      BY <2>1, <2>4, <2>7
    <3>5. Mask(state', L) = [M EXCEPT ![Head(rq)] = "RUNNING"]
      BY <2>2, <2>4, <2>5, <3>2 DEF Mask
    <3> QED BY <2>1, <2>3, <3>1, <3>2, <3>3, <3>4, <3>5 DEF Masked!SwitchTo
  <2> QED BY <2>6, <2>7
<1>6. CASE locks = 0
  <2>1. postponed_schedule' = FALSE /\ __schedule(st, rq)
    BY <1>6 DEF ScheduleAndUnlock
  <2>2. CASE SwitchTo(st, rq)
    BY <1>1, <1>5, <1>6, <2>1, <2>2 DEF Masked!ScheduleAndUnlock, Masked!__schedule
  <2>3. CASE KeepRunning(st, rq) \/ StartIdling(st, rq)
    <3>1. state' = st /\ ready_queue' = rq /\ rq = <<>>
      BY <2>3 DEF KeepRunning, StartIdling
    <3> QED BY <1>1, <1>4, <1>6, <2>1, <2>3, <3>1 DEF Masked!ScheduleAndUnlock, Masked!__schedule
  <2> QED BY <2>1, <2>2, <2>3 DEF __schedule
<1> QED BY <1>3, <1>6

\* Changing one task that is not forgotten, and queueing it if that makes it
\* ready, forgets nobody.
LEMMA MaskedChange ==
  ASSUME SyncTypeOK, NEW t \in Task, t \notin Forgotten, NEW x \in TaskState,
         NEW rq, Range(ready_queue) \subseteq Range(rq),
         Range(rq) \subseteq Range(ready_queue) \cup {t}, x = "READY" => t \in Range(rq)
  PROVE  /\ [state EXCEPT ![t] = x] \in [Task -> TaskState]
         /\ Lost([state EXCEPT ![t] = x], rq) = Forgotten
         /\ Mask([state EXCEPT ![t] = x], Forgotten) = [Mask(state, Forgotten) EXCEPT ![t] = x]
<1>1. PICK st : st = [state EXCEPT ![t] = x]
  OBVIOUS
<1>2. /\ state \in [Task -> TaskState] /\ st \in [Task -> TaskState]
      /\ \A u \in Task : st[u] = IF u = t THEN x ELSE state[u]
  BY <1>1 DEF SyncTypeOK, TypeOK
<1>3. Lost(st, rq) = Forgotten
  BY <1>2 DEF Lost, Forgotten
<1>4. Mask(st, Forgotten) = [Mask(state, Forgotten) EXCEPT ![t] = x]
  BY <1>2 DEF Mask
<1> QED BY <1>1, <1>2, <1>3, <1>4

\* What a stuck log leaves true of the tasks.
LEMMA StuckFacts ==
  ASSUME SyncTypeOK, Masked!Inv, SchedulerAssumption
  PROVE  /\ Lost(state, ready_queue) = Forgotten
         /\ state \in [Task -> TaskState] /\ ready_queue \in Seq(Task) /\ IsInjective(ready_queue)
         /\ \A t \in Range(ready_queue) : t \in Task /\ t \notin Forgotten /\ state[t] = "READY"
         /\ current_task # NULL => /\ current_task \in Task /\ current_task \notin Forgotten
                                   /\ state[current_task] = "RUNNING"
         /\ \A q \in Queue : \A t \in Range(blocked_tasks[q]) :
              t \in Task /\ t \notin Forgotten /\ IsBlocked(state[t])
         /\ \A t \in Range(walk) : t \in Task /\ t \notin Forgotten /\ state[t] = "WAITING"
         /\ \A t \in Task : state[t] = "TERMINATED" => t \notin Forgotten
<1>1. PICK M : M = Mask(state, Forgotten)
  OBVIOUS
<1>2. /\ state \in [Task -> TaskState] /\ ready_queue \in Seq(Task)
      /\ blocked_tasks \in [Queue -> Seq(Task)] /\ walk \in Seq(Task)
      /\ current_task \in Task \cup {NULL}
  BY DEF SyncTypeOK, TypeOK
<1>3. \A t \in Task : M[t] = IF t \in Forgotten THEN "TERMINATED" ELSE state[t]
  BY <1>1 DEF Mask
<1>4. /\ IsInjective(ready_queue)
      /\ \A t \in Task : M[t] = "READY" <=> t \in Range(ready_queue)
      /\ \A t \in Task : M[t] = "WAITING" <=> t \in Range(wait_queue) \cup Range(walk)
      /\ \A t \in Task : IsBlocked(M[t]) <=> \E q \in Queue : t \in Range(blocked_tasks[q])
      /\ \A t \in Task : M[t] = "RUNNING" <=> t = current_task
  BY <1>1, MaskedSame
     DEF Masked!Inv, Masked!NoDuplicates, Masked!QueuesMatchStates, Masked!RunningIsCurrent,
              Masked!Blocked, Masked!Sleepers, IsBlocked
<1>5. /\ \A t \in Range(ready_queue) : t \in Task
      /\ \A t \in Range(walk) : t \in Task
      /\ \A q \in Queue : \A t \in Range(blocked_tasks[q]) : t \in Task
  BY <1>2 DEF Range
<1>6. \A t \in Task : M[t] # "TERMINATED" => t \notin Forgotten /\ state[t] = M[t]
  BY <1>3
<1>7. \A t \in Range(ready_queue) : t \notin Forgotten /\ state[t] = "READY"
  BY <1>4, <1>5, <1>6
<1>8. \A t \in Range(walk) : t \notin Forgotten /\ state[t] = "WAITING"
  BY <1>4, <1>5, <1>6
<1>9. \A q \in Queue : \A t \in Range(blocked_tasks[q]) : t \notin Forgotten /\ IsBlocked(state[t])
  BY <1>4, <1>5, <1>6 DEF IsBlocked
<1>10. current_task # NULL => /\ current_task \in Task /\ current_task \notin Forgotten
                              /\ state[current_task] = "RUNNING"
  BY <1>2, <1>4, <1>6
<1>11. /\ Lost(state, ready_queue) = Forgotten
       /\ \A t \in Task : state[t] = "TERMINATED" => t \notin Forgotten
  BY DEF Lost, Forgotten
<1> QED BY <1>2, <1>4, <1>5, <1>7, <1>8, <1>9, <1>10, <1>11

\* The steps of the scheduler are steps of the masked one, which forget nobody.
Follows == /\ [Masked!SchedulerNext]_(Masked!schedVars)
           /\ Forgotten' = Forgotten
           /\ state' \in [Task -> TaskState]

\* The calls of the current task.
LEMMA CallFollows ==
  ASSUME SyncTypeOK, Masked!Inv, SchedulerAssumption, InKernel, NEW x \in TaskState \ {"READY"},
         ScheduleAndUnlock([state EXCEPT ![current_task] = x], ready_queue, scheduler_lock_count)
  PROVE  /\ scheduler_lock_count = 0
         /\ Forgotten' = Forgotten /\ state' \in [Task -> TaskState]
         /\ Masked!ScheduleAndUnlock([Mask(state, Forgotten) EXCEPT ![current_task] = x],
                                     ready_queue, scheduler_lock_count)
<1>1. /\ current_task \in Task /\ current_task \notin Forgotten /\ ready_queue \in Seq(Task)
      /\ state[current_task] = "RUNNING" /\ IsInjective(ready_queue)
      /\ \A t \in Range(ready_queue) : state[t] = "READY"
  BY StuckFacts DEF InKernel
<1>2. scheduler_lock_count = 0
  BY DEF Masked!Inv, Masked!LockDiscipline, Masked!Idle, Masked!BootDiscipline, InKernel
<1>3. PICK st : st = [state EXCEPT ![current_task] = x]
  OBVIOUS
<1>4. /\ st \in [Task -> TaskState] /\ Lost(st, ready_queue) = Forgotten
      /\ Mask(st, Forgotten) = [Mask(state, Forgotten) EXCEPT ![current_task] = x]
  BY <1>1, <1>3, MaskedChange
<1>5. 0 \in {0, 1} /\ ScheduleAndUnlock(st, ready_queue, 0) /\ \A t \in Range(ready_queue) : t # current_task
  BY <1>1, <1>2, <1>3
<1>6. /\ state' \in [Task -> TaskState] /\ Forgotten' = Lost(st, ready_queue)
      /\ Masked!ScheduleAndUnlock(Mask(st, Lost(st, ready_queue)), ready_queue, 0)
  BY <1>1, <1>4, <1>5, MaskedSchedule
<1> QED BY <1>2, <1>4, <1>6

LEMMA CallsFollow ==
  ASSUME SyncTypeOK, Masked!Inv, SchedulerAssumption,
         \/ yield \/ (\E q \in Queue : task_block(q, "BLOCKED_LOCK"))
         \/ \E n \in 1..MaxSleep : task_sleep_until(n)
  PROVE  Follows
<1> USE DEF Masked!sleepVars, Masked!blockVars, sleepVars, blockVars
<1>1. CASE yield
  <2>1. /\ InKernel /\ ScheduleAndUnlock(state, ready_queue, scheduler_lock_count)
        /\ UNCHANGED <<sleepVars, blockVars, scheduler_ready>>
    BY <1>1 DEF yield
  <2>2. /\ current_task \in Task /\ state \in [Task -> TaskState] /\ ready_queue \in Seq(Task)
        /\ IsInjective(ready_queue) /\ \A t \in Range(ready_queue) : t # current_task
        /\ Lost(state, ready_queue) = Forgotten
    BY <2>1, StuckFacts DEF InKernel
  <2>3. scheduler_lock_count = 0
    BY <2>1 DEF Masked!Inv, Masked!LockDiscipline, Masked!Idle, Masked!BootDiscipline, InKernel
  <2>4. /\ state' \in [Task -> TaskState] /\ Forgotten' = Forgotten
        /\ Masked!ScheduleAndUnlock(Mask(state, Forgotten), ready_queue, scheduler_lock_count)
    BY <2>1, <2>2, <2>3, MaskedSchedule
  <2>5. Masked!yield
    BY <2>1, <2>4, MaskedSame DEF Masked!yield
  <2> QED BY <2>4, <2>5 DEF Follows, Masked!SchedulerNext, Masked!TaskStep
<1>2. ASSUME NEW q \in Queue, task_block(q, "BLOCKED_LOCK") PROVE Follows
  <2>1. /\ InKernel /\ UNCHANGED <<sleepVars, scheduler_ready>>
        /\ blocked_tasks' = [blocked_tasks EXCEPT ![q] = Append(blocked_tasks[q], current_task)]
        /\ blocked_list' = [blocked_list EXCEPT ![current_task] = blocked_list[current_task] + 1]
        /\ ScheduleAndUnlock([state EXCEPT ![current_task] = "BLOCKED_LOCK"], ready_queue,
                             scheduler_lock_count)
    BY <1>2 DEF task_block, __task_block
  <2>2. "BLOCKED_LOCK" \in TaskState \ {"READY"}
    BY DEF TaskState
  <2>3. /\ Forgotten' = Forgotten /\ state' \in [Task -> TaskState]
        /\ Masked!ScheduleAndUnlock([Mask(state, Forgotten) EXCEPT ![current_task] = "BLOCKED_LOCK"],
                                    ready_queue, scheduler_lock_count)
    BY <2>1, <2>2, CallFollows
  <2>4. Masked!task_block(q, "BLOCKED_LOCK")
    BY <2>1, <2>3, MaskedSame DEF Masked!task_block, Masked!__task_block
  <2> QED BY <2>3, <2>4 DEF Follows, Masked!SchedulerNext, Masked!TaskStep
<1>3. ASSUME NEW n \in 1..MaxSleep, task_sleep_until(n) PROVE Follows
  <2>1. /\ InKernel /\ n > 0 /\ UNCHANGED <<blockVars, walk, in_wakeup, scheduler_ready>>
        /\ remaining' = [remaining EXCEPT ![current_task] = n]
        /\ wait_queue' = Append(wait_queue, current_task)
        /\ ScheduleAndUnlock([state EXCEPT ![current_task] = "WAITING"], ready_queue,
                             scheduler_lock_count)
    BY <1>3 DEF task_sleep_until, Sleep
  <2>2. "WAITING" \in TaskState \ {"READY"}
    BY DEF TaskState
  <2>3. /\ Forgotten' = Forgotten /\ state' \in [Task -> TaskState]
        /\ Masked!ScheduleAndUnlock([Mask(state, Forgotten) EXCEPT ![current_task] = "WAITING"],
                                    ready_queue, scheduler_lock_count)
    BY <2>1, <2>2, CallFollows
  <2>4. Masked!task_sleep_until(n)
    BY <2>1, <2>3, MaskedSame DEF Masked!task_sleep_until, Masked!Sleep
  <2> QED BY <2>3, <2>4 DEF Follows, Masked!SchedulerNext, Masked!TaskStep
<1> QED BY <1>1, <1>2, <1>3

LEMMA WakesFollow ==
  ASSUME SyncTypeOK, Masked!Inv, SchedulerAssumption,
         WakeupDone \/ \E q \in Queue : task_unblock_next(q)
  PROVE  Follows
<1> USE DEF Masked!sleepVars, Masked!blockVars, sleepVars, blockVars
<1>1. /\ state \in [Task -> TaskState] /\ ready_queue \in Seq(Task) /\ IsInjective(ready_queue)
      /\ \A t \in Range(ready_queue) : t \in Task /\ state[t] = "READY"
      /\ current_task # NULL => current_task \in Task /\ state[current_task] = "RUNNING"
      /\ Lost(state, ready_queue) = Forgotten
  BY StuckFacts
<1>2. /\ scheduler_lock_count = (IF Idle THEN 1 ELSE 0) + (IF in_wakeup THEN 1 ELSE 0)
      /\ in_wakeup \in BOOLEAN /\ scheduler_ready \in BOOLEAN
      /\ in_wakeup => scheduler_ready
  BY MaskedSame DEF Masked!Inv, Masked!LockDiscipline, Masked!BootDiscipline, Masked!TypeOK
<1>3. CASE WakeupDone
  <2>1. /\ in_wakeup /\ walk = <<>> /\ in_wakeup' = FALSE
        /\ ScheduleAndUnlock(state, ready_queue, scheduler_lock_count - 1)
        /\ UNCHANGED <<wait_queue, walk, remaining, blockVars, scheduler_ready>>
    BY <1>3 DEF WakeupDone
  <2>2. /\ scheduler_lock_count - 1 \in {0, 1}
        /\ scheduler_lock_count - 1 = 0 => current_task \in Task
    BY <1>1, <1>2, <2>1 DEF Idle
  <2>3. \A t \in Range(ready_queue) : t # current_task
    BY <1>1, SchedulerAssumption DEF SchedulerAssumption
  <2>4. /\ state' \in [Task -> TaskState] /\ Forgotten' = Forgotten
        /\ Masked!ScheduleAndUnlock(Mask(state, Forgotten), ready_queue, scheduler_lock_count - 1)
    BY <1>1, <2>1, <2>2, <2>3, MaskedSchedule
  <2>5. Masked!WakeupDone
    BY <2>1, <2>4 DEF Masked!WakeupDone
  <2> QED BY <2>4, <2>5 DEF Follows, Masked!SchedulerNext, Masked!SystemStep
<1>4. ASSUME NEW q \in Queue, task_unblock_next(q) PROVE Follows
  <2>1. PICK t, rq : t = Head(blocked_tasks[q]) /\ rq = Append(ready_queue, t)
    OBVIOUS
  <2>2. /\ scheduler_ready /\ ~in_wakeup /\ blocked_tasks[q] # <<>>
        /\ blocked_tasks' = [blocked_tasks EXCEPT ![q] = Tail(blocked_tasks[q])]
        /\ blocked_list' = ListRemove(t)
        /\ ScheduleAndUnlock([state EXCEPT ![t] = "READY"], rq, scheduler_lock_count)
        /\ UNCHANGED <<sleepVars, scheduler_ready>>
    BY <1>4, <2>1 DEF task_unblock_next, Unblock
  <2>3. t \in Range(blocked_tasks[q]) /\ t \in Task
    <3>1. blocked_tasks[q] \in Seq(Task)
      BY DEF SyncTypeOK, TypeOK
    <3> QED BY <2>1, <2>2, <3>1, TailFacts
  <2>4. t \notin Forgotten /\ IsBlocked(state[t])
    BY <2>3, StuckFacts
  <2>5. rq \in Seq(Task) /\ IsInjective(rq) /\ Range(rq) = Range(ready_queue) \cup {t}
    <3>1. t \notin Range(ready_queue)
      BY <1>1, <2>4 DEF IsBlocked
    <3>2. ready_queue \in Seq(Task) /\ IsInjective(ready_queue) /\ t \in Task
      BY <1>1, <2>3
    <3>3. /\ Append(ready_queue, t) \in Seq(Task) /\ IsInjective(Append(ready_queue, t))
          /\ Range(Append(ready_queue, t)) = Range(ready_queue) \cup {t}
      BY ONLY <3>1, <3>2, AppendFacts, Zenon
    <3> QED BY <2>1, <3>3, Zenon
  <2>6. PICK st : st = [state EXCEPT ![t] = "READY"]
    OBVIOUS
  <2>7. /\ st \in [Task -> TaskState] /\ Lost(st, rq) = Forgotten
        /\ Mask(st, Forgotten) = [Mask(state, Forgotten) EXCEPT ![t] = "READY"]
    <3>1. "READY" \in TaskState
      BY DEF TaskState
    <3> QED BY <2>3, <2>4, <2>5, <2>6, <3>1, MaskedChange
  <2>8. /\ scheduler_lock_count \in {0, 1}
        /\ scheduler_lock_count = 0 => current_task \in Task
    BY <1>1, <1>2, <2>2 DEF Idle
  <2>9. \A u \in Range(rq) : u # current_task
    BY <1>1, <2>3, <2>4, <2>5 DEF SchedulerAssumption, IsBlocked
  <2>10. ScheduleAndUnlock(st, rq, scheduler_lock_count)
    BY <2>2, <2>6
  <2>11. /\ state' \in [Task -> TaskState] /\ Forgotten' = Forgotten
         /\ Masked!ScheduleAndUnlock([Mask(state, Forgotten) EXCEPT ![t] = "READY"], rq,
                                     scheduler_lock_count)
    <3>1. /\ state' \in [Task -> TaskState] /\ Forgotten' = Lost(st, rq)
          /\ Masked!ScheduleAndUnlock(Mask(st, Lost(st, rq)), rq, scheduler_lock_count)
      <4>1. st \in [Task -> TaskState]
        BY <2>7
      <4> QED BY ONLY <4>1, <2>5, <2>8, <2>9, <2>10, MaskedSchedule
    <3> QED BY <2>7, <3>1
  <2>12. Masked!task_unblock_next(q)
    BY <2>1, <2>2, <2>11
       DEF Masked!task_unblock_next, Masked!Unblock, ListRemove, Masked!ListRemove
  <2> QED BY <2>11, <2>12 DEF Follows, Masked!SchedulerNext
<1> QED BY <1>3, <1>4

LEMMA MovesFollow ==
  ASSUME SyncTypeOK, Masked!Inv, SchedulerAssumption,
         TimerIrq \/ PutBack \/ IdleExit \/ \E t \in Task : task_add(t)
  PROVE  Follows
<1> USE DEF Masked!sleepVars, Masked!blockVars, Masked!switchVars, sleepVars, blockVars, switchVars
<1>1. state \in [Task -> TaskState] /\ ready_queue \in Seq(Task) /\ IsInjective(ready_queue)
  BY StuckFacts
<1>2. ASSUME state' = state, ready_queue' = ready_queue
      PROVE  /\ Forgotten' = Forgotten /\ state' \in [Task -> TaskState]
             /\ Mask(state', Forgotten') = Mask(state, Forgotten)
  BY <1>1, <1>2 DEF Forgotten, Mask
<1>3. CASE TimerIrq
  <2>1. state' = state /\ ready_queue' = ready_queue
    BY <1>3 DEF TimerIrq
  <2>2. Masked!TimerIrq
    BY <1>2, <1>3, <2>1, MaskedSame DEF TimerIrq, Masked!TimerIrq, IrqsEnabled, Masked!IrqsEnabled
  <2> QED BY <1>2, <2>1, <2>2 DEF Follows, Masked!SchedulerNext, Masked!SystemStep
<1>4. CASE PutBack
  <2>1. state' = state /\ ready_queue' = ready_queue
    BY <1>4 DEF PutBack
  <2>2. Masked!PutBack
    BY <1>2, <1>4, <2>1 DEF PutBack, Masked!PutBack
  <2> QED BY <1>2, <2>1, <2>2 DEF Follows, Masked!SchedulerNext, Masked!SystemStep
<1>5. CASE IdleExit
  <2>1. /\ ready_queue # <<>> /\ state' = [state EXCEPT ![Head(ready_queue)] = "RUNNING"]
        /\ ready_queue' = Tail(ready_queue)
    BY <1>5 DEF IdleExit
  <2>2. /\ Head(ready_queue) \in Task /\ Head(ready_queue) \in Range(ready_queue)
        /\ Range(ready_queue') = Range(ready_queue) \ {Head(ready_queue)}
    BY <1>1, <2>1, TailFacts
  <2>3. Head(ready_queue) \notin Forgotten
    BY <2>2, StuckFacts
  <2>4. state' \in [Task -> TaskState] /\ Forgotten' = Forgotten
        /\ Mask(state', Forgotten) = [Mask(state, Forgotten) EXCEPT ![Head(ready_queue)] = "RUNNING"]
    <3>1. state' \in [Task -> TaskState]
          /\ \A t \in Task : state'[t] = IF t = Head(ready_queue) THEN "RUNNING" ELSE state[t]
      BY <1>1, <2>1, <2>2 DEF TaskState
    <3>2. Forgotten' = Forgotten
      BY <2>2, <3>1 DEF Forgotten
    <3> QED BY <2>2, <2>3, <3>1, <3>2 DEF Mask
  <2>5. Masked!IdleExit
    BY <1>5, <2>4, MaskedSame DEF IdleExit, Masked!IdleExit
  <2> QED BY <2>4, <2>5 DEF Follows, Masked!SchedulerNext, Masked!SystemStep
<1>6. ASSUME NEW t \in Task, task_add(t) PROVE Follows
  <2>1. /\ state[t] = "NEW" /\ state' = [state EXCEPT ![t] = "READY"]
        /\ ready_queue' = Append(ready_queue, t)
    BY <1>6 DEF task_add
  <2>2. t \notin Forgotten
    BY <2>1 DEF Forgotten
  <2>3. Range(ready_queue') = Range(ready_queue) \cup {t}
    <3>1. Range(Append(ready_queue, t)) = Range(ready_queue) \cup {t}
      BY ONLY <1>1, t \in Task, AppendFacts, Zenon
    <3> QED BY <2>1, <3>1, Zenon
  <2>4. state' \in [Task -> TaskState] /\ Forgotten' = Forgotten
        /\ Mask(state', Forgotten) = [Mask(state, Forgotten) EXCEPT ![t] = "READY"]
    <3>1. state' \in [Task -> TaskState]
          /\ \A u \in Task : state'[u] = IF u = t THEN "READY" ELSE state[u]
      BY <1>1, <2>1 DEF TaskState
    <3>2. Forgotten' = Forgotten
      BY <2>1, <2>3, <3>1 DEF Forgotten
    <3> QED BY <2>2, <3>1, <3>2 DEF Mask
  <2>5. Mask(state, Forgotten)[t] = "NEW"
    BY <2>1, <2>2 DEF Mask
  <2>6. Masked!task_add(t)
    BY <1>6, <2>4, <2>5, MaskedSame DEF task_add, Masked!task_add
  <2> QED BY <2>4, <2>6 DEF Follows, Masked!SchedulerNext
<1> QED BY <1>3, <1>4, <1>5, <1>6

LEMMA StandFollows ==
  ASSUME SyncTypeOK, Masked!Inv, SchedulerAssumption, UNCHANGED schedVars
  PROVE  Follows
<1>1. state' = state /\ ready_queue' = ready_queue /\ state \in [Task -> TaskState]
  BY StuckFacts DEF schedVars, switchVars
<1>2. Forgotten' = Forgotten
  BY <1>1 DEF Forgotten
<1>3. UNCHANGED (Masked!schedVars)
  BY <1>1, <1>2 DEF Masked!schedVars, Masked!switchVars, Masked!sleepVars, Masked!blockVars,
                    schedVars, switchVars, sleepVars, blockVars
<1> QED BY <1>1, <1>2, <1>3 DEF Follows

\* Steps that the masked scheduler follows keep the log stuck, if nobody leaves
\* print_mutex's queue.
LEMMA StuckAgain ==
  ASSUME NEW c \in Task, StuckOn(c),
         SchedulerAssumption, SyncAssumption, ConsoleAssumption, Follows,
         busy', scheduler_ready', UNCHANGED <<lock, locked_task>>,
         count' \in [Sem -> Nat], acquiring' \in [Task -> Mutex \cup {NULL}],
         Range(blocked_tasks[PrintMutex]) \subseteq Range(blocked_tasks'[PrintMutex]),
         \A t \in Task : acquiring'[t] = PrintMutex <=> t \in Range(blocked_tasks'[PrintMutex]),
         \A t \in Task : left'[t] \notin 1..(MsgLen - 1)
  PROVE  StuckOn(c)'
<1>1. Masked!SchedulerAssumption
  BY DEF Masked!SchedulerAssumption, SchedulerAssumption
<1>2. Masked!Inv /\ Masked!IdlerSet /\ [Masked!SchedulerNext]_(Masked!schedVars)
  BY MaskedSame DEF StuckOn, Follows
<1>3. Masked!Inv'
  BY <1>1, <1>2, Masked!StepInv
<1>4. IdlerSet'
  <2>1. Masked!IdlerSet'
    BY <1>1, <1>2, Masked!RunSteps
  <2> QED BY <2>1 DEF Masked!IdlerSet, IdlerSet, Masked!Idle, Idle
<1>5. SyncTypeOK'
  <2>1. TypeOK'
    BY <1>3 DEF Masked!Inv, Masked!TypeOK, TypeOK, Follows
  <2> QED BY <2>1 DEF StuckOn, SyncTypeOK
<1>6. state[c] = "TERMINATED" => state'[c] = "TERMINATED"
  <2> SUFFICES ASSUME state[c] = "TERMINATED" PROVE state'[c] = "TERMINATED"
    OBVIOUS
  <2>1. c \notin Forgotten /\ c \notin Forgotten'
    BY DEF Forgotten, Follows
  <2>2. Mask(state, Forgotten)[c] = "TERMINATED"
    BY <2>1 DEF Mask
  <2>3. Mask(state', Forgotten')[c] = "TERMINATED"
    BY <1>1, <1>2, <2>2, Masked!ExitStep
  <2> QED BY <2>1, <2>3 DEF Mask
<1> QED BY <1>3, <1>4, <1>5, <1>6 DEF StuckOn

\* Once the exited task c has print_mutex, c and the tasks in its queue never run.
LEMMA StuckAway ==
  ASSUME NEW c \in Task, StuckOn(c), SchedulerAssumption, SyncAssumption, ConsoleAssumption
  PROVE  /\ current_task # NULL => /\ current_task \in Task
                                   /\ locked_task[PrintMutex] # current_task
                                   /\ acquiring[current_task] # PrintMutex
         /\ PrintMutex \in Mutex /\ PrintMutex \in Queue /\ PrintMutex \notin Sem
         /\ PrintMutex # NULL /\ NULL \notin Task /\ MsgLen \in Nat \ {0}
         /\ lock[PrintMutex] = 1 /\ locked_task[PrintMutex] = c /\ scheduler_ready /\ busy
         /\ count \in [Sem -> Nat] /\ acquiring \in [Task -> Mutex \cup {NULL}]
         /\ blocked_tasks \in [Queue -> Seq(Task)]
         /\ lock \in [Mutex -> {0, 1}] /\ locked_task \in [Mutex -> Task \cup {NULL}]
<1>1. /\ PrintMutex \in Mutex /\ PrintMutex \in Queue /\ PrintMutex \notin Sem
      /\ PrintMutex # NULL /\ NULL \notin Task /\ MsgLen \in Nat \ {0}
  BY DEF SchedulerAssumption, SyncAssumption, ConsoleAssumption
<1>2. /\ lock[PrintMutex] = 1 /\ locked_task[PrintMutex] = c /\ scheduler_ready /\ busy
      /\ count \in [Sem -> Nat] /\ acquiring \in [Task -> Mutex \cup {NULL}]
      /\ blocked_tasks \in [Queue -> Seq(Task)]
      /\ lock \in [Mutex -> {0, 1}] /\ locked_task \in [Mutex -> Task \cup {NULL}]
  BY DEF StuckOn, SyncTypeOK, TypeOK
<1>3. ASSUME current_task # NULL
      PROVE  /\ current_task \in Task /\ state[current_task] = "RUNNING"
             /\ current_task \notin Range(blocked_tasks[PrintMutex])
  BY <1>1, <1>3, StuckFacts DEF StuckOn, IsBlocked
<1> QED BY <1>1, <1>2, <1>3 DEF StuckOn

LEMMA AppendRange ==
  ASSUME NEW s \in Seq(Task), NEW t \in Task
  PROVE  Range(Append(s, t)) = Range(s) \cup {t}
BY AppendFacts

\* The next message waits behind the exited owner.
LEMMA PrintBeginStuck ==
  ASSUME NEW c \in Task, StuckOn(c), SchedulerAssumption, SyncAssumption, ConsoleAssumption,
         LogTypeOK, PrintBegin
  PROVE  StuckOn(c)'
<1>1. /\ current_task # NULL /\ left' = [left EXCEPT ![current_task] = MsgLen] /\ busy' = busy
      /\ LockTaken(PrintMutex) /\ count' = count
  BY StuckAway DEF PrintBegin, mutex_lock, LockFree
<1>2. /\ acquiring' = [acquiring EXCEPT ![current_task] = PrintMutex]
      /\ task_block(PrintMutex, "BLOCKED_LOCK") /\ UNCHANGED <<lock, locked_task>>
  BY <1>1 DEF LockTaken
<1>3. Follows
  BY <1>2, StuckAway, CallsFollow DEF StuckOn
<1>4. scheduler_ready' = scheduler_ready
      /\ blocked_tasks' = [blocked_tasks EXCEPT ![PrintMutex] =
                             Append(blocked_tasks[PrintMutex], current_task)]
  BY <1>2 DEF task_block, __task_block
<1>5. current_task \in Task /\ blocked_tasks[PrintMutex] \in Seq(Task)
  BY <1>1, StuckAway
<1>6. Range(blocked_tasks'[PrintMutex]) = Range(blocked_tasks[PrintMutex]) \cup {current_task}
  <2>1. \A s \in Seq(Task), t \in Task : Range(Append(s, t)) = Range(s) \cup {t}
    BY AppendRange
  <2>2. blocked_tasks'[PrintMutex] = Append(blocked_tasks[PrintMutex], current_task)
    BY <1>4, StuckAway
  <2> QED BY <1>5, <2>1, <2>2, Zenon
<1>7. \A t \in Task : acquiring'[t] = PrintMutex <=> t \in Range(blocked_tasks'[PrintMutex])
  BY <1>2, <1>5, <1>6, StuckAway DEF StuckOn
<1>8. \A t \in Task : left'[t] \notin 1..(MsgLen - 1)
  BY <1>1, <1>5, StuckAway DEF StuckOn, LogTypeOK
<1>9. acquiring' \in [Task -> Mutex \cup {NULL}]
  BY <1>2, <1>5, StuckAway
<1> QED BY <1>1, <1>2, <1>3, <1>4, <1>6, <1>7, <1>8, <1>9, StuckAway, StuckAgain

\* The steps that leave print_mutex and its queue alone.
LEMMA AsideStuck ==
  ASSUME NEW c \in Task, StuckOn(c), SchedulerAssumption, SyncAssumption, ConsoleAssumption,
         Follows, busy' = busy, scheduler_ready' = scheduler_ready, left' = left,
         UNCHANGED <<lock, locked_task, acquiring>>, count' \in [Sem -> Nat],
         blocked_tasks'[PrintMutex] = blocked_tasks[PrintMutex]
  PROVE  StuckOn(c)'
<1>1. /\ \A t \in Task : acquiring'[t] = PrintMutex <=> t \in Range(blocked_tasks'[PrintMutex])
      /\ \A t \in Task : left'[t] \notin 1..(MsgLen - 1)
  BY DEF StuckOn
<1> QED BY <1>1, StuckAway, StuckAgain

LEMMA LockedFailureStuck ==
  ASSUME NEW c \in Task, StuckOn(c), SchedulerAssumption, SyncAssumption, ConsoleAssumption,
         LockedPrintFails
  PROVE  StuckOn(c)'
<1>1. UNCHANGED vars /\ left' = left /\ busy' = busy
  BY DEF LockedPrintFails
<1>2. Follows
  BY <1>1, StandFollows DEF StuckOn, vars
<1> QED BY <1>1, <1>2, StuckAway, AsideStuck DEF vars, syncVars, schedVars, blockVars

LEMMA DeviceStuck ==
  ASSUME NEW c \in Task, StuckOn(c), SchedulerAssumption, SyncAssumption, ConsoleAssumption,
         DeviceStep
  PROVE  StuckOn(c)'
<1>1. PICK s \in Sem : semaphore_acquire(s) \/ semaphore_release(s)
  BY DEF DeviceStep
<1>2. /\ busy' = busy /\ left' = left /\ s \in Queue /\ s # PrintMutex
      /\ UNCHANGED <<lock, locked_task, acquiring>>
      /\ count' \in [Sem -> Nat]
  <2>1. /\ busy' = busy /\ left' = left /\ s \in Queue /\ s # PrintMutex
        /\ UNCHANGED <<lock, locked_task, acquiring>>
    BY <1>1, StuckAway DEF DeviceStep, logVars, semaphore_acquire, semaphore_release, SyncAssumption
  <2>2. \/ count' = count \/ count' = [count EXCEPT ![s] = count[s] + 1]
        \/ count[s] > 0 /\ count' = [count EXCEPT ![s] = count[s] - 1]
    BY <1>1 DEF semaphore_acquire, semaphore_release
  <2>3. count \in [Sem -> Nat]
    BY StuckAway
  <2>4. count' \in [Sem -> Nat]
    BY <2>2, <2>3
  <2> QED BY <2>1, <2>4
<1>3. CASE UNCHANGED schedVars
  <2>1. Follows
    BY <1>3, StandFollows DEF StuckOn
  <2> QED BY <1>2, <1>3, <2>1, AsideStuck DEF schedVars, blockVars
<1>4. CASE task_block(s, "BLOCKED_LOCK")
  <2>1. Follows
    BY <1>2, <1>4, CallsFollow DEF StuckOn
  <2>2. scheduler_ready' = scheduler_ready
        /\ blocked_tasks'[PrintMutex] = blocked_tasks[PrintMutex]
    BY <1>2, <1>4, StuckAway DEF task_block, __task_block
  <2> QED BY <1>2, <2>1, <2>2, AsideStuck
<1>5. CASE task_unblock_next(s)
  <2>1. Follows
    BY <1>2, <1>5, WakesFollow DEF StuckOn
  <2>2. scheduler_ready' = scheduler_ready
        /\ blocked_tasks'[PrintMutex] = blocked_tasks[PrintMutex]
    BY <1>2, <1>5, StuckAway DEF task_unblock_next, Unblock
  <2> QED BY <1>2, <2>1, <2>2, AsideStuck
<1> QED BY <1>1, <1>3, <1>4, <1>5 DEF semaphore_acquire, semaphore_release

LEMMA SilentStuck ==
  ASSUME NEW c \in Task, StuckOn(c), SchedulerAssumption, SyncAssumption, ConsoleAssumption,
         SilentStep \/ (IdleExit /\ UNCHANGED <<syncVars, logVars>>)
  PROVE  StuckOn(c)'
<1>1. /\ UNCHANGED <<lock, locked_task, acquiring>> /\ count' = count /\ busy' = busy
      /\ left' = left
  BY DEF SilentStep, syncVars, logVars
<1>2. /\ ~tasking_enable /\ SyncTypeOK /\ Masked!Inv
  BY StuckAway DEF tasking_enable, StuckOn
<1>3. \/ yield \/ (\E n \in 1..MaxSleep : task_sleep_until(n))
      \/ TimerIrq \/ PutBack \/ WakeupDone \/ IdleExit \/ (\E t \in Task : task_add(t))
  BY <1>2 DEF SilentStep
<1>4. Follows
  BY <1>2, <1>3, CallsFollow, WakesFollow, MovesFollow
<1>5. blocked_tasks' = blocked_tasks /\ scheduler_ready' = scheduler_ready
  BY <1>3 DEF yield, task_sleep_until, TimerIrq, PutBack, WakeupDone, IdleExit, task_add, blockVars
<1> QED BY <1>1, <1>4, <1>5, StuckAway, AsideStuck

-----------------------------------------------------------------------------
(* __schedule()'s message forgets tasks.                                    *)

LEMMA MaskedParts ==
  ASSUME Masked!Inv
  PROVE  /\ Fits(Mask(state, Forgotten), ready_queue)
         /\ SleepFits(Mask(state, Forgotten), wait_queue, walk)
         /\ BlockFits(Mask(state, Forgotten), blocked_tasks)
         /\ ListFits(Mask(state, Forgotten), blocked_list)
BY DEF Masked!Inv, Masked!TypeOK, Masked!NoDuplicates, Masked!QueuesMatchStates,
       Masked!BlockedListExact, Masked!Blocked, Masked!Sleepers, Masked!Range,
       Masked!IsInjective, Masked!TaskState, Fits, SleepFits, BlockFits, ListFits, IsBlocked,
       Range, IsInjective, TaskState

LEMMA MaskedFit ==
  ASSUME Fits(Mask(state', Forgotten'), ready_queue'),
         SleepFits(Mask(state', Forgotten'), wait_queue', walk'),
         BlockFits(Mask(state', Forgotten'), blocked_tasks'),
         ListFits(Mask(state', Forgotten'), blocked_list')
  PROVE  Masked!NoDuplicates' /\ Masked!QueuesMatchStates' /\ Masked!BlockedListExact'
BY DEF Masked!NoDuplicates, Masked!QueuesMatchStates,
       Masked!BlockedListExact, Masked!Blocked, Masked!Sleepers, Masked!Range,
       Masked!IsInjective, Masked!TaskState, Fits, SleepFits, BlockFits, ListFits, IsBlocked,
       Range, IsInjective, TaskState

\* The states in which the tasks that rest has lost from the ready queue count as
\* ended, the head of rest runs and c has the state x.
Dropped(M, new, c, x, rest, n) ==
  /\ new \in [Task -> TaskState]
  /\ \A t \in Task : new[t] = IF t = c THEN x
                              ELSE IF t = n THEN "RUNNING"
                              ELSE IF M[t] = "READY" /\ t \notin Range(rest) THEN "TERMINATED"
                              ELSE M[t]

\* The terminated task c is left, or its stack idled on, with rest of the ready
\* queue; x is c's state then, and n the task that runs.
Leaves(c, x, rest, n) ==
  /\ scheduler_ready /\ ~in_wakeup
  /\ c = current_task \/ (current_task = NULL /\ c = idler /\ state[c] = "TERMINATED")
  /\ rest \in Seq(Task) /\ IsInjective(rest) /\ Range(rest) \subseteq Range(ready_queue)
  /\ IF rest = <<>> THEN IdleOn(c, [state EXCEPT ![c] = x]) /\ n = NULL
     ELSE LeaveFor(c, [state EXCEPT ![c] = x], rest) /\ n = Head(rest)
  /\ postponed_schedule' = FALSE
  /\ UNCHANGED <<sleepVars, scheduler_ready>>

LEMMA LeavesDrops ==
  ASSUME SyncTypeOK, Masked!Inv, SchedulerAssumption, IdlerSet,
         NEW c \in Task, NEW x \in {"TERMINATED", "BLOCKED_LOCK"}, NEW rest, NEW n,
         Leaves(c, x, rest, n)
  PROVE  /\ Dropped(Mask(state, Forgotten), Mask(state', Forgotten'), c, x, rest, n)
         /\ state' \in [Task -> TaskState]
         /\ ready_queue' \in Seq(Task) /\ IsInjective(ready_queue')
         /\ Range(ready_queue') = Range(rest) \ {n}
         /\ current_task' = n /\ n \in Range(rest) \cup {NULL}
         /\ scheduler_lock_count' = (IF n = NULL THEN 1 ELSE 0) /\ IdlerSet'
         /\ \A t \in Task : t # c /\ t # n => state'[t] = state[t]
         /\ state'[c] = x
<1>1. /\ state \in [Task -> TaskState] /\ c \notin Range(ready_queue) /\ NULL \notin Task
      /\ \A t \in Range(ready_queue) : state[t] = "READY" /\ t \notin Forgotten
      /\ c \notin Forgotten
  BY StuckFacts DEF Leaves, SchedulerAssumption
<1>2. PICK st : st = [state EXCEPT ![c] = x]
  OBVIOUS
<1>3. st \in [Task -> TaskState] /\ \A t \in Task : st[t] = IF t = c THEN x ELSE state[t]
  BY <1>1, <1>2 DEF TaskState
<1>4. /\ rest \in Seq(Task) /\ IsInjective(rest) /\ Range(rest) \subseteq Range(ready_queue)
      /\ Range(rest) \subseteq Task
  BY DEF Leaves, Range
<1>5. /\ state' \in [Task -> TaskState]
      /\ ready_queue' \in Seq(Task) /\ IsInjective(ready_queue')
      /\ Range(ready_queue') = Range(rest) \ {n}
      /\ current_task' = n /\ n \in Range(rest) \cup {NULL}
      /\ scheduler_lock_count' = (IF n = NULL THEN 1 ELSE 0) /\ IdlerSet'
      /\ \A t \in Task : state'[t] = IF t = n THEN "RUNNING" ELSE st[t]
  <2>1. CASE rest = <<>>
    <3>1. /\ current_task' = NULL /\ idler' = c /\ scheduler_lock_count' = 1 /\ state' = st
          /\ ready_queue' = <<>> /\ n = NULL /\ scheduler_ready'
      BY <1>2, <2>1 DEF Leaves, IdleOn
    <3>2. Range(<<>>) = {}
      BY DEF Range
    <3> QED BY <1>1, <1>3, <1>4, <2>1, <3>1, <3>2 DEF IdlerSet, Idle
  <2>2. CASE rest # <<>>
    <3>1. /\ current_task' = n /\ idler' = (IF c = idler THEN NULL ELSE idler)
          /\ scheduler_lock_count' = 0 /\ state' = [st EXCEPT ![n] = "RUNNING"]
          /\ ready_queue' = Tail(rest) /\ n = Head(rest)
      BY <1>2, <2>2 DEF Leaves, LeaveFor
    <3>2. /\ n \in Task /\ n \in Range(rest) /\ Tail(rest) \in Seq(Task)
          /\ IsInjective(Tail(rest)) /\ Range(Tail(rest)) = Range(rest) \ {n}
      BY <1>4, <2>2, <3>1, TailFacts
    <3>3. IdlerSet'
      BY <1>1, <3>1, <3>2 DEF Leaves, IdlerSet, Idle
    <3> QED BY <1>1, <1>3, <3>1, <3>2, <3>3 DEF TaskState
  <2> QED BY <2>1, <2>2
<1>6. n # c
  BY <1>1, <1>4, <1>5
<1>7. Forgotten' = Forgotten \cup (Range(ready_queue) \ Range(rest))
  <2>1. \A t \in Task : state'[t] = "READY" <=> state[t] = "READY" /\ t # n
    BY <1>1, <1>3, <1>5, <1>6, StuckFacts DEF Leaves
  <2>2. Range(ready_queue) \subseteq Task
    BY StuckFacts
  <2> QED BY <1>1, <1>4, <1>5, <2>1, <2>2 DEF Forgotten
<1>8. PICK M : M = Mask(state, Forgotten)
  OBVIOUS
<1>9. \A t \in Task : M[t] = IF t \in Forgotten THEN "TERMINATED" ELSE state[t]
  BY <1>8 DEF Mask
<1>10. \A t \in Task : M[t] = "READY" <=> t \in Range(ready_queue)
  BY <1>8, MaskedParts DEF Fits
<1>11. PICK N : N = Mask(state', Forgotten')
  OBVIOUS
<1>12. /\ N \in [Task -> TaskState]
       /\ \A t \in Task : N[t] = IF t \in Forgotten' THEN "TERMINATED" ELSE state'[t]
  BY <1>5, <1>11 DEF Mask, TaskState
<1>13. Dropped(M, N, c, x, rest, n)
  BY <1>1, <1>3, <1>4, <1>5, <1>6, <1>7, <1>9, <1>10, <1>12 DEF Dropped
<1> QED BY <1>3, <1>5, <1>6, <1>8, <1>11, <1>13

\* Whether c has ended or waits for print_mutex in its last message, the scheduler
\* is sound without the tasks lost from the ready queue.
LEMMA LeavesInv ==
  ASSUME SyncTypeOK, Masked!Inv, SchedulerAssumption, IdlerSet, PrintMutex \in Queue,
         NEW c \in Task, NEW x \in {"TERMINATED", "BLOCKED_LOCK"}, NEW rest, NEW n,
         Leaves(c, x, rest, n),
         IF x = "TERMINATED" THEN UNCHANGED blockVars
         ELSE /\ blocked_tasks' = [blocked_tasks EXCEPT ![PrintMutex] =
                                     Append(blocked_tasks[PrintMutex], c)]
              /\ blocked_list' = [blocked_list EXCEPT ![c] = blocked_list[c] + 1]
  PROVE  Masked!Inv' /\ TypeOK' /\ IdlerSet'
<1>1. PICK M, N : M = Mask(state, Forgotten) /\ N = Mask(state', Forgotten')
  OBVIOUS
<1>2. /\ Dropped(M, N, c, x, rest, n)
      /\ state' \in [Task -> TaskState]
      /\ ready_queue' \in Seq(Task) /\ IsInjective(ready_queue')
      /\ Range(ready_queue') = Range(rest) \ {n}
      /\ current_task' = n /\ n \in Range(rest) \cup {NULL}
      /\ scheduler_lock_count' = (IF n = NULL THEN 1 ELSE 0) /\ IdlerSet'
  BY <1>1, LeavesDrops
<1>3. /\ Fits(M, ready_queue) /\ SleepFits(M, wait_queue, walk)
      /\ BlockFits(M, blocked_tasks) /\ ListFits(M, blocked_list)
  BY <1>1, MaskedParts
<1>4. /\ \A t \in Task : M[t] = IF t \in Forgotten THEN "TERMINATED" ELSE state[t]
      /\ N \in [Task -> TaskState]
      /\ \A t \in Task : N[t] = IF t = c THEN x
                                ELSE IF t = n THEN "RUNNING"
                                ELSE IF M[t] = "READY" /\ t \notin Range(rest) THEN "TERMINATED"
                                ELSE M[t]
  BY <1>1, <1>2 DEF Mask, Dropped
<1>5. /\ Range(rest) \subseteq Range(ready_queue) /\ NULL \notin Task
      /\ UNCHANGED <<wait_queue, walk, in_wakeup, remaining, scheduler_ready>>
      /\ scheduler_ready /\ ~in_wakeup /\ postponed_schedule' = FALSE
  BY DEF Leaves, sleepVars, SchedulerAssumption
<1>6. M[c] \in {"RUNNING", "TERMINATED"} /\ \A t \in Task : M[t] = "RUNNING" => t = c
  BY <1>1, <1>4, StuckFacts DEF Leaves, Masked!Inv, Masked!RunningIsCurrent
<1>7. n # NULL => M[n] = "READY" /\ n \in Task
  BY <1>2, <1>3, <1>5, StuckFacts DEF Fits
<1>8. \A t \in Task : /\ N[t] = "READY" <=> t \in Range(ready_queue')
                      /\ N[t] = "RUNNING" <=> t = n
                      /\ N[t] = "WAITING" <=> M[t] = "WAITING"
                      /\ t # c => (IsBlocked(N[t]) <=> IsBlocked(M[t]))
                      /\ ~IsBlocked(M[c])
  <2>1. \A t \in Task : N[t] = "READY" <=> t \in Range(ready_queue')
    BY <1>2, <1>3, <1>4, <1>5, <1>6, <1>7 DEF Fits
  <2>2. \A t \in Task : N[t] = "RUNNING" <=> t = n
    BY <1>4, <1>5, <1>6, <1>7
  <2>3. \A t \in Task : N[t] = "WAITING" <=> M[t] = "WAITING"
    BY <1>4, <1>5, <1>6, <1>7
  <2>4. \A t \in Task : t # c => (IsBlocked(N[t]) <=> IsBlocked(M[t]))
    BY <1>4, <1>5, <1>6, <1>7 DEF IsBlocked
  <2>5. ~IsBlocked(M[c])
    BY <1>6 DEF IsBlocked
  <2> QED BY <2>1, <2>2, <2>3, <2>4, <2>5
<1>9. Fits(N, ready_queue')
  BY <1>2, <1>4, <1>8 DEF Fits
<1>10. SleepFits(N, wait_queue', walk')
  BY <1>3, <1>5, <1>8 DEF SleepFits
<1>11. N[c] = x
  BY <1>4
<1>12. BlockFits(N, blocked_tasks')
  <2>1. CASE x = "TERMINATED"
    <3>1. ~IsBlocked(N[c]) /\ blocked_tasks' = blocked_tasks
      BY <1>11, <2>1 DEF IsBlocked, blockVars
    <3> QED BY <1>3, <1>8, <3>1 DEF BlockFits
  <2>2. CASE x = "BLOCKED_LOCK"
    <3>1. PICK w : w = blocked_tasks[PrintMutex]
      OBVIOUS
    <3>2. PICK a : a = Append(w, c)
      OBVIOUS
    <3>3. /\ w \in Seq(Task) /\ IsInjective(w) /\ c \notin Range(w)
          /\ \A q \in Queue : c \notin Range(blocked_tasks[q])
      BY <1>3, <1>8, <3>1 DEF BlockFits
    <3>4. a \in Seq(Task) /\ Range(a) = Range(w) \cup {c} /\ IsInjective(a)
      <4>1. /\ Append(w, c) \in Seq(Task) /\ Range(Append(w, c)) = Range(w) \cup {c}
            /\ IsInjective(Append(w, c))
        BY ONLY c \in Task, <3>3, AppendFacts, Zenon
      <4> QED BY <3>2, <4>1, Zenon
    <3>5. /\ blocked_tasks' \in [Queue -> Seq(Task)] /\ blocked_tasks'[PrintMutex] = a
          /\ \A q \in Queue : q # PrintMutex => blocked_tasks'[q] = blocked_tasks[q]
      <4>1. blocked_tasks' = [blocked_tasks EXCEPT ![PrintMutex] = a]
        BY <2>2, <3>1, <3>2
      <4> QED BY <1>3, <3>4, <4>1 DEF BlockFits
    <3>6. IsBlocked(N[c])
      BY <1>11, <2>2 DEF IsBlocked
    <3>7. \A t \in Task : IsBlocked(N[t]) <=> \E q \in Queue : t \in Range(blocked_tasks'[q])
      BY <1>3, <1>8, <3>1, <3>4, <3>5, <3>6 DEF BlockFits
    <3>8. /\ \A q \in Queue : IsInjective(blocked_tasks'[q])
          /\ \A p, q \in Queue : p # q => Range(blocked_tasks'[p]) \cap Range(blocked_tasks'[q]) = {}
      <4>1. /\ \A q \in Queue : IsInjective(blocked_tasks[q])
            /\ \A p, q \in Queue : p # q => Range(blocked_tasks[p]) \cap Range(blocked_tasks[q]) = {}
        BY <1>3 DEF BlockFits
      <4>2. \A q \in Queue : IsInjective(blocked_tasks'[q])
        BY <3>4, <3>5, <4>1
      <4>3. \A q \in Queue : Range(blocked_tasks'[q]) = IF q = PrintMutex THEN Range(w) \cup {c}
                                                         ELSE Range(blocked_tasks[q])
        BY <3>4, <3>5
      <4>4. \A q \in Queue \ {PrintMutex} : (Range(w) \cup {c}) \cap Range(blocked_tasks[q]) = {}
        BY <3>1, <3>3, <4>1
      <4> QED BY <4>1, <4>2, <4>3, <4>4
    <3> QED BY <3>5, <3>7, <3>8 DEF BlockFits
  <2> QED BY <2>1, <2>2
<1>13. ListFits(N, blocked_list')
  <2>1. blocked_list \in [Task -> Nat] /\ blocked_list[c] = 0
    <3>1. blocked_list[c] \in Nat /\ blocked_list[c] <= 1 /\ blocked_list[c] # 1
      BY <1>3, <1>6 DEF ListFits, IsBlocked
    <3> QED BY <1>3, <3>1 DEF ListFits
  <2>2. CASE x = "TERMINATED"
    <3>1. blocked_list' = blocked_list /\ ~IsBlocked(N[c])
      BY <1>11, <2>2 DEF blockVars, IsBlocked
    <3> QED BY <1>3, <1>8, <2>1, <3>1 DEF ListFits
  <2>3. CASE x = "BLOCKED_LOCK"
    <3>1. blocked_list' = [blocked_list EXCEPT ![c] = 1] /\ IsBlocked(N[c])
      BY <1>11, <2>1, <2>3 DEF IsBlocked
    <3> QED BY <1>3, <1>8, <2>1, <3>1 DEF ListFits
  <2> QED BY <2>2, <2>3
<1>14. Masked!NoDuplicates' /\ Masked!QueuesMatchStates' /\ Masked!BlockedListExact'
  BY <1>1, <1>9, <1>10, <1>12, <1>13, MaskedFit
<1>15. /\ blocked_tasks' \in [Queue -> Seq(Task)] /\ blocked_list' \in [Task -> Nat]
       /\ idler' \in Task \cup {NULL} /\ n \in Task \cup {NULL}
       /\ scheduler_ready' \in BOOLEAN /\ wait_queue' \in Seq(Task) /\ walk' \in Seq(Task)
       /\ in_wakeup' \in BOOLEAN /\ remaining' \in [Task -> Nat]
       /\ scheduler_lock_count' \in Nat
  BY <1>2, <1>5, <1>7, <1>12, <1>13
     DEF BlockFits, ListFits, IdlerSet, Idle, SyncTypeOK, TypeOK
<1>16. TypeOK' /\ Masked!TypeOK'
  BY <1>1, <1>2, <1>4, <1>5, <1>15 DEF TypeOK, Masked!TypeOK, Masked!TaskState, TaskState
<1>17. Masked!RunningIsCurrent'
  BY <1>1, <1>2, <1>8 DEF Masked!RunningIsCurrent
<1>18. Masked!LockDiscipline' /\ Masked!BootDiscipline'
  <2>1. walk = <<>>
    BY <1>5 DEF Masked!Inv, Masked!BootDiscipline
  <2> QED BY <1>2, <1>5, <2>1 DEF Masked!LockDiscipline, Masked!BootDiscipline, Masked!Idle
<1> QED BY <1>2, <1>14, <1>16, <1>17, <1>18 DEF Masked!Inv

\* What is left of the ready queue when its first one or two tasks are dropped.
LEMMA RestFacts ==
  ASSUME NEW s \in Seq(Task), IsInjective(s), s # <<>>
  PROVE  /\ Tail(s) \in Seq(Task) /\ IsInjective(Tail(s)) /\ Range(Tail(s)) \subseteq Range(s)
         /\ Len(s) = 1 => Tail(s) = <<>>
         /\ Len(s) > 1 => /\ Tail(Tail(s)) \in Seq(Task) /\ IsInjective(Tail(Tail(s)))
                          /\ Range(Tail(Tail(s))) \subseteq Range(s)
<1>1. /\ Tail(s) \in Seq(Task) /\ IsInjective(Tail(s)) /\ Range(Tail(s)) = Range(s) \ {Head(s)}
  BY TailFacts
<1>2. Len(Tail(s)) = Len(s) - 1 /\ Len(s) \in Nat
  BY HeadTailProperties, LenProperties
<1>3. \A u \in Seq(Task) : u = <<>> <=> Len(u) = 0
  BY EmptySeq
<1>4. ASSUME Len(s) > 1
      PROVE  /\ Tail(Tail(s)) \in Seq(Task) /\ IsInjective(Tail(Tail(s)))
             /\ Range(Tail(Tail(s))) \subseteq Range(s)
  <2>1. PICK w : w = Tail(s)
    OBVIOUS
  <2>2. w \in Seq(Task) /\ IsInjective(w) /\ Len(w) > 0
    BY <1>1, <1>2, <1>4, <2>1
  <2>3. w # <<>>
    BY <1>3, <2>2
  <2>4. /\ Tail(w) \in Seq(Task) /\ IsInjective(Tail(w)) /\ Range(Tail(w)) = Range(w) \ {Head(w)}
    BY <2>2, <2>3, TailFacts
  <2> QED BY <1>1, <2>1, <2>4
<1>5. Len(s) = 1 => Tail(s) = <<>>
  <2>1. Len(s) = 1 => Len(Tail(s)) = 0
    BY <1>2
  <2> QED BY <1>1, <1>3, <2>1, Zenon
<1> QED BY <1>1, <1>4, <1>5

\* A sound scheduler has forgotten nobody.
LEMMA SaneMasked ==
  ASSUME Sane PROVE SyncTypeOK /\ Masked!Inv /\ Forgotten = {}
<1>1. SyncTypeOK /\ Inv
  BY DEF Sane, SyncInv, MutexesConsistent
<1>2. Forgotten = {}
  BY <1>1 DEF Inv, QueuesMatchStates, Forgotten
<1>3. Mask(state, Forgotten) = state
  BY <1>1, <1>2 DEF Inv, TypeOK, Mask
<1>4. Masked!TypeOK
  BY <1>1, <1>3 DEF Masked!TypeOK, Inv, TypeOK, TaskState, Masked!TaskState
<1>5. Masked!NoDuplicates /\ Masked!RunningIsCurrent
  BY <1>1, <1>3, MaskedSame DEF Masked!NoDuplicates, Masked!RunningIsCurrent, Inv, NoDuplicates, RunningIsCurrent
<1>6. Masked!QueuesMatchStates
  BY <1>1, <1>3 DEF Masked!QueuesMatchStates, Masked!Sleepers, Masked!Blocked, Masked!Range,
                    Inv, QueuesMatchStates, Sleepers, Blocked, Range
<1>7. Masked!BlockedListExact
  BY <1>1, <1>3 DEF Masked!BlockedListExact, Masked!Blocked, Inv, BlockedListExact, Blocked
<1>8. Masked!LockDiscipline /\ Masked!BootDiscipline
  BY <1>1, MaskedSame DEF Masked!LockDiscipline, Masked!BootDiscipline, Inv, LockDiscipline, BootDiscipline
<1> QED BY <1>1, <1>2, <1>4, <1>5, <1>6, <1>7, <1>8 DEF Masked!Inv

\* Whose last message __schedule() prints.
Ending(c) ==
  /\ scheduler_ready /\ ~in_wakeup /\ ready_queue # <<>>
  /\ c = current_task \/ (current_task = NULL /\ c = idler /\ state[c] = "TERMINATED")
  /\ postponed_schedule' = FALSE
  /\ UNCHANGED <<sleepVars, scheduler_ready, count, left, failed>>

\* c waits for print_mutex in its last message.
LEMMA BlockInLogInv ==
  ASSUME SyncTypeOK, Masked!Inv, SchedulerAssumption, SyncAssumption, ConsoleAssumption, IdlerSet,
         NEW c \in Task, Ending(c),
         NEW rest \in Seq(Task), IsInjective(rest), Range(rest) \subseteq Range(ready_queue),
         BlockInLog(c, rest)
  PROVE  /\ Masked!Inv' /\ TypeOK' /\ IdlerSet'
         /\ acquiring' = [acquiring EXCEPT ![c] = PrintMutex]
         /\ Range(blocked_tasks'[PrintMutex]) = Range(blocked_tasks[PrintMutex]) \cup {c}
         /\ \A t \in Task : state[t] = "TERMINATED" /\ t # c => state'[t] = "TERMINATED"
<1>1. PICK n : n = IF rest = <<>> THEN NULL ELSE Head(rest)
  OBVIOUS
<1>2. /\ blocked_tasks' = [blocked_tasks EXCEPT ![PrintMutex] = Append(blocked_tasks[PrintMutex], c)]
      /\ blocked_list' = [blocked_list EXCEPT ![c] = blocked_list[c] + 1]
      /\ acquiring' = [acquiring EXCEPT ![c] = PrintMutex]
      /\ PrintMutex \in Queue /\ blocked_tasks \in [Queue -> Seq(Task)]
  BY DEF BlockInLog, SyncTypeOK, TypeOK, SyncAssumption, ConsoleAssumption
<1>3. Leaves(c, "BLOCKED_LOCK", rest, n)
  BY <1>1 DEF Ending, BlockInLog, Leaves
<1>4. Masked!Inv' /\ TypeOK' /\ IdlerSet'
  <2>1. "BLOCKED_LOCK" \in {"TERMINATED", "BLOCKED_LOCK"} /\ "BLOCKED_LOCK" # "TERMINATED"
    OBVIOUS
  <2> QED BY <1>2, <1>3, <2>1, LeavesInv
<1>5. Range(blocked_tasks'[PrintMutex]) = Range(blocked_tasks[PrintMutex]) \cup {c}
  <2>1. \A s \in Seq(Task), t \in Task : Range(Append(s, t)) = Range(s) \cup {t}
    BY AppendRange
  <2>2. blocked_tasks'[PrintMutex] = Append(blocked_tasks[PrintMutex], c)
        /\ blocked_tasks[PrintMutex] \in Seq(Task)
    BY <1>2
  <2> QED BY <2>1, <2>2, Zenon
<1>6. ASSUME NEW t \in Task, state[t] = "TERMINATED", t # c PROVE state'[t] = "TERMINATED"
  <2>1. /\ n \in Range(rest) \cup {NULL}
        /\ \A u \in Task : u # c /\ u # n => state'[u] = state[u]
    BY <1>3, LeavesDrops
  <2>2. t # n
    BY <1>6, <2>1, StuckFacts DEF SchedulerAssumption
  <2> QED BY <1>6, <2>1, <2>2
<1> QED BY <1>2, <1>4, <1>5, <1>6

\* The UART was busy in the last message of c: the log gets stuck on c.
LEMMA BusyEndSticks ==
  ASSUME Sane, SchedulerAssumption, SyncAssumption, ConsoleAssumption,
         NEW c \in Task, Ending(c), NEW st, st = [state EXCEPT ![c] = "TERMINATED"],
         BusyEnd(c, st)
  PROVE  StuckOn(c)'
<1>1. /\ busy' = TRUE /\ lock[PrintMutex] = 0 /\ lock' = [lock EXCEPT ![PrintMutex] = 1]
      /\ locked_task' = [locked_task EXCEPT ![PrintMutex] = c] /\ scheduler_ready'
      /\ left' = left /\ count' = count
  BY DEF BusyEnd, Ending
<1>2. SyncTypeOK /\ Masked!Inv /\ IdlerSet
  BY SaneMasked DEF Sane
<1>3. /\ \A t \in Task : acquiring[t] # PrintMutex /\ left[t] \notin 1..(MsgLen - 1)
      /\ blocked_tasks[PrintMutex] = <<>> /\ Range(blocked_tasks[PrintMutex]) = {}
  BY <1>1, LogFacts DEF Range
<1>4. /\ lock'[PrintMutex] = 1 /\ locked_task'[PrintMutex] = c
      /\ lock' \in [Mutex -> {0, 1}] /\ locked_task' \in [Mutex -> Task \cup {NULL}]
      /\ count' \in [Sem -> Nat]
  BY <1>1, <1>2, LogFacts DEF SyncTypeOK
<1>5. ready_queue \in Seq(Task) /\ IsInjective(ready_queue) /\ ready_queue # <<>>
  BY <1>2, StuckFacts DEF Ending
<1>6. CASE Len(ready_queue) = 1 /\ IdleOn(c, st) /\ UNCHANGED <<blockVars, acquiring>>
  <2>1. <<>> \in Seq(Task) /\ IsInjective(<<>>) /\ Range(<<>>) \subseteq Range(ready_queue)
    BY DEF IsInjective, Range
  <2>2. PICK e : e = <<>>
    OBVIOUS
  <2>3. Leaves(c, "TERMINATED", e, NULL)
    BY <1>6, <2>1, <2>2 DEF Leaves, Ending
  <2>4. Masked!Inv' /\ TypeOK' /\ IdlerSet'
    BY <1>2, <1>6, <2>3, LeavesInv, LogFacts
  <2>5. state'[c] = "TERMINATED"
    BY <1>2, <2>3, LeavesDrops
  <2>6. acquiring' = acquiring /\ blocked_tasks' = blocked_tasks
    BY <1>6 DEF blockVars
  <2> QED BY <1>1, <1>2, <1>3, <1>4, <2>4, <2>5, <2>6 DEF StuckOn, SyncTypeOK
<1>7. CASE Len(ready_queue) > 1 /\ BlockInLog(c, Tail(Tail(ready_queue)))
  <2>1. PICK rest : rest = Tail(Tail(ready_queue))
    OBVIOUS
  <2>2. rest \in Seq(Task) /\ IsInjective(rest) /\ Range(rest) \subseteq Range(ready_queue)
    BY <1>5, <1>7, <2>1, RestFacts
  <2>3. /\ Masked!Inv' /\ TypeOK' /\ IdlerSet'
        /\ acquiring' = [acquiring EXCEPT ![c] = PrintMutex]
        /\ Range(blocked_tasks'[PrintMutex]) = Range(blocked_tasks[PrintMutex]) \cup {c}
    BY <1>2, <1>7, <2>1, <2>2, BlockInLogInv
  <2>4. /\ acquiring' \in [Task -> Mutex \cup {NULL}]
        /\ \A t \in Task : acquiring'[t] = PrintMutex <=> t = c
    BY <1>3, <2>3, LogFacts
  <2>5. Range(blocked_tasks'[PrintMutex]) = {c}
    BY <1>3, <2>3
  <2> QED BY <1>1, <1>3, <1>4, <2>3, <2>4, <2>5 DEF StuckOn, SyncTypeOK
<1> QED BY <1>6, <1>7 DEF BusyEnd

\* A later exit waits in its last message for the mutex that nobody gives back.
LEMMA MutexTakenSticks ==
  ASSUME NEW c \in Task, StuckOn(c), SchedulerAssumption, SyncAssumption, ConsoleAssumption,
         NEW e \in Task, Ending(e), MutexTakenEnd(e)
  PROVE  StuckOn(c)'
<1>1. /\ SyncTypeOK /\ Masked!Inv /\ IdlerSet
      /\ c \in Range(blocked_tasks[PrintMutex]) \/ state[c] = "TERMINATED"
      /\ \A t \in Task : acquiring[t] = PrintMutex <=> t \in Range(blocked_tasks[PrintMutex])
      /\ \A t \in Task : left[t] \notin 1..(MsgLen - 1)
  BY DEF StuckOn
<1>2. /\ busy' = busy /\ scheduler_ready' = scheduler_ready /\ left' = left /\ count' = count
      /\ UNCHANGED <<lock, locked_task>>
  BY DEF MutexTakenEnd, Ending
<1>3. ready_queue \in Seq(Task) /\ IsInjective(ready_queue) /\ ready_queue # <<>>
  BY <1>1, StuckFacts DEF Ending
<1>4. PICK rest : rest = Tail(ready_queue)
  OBVIOUS
<1>5. rest \in Seq(Task) /\ IsInjective(rest) /\ Range(rest) \subseteq Range(ready_queue)
  BY <1>3, <1>4, RestFacts
<1>6. /\ Masked!Inv' /\ TypeOK' /\ IdlerSet'
      /\ acquiring' = [acquiring EXCEPT ![e] = PrintMutex]
      /\ Range(blocked_tasks'[PrintMutex]) = Range(blocked_tasks[PrintMutex]) \cup {e}
      /\ \A t \in Task : state[t] = "TERMINATED" /\ t # e => state'[t] = "TERMINATED"
  BY <1>1, <1>4, <1>5, BlockInLogInv DEF MutexTakenEnd
<1>7. /\ acquiring' \in [Task -> Mutex \cup {NULL}]
      /\ \A t \in Task : acquiring'[t] = PrintMutex <=> t \in Range(blocked_tasks'[PrintMutex])
  BY <1>1, <1>6, StuckAway
<1>8. c \in Range(blocked_tasks'[PrintMutex]) \/ state'[c] = "TERMINATED"
  BY <1>1, <1>6
<1> QED BY <1>1, <1>2, <1>6, <1>7, <1>8, StuckAway DEF StuckOn, SyncTypeOK

-----------------------------------------------------------------------------
(* The invariant and what it says.                                          *)

LEMMA SaneStep ==
  ASSUME Sane, LogTypeOK, SchedulerAssumption, SyncAssumption, ConsoleAssumption, ConsoleNext
  PROVE  Sane' \/ Stuck'
<1>1. ASSUME NEW c \in Task, StuckOn(c)' PROVE Stuck'
  BY <1>1 DEF Stuck
<1>2. CASE PrintBegin \/ PrintResume \/ putc \/ PrintEnd
  BY <1>2, PrintBeginSane, PrintResumeSane, putcSane, PrintEndSane
<1>3. CASE BootPutc
  BY <1>3, FailureSane DEF BootPutc
<1>4. CASE Wake \/ DeviceStep \/ SilentStep
  BY <1>4, WakeSane, DeviceSane, SilentSane
<1>5. CASE Exit
  <2>1. PICK st : st = [state EXCEPT ![current_task] = "TERMINATED"]
    OBVIOUS
  <2>2. CASE ~BusyEnd(current_task, st)
    BY <1>5, <2>1, <2>2, ExitSane
  <2>3. CASE BusyEnd(current_task, st)
    <3>1. current_task \in Task /\ scheduler_ready /\ ~in_wakeup
      BY <1>5, LogFacts, KernelPath DEF Exit, InKernel
    <3>2. lock[PrintMutex] = 0 /\ lock' # lock
      BY <2>3, LogFacts DEF BusyEnd
    <3>3. Ending(current_task)
      BY <1>5, <3>1, <3>2 DEF Exit, Ending, LockedPrintFails, vars, syncVars
    <3> QED BY <1>1, <2>1, <2>3, <3>1, <3>3, BusyEndSticks
  <2> QED BY <2>2, <2>3
<1>6. CASE IdleEnd
  <2>1. CASE ~BusyEnd(idler, state)
    BY <1>6, <2>1, IdleEndSane
  <2>2. CASE BusyEnd(idler, state)
    <3>1. idler \in Task /\ scheduler_ready /\ ~in_wakeup /\ current_task = NULL
      BY <1>6 DEF IdleEnd, Sane, IdlerSet, Idle
    <3>2. lock[PrintMutex] = 0 /\ lock' # lock
      BY <2>2, LogFacts DEF BusyEnd
    <3>3. Ending(idler)
      BY <1>6, <3>1, <3>2 DEF IdleEnd, Ending, syncVars
    <3>4. state = [state EXCEPT ![idler] = "TERMINATED"]
      <4>1. state[idler] = "TERMINATED" /\ state \in [Task -> TaskState]
        BY <1>6, <3>2, LogFacts DEF IdleEnd, syncVars, Inv, TypeOK
      <4> QED BY <3>1, <4>1
    <3> QED BY <1>1, <2>2, <3>1, <3>3, <3>4, BusyEndSticks
  <2> QED BY <2>1, <2>2
<1> QED BY <1>2, <1>3, <1>4, <1>5, <1>6 DEF ConsoleNext

LEMMA StuckStep ==
  ASSUME NEW c \in Task, StuckOn(c), LogTypeOK, SchedulerAssumption, SyncAssumption,
         ConsoleAssumption, ConsoleNext
  PROVE  StuckOn(c)'
<1>1. CASE PrintBegin
  BY <1>1, PrintBeginStuck
<1>2. ~PrintResume /\ ~putc /\ ~PrintEnd /\ ~BootPutc
  BY StuckAway DEF PrintResume, MutexLocked, InKernel, putc, PrintEnd, mutex_unlock, BootPutc
<1>3. CASE Wake
  BY <1>3, StuckAway, LockedFailureStuck DEF Wake, LockedPrint
<1>4. CASE Exit
  BY <1>4, StuckAway, LockedFailureStuck DEF Exit, LockedPrint
<1>5. CASE IdleEnd
  <2>1. CASE IdleExit /\ UNCHANGED <<syncVars, logVars>>
    BY <2>1, SilentStuck
  <2>2. CASE ~(IdleExit /\ UNCHANGED <<syncVars, logVars>>)
    <3>1. MutexTakenEnd(idler) /\ state[idler] = "TERMINATED"
      BY <1>5, <2>2, StuckAway DEF IdleEnd, QuietEnd, BusyEnd
    <3>2. idler \in Task
      BY <1>5 DEF IdleEnd, StuckOn, IdlerSet
    <3>3. Ending(idler)
      BY <1>5, <2>2, <3>1, StuckAway DEF IdleEnd, Ending, Idle
    <3> QED BY <3>1, <3>2, <3>3, MutexTakenSticks
  <2> QED BY <2>1, <2>2
<1>6. CASE DeviceStep \/ SilentStep
  BY <1>6, DeviceStuck, SilentStuck
<1> QED BY <1>1, <1>2, <1>3, <1>4, <1>5, <1>6 DEF ConsoleNext

LEMMA LogTypeStep ==
  ASSUME LogTypeOK, ConsoleAssumption, SchedulerAssumption,
         current_task \in Task \cup {NULL}, ConsoleNext
  PROVE  LogTypeOK'
<1>1. left \in [Task -> 0..MsgLen] /\ MsgLen \in Nat \ {0} /\ busy \in BOOLEAN
      /\ failed \in {0, 305, 320, 463, 467}
  BY DEF LogTypeOK, ConsoleAssumption
<1>2. left' \in [Task -> 0..MsgLen]
  <2>1. CASE PrintBegin
    BY <1>1, <2>1 DEF PrintBegin
  <2>2. CASE putc
    <3>1. /\ current_task \in Task /\ left[current_task] > 0
          /\ left' = [left EXCEPT ![current_task] = left[current_task] - 1]
      BY <2>2 DEF putc
    <3>2. left[current_task] - 1 \in 0..MsgLen
      BY <1>1, <3>1
    <3> QED BY <1>1, <3>1, <3>2
  <2>3. CASE ~PrintBegin /\ ~putc
    <3>1. left' = left
      BY <2>3 DEF ConsoleNext, PrintResume, PrintEnd, BootPutc, Wake, LockedPrintFails, Exit,
                  IdleEnd, DeviceStep, SilentStep, logVars
    <3> QED BY <1>1, <3>1
  <2> QED BY <2>1, <2>2, <2>3
<1>3. busy' \in BOOLEAN
  BY <1>1 DEF ConsoleNext, PrintBegin, putc, PrintResume, PrintEnd, BootPutc, Wake,
              LockedPrintFails, Exit, IdleEnd, DeviceStep, SilentStep, logVars, QuietEnd, BusyEnd,
              MutexTakenEnd
<1>4. failed' \in {0, 305, 320, 463, 467}
  BY <1>1 DEF ConsoleNext, PrintBegin, putc, PrintResume, PrintEnd, BootPutc, Wake,
              LockedPrintFails, Exit, IdleEnd, DeviceStep, SilentStep, logVars
<1> QED BY <1>2, <1>3, <1>4 DEF LogTypeOK

LEMMA ConsoleStepInv ==
  ASSUME ConsoleInv, SchedulerAssumption, SyncAssumption, ConsoleAssumption,
         [ConsoleNext]_consoleVars
  PROVE  ConsoleInv'
<1>1. CASE UNCHANGED consoleVars
  <2>1. /\ UNCHANGED vars /\ left' = left /\ busy' = busy /\ failed' = failed
    BY <1>1 DEF consoleVars, logVars
  <2>2. LogTypeOK'
    BY <2>1 DEF ConsoleInv, LogTypeOK
  <2>3. ASSUME Sane PROVE Sane'
    <3>1. UNCHANGED schedVars /\ UNCHANGED <<lock, locked_task, acquiring, left>>
          /\ blocked_tasks' = blocked_tasks /\ current_task' = current_task
          /\ in_wakeup' = in_wakeup
      BY <2>1 DEF vars, syncVars, schedVars, blockVars, switchVars, sleepVars
    <3>2. ~busy' => ~busy /\ failed' = 0
      BY <2>1, <2>3 DEF Sane, OwnerHasCpu
    <3> QED BY <2>1, <2>3, <3>1, <3>2, AsideSane DEF Goes
  <2>4. ASSUME NEW c \in Task, StuckOn(c) PROVE StuckOn(c)'
    <3>1. Follows
      BY <2>1, <2>4, StandFollows DEF StuckOn, vars
    <3> QED BY <2>1, <2>4, <3>1, StuckAway, AsideStuck DEF vars, syncVars, schedVars, blockVars
  <2> QED BY <2>2, <2>3, <2>4 DEF ConsoleInv, Stuck
<1>2. CASE ConsoleNext
  <2>1. LogTypeOK /\ current_task \in Task \cup {NULL}
    BY DEF ConsoleInv, Sane, SyncInv, Inv, TypeOK, Stuck, StuckOn, SyncTypeOK
  <2>2. LogTypeOK'
    BY <1>2, <2>1, LogTypeStep
  <2>3. CASE Sane
    BY <1>2, <2>1, <2>2, <2>3, SaneStep DEF ConsoleInv
  <2>4. CASE Stuck
    BY <1>2, <2>1, <2>2, <2>4, StuckStep DEF ConsoleInv, Stuck
  <2> QED BY <2>3, <2>4 DEF ConsoleInv
<1> QED BY <1>1, <1>2

LEMMA ConsoleInitInv ==
  ASSUME SchedulerAssumption, SyncAssumption, ConsoleAssumption, ConsoleInit
  PROVE  ConsoleInv
<1>1. SyncInv
  BY SyncInitInv DEF ConsoleInit
<1>2. /\ left = [t \in Task |-> 0] /\ busy = FALSE /\ failed = 0 /\ MsgLen \in Nat \ {0}
      /\ lock = [m \in Mutex |-> 0] /\ locked_task = [m \in Mutex |-> NULL]
      /\ acquiring = [t \in Task |-> NULL] /\ blocked_tasks = [q \in Queue |-> <<>>]
      /\ scheduler_ready = FALSE /\ idler = NULL
      /\ PrintMutex \in Mutex /\ PrintMutex \in Queue /\ NULL \notin Task /\ PrintMutex # NULL
  BY DEF ConsoleInit, SyncInit, SchedulerInit, ConsoleAssumption, SyncAssumption, SchedulerAssumption
<1>3. LogTypeOK
  <2>1. 0 \in 0..MsgLen
    BY <1>2
  <2>2. left \in [Task -> 0..MsgLen]
    BY <1>2, <2>1
  <2> QED BY <1>2, <2>2 DEF LogTypeOK
<1>4. \A t \in Task : locked_task[PrintMutex] # t /\ acquiring[t] # PrintMutex
  BY <1>2
<1>5. Owners(PrintMutex) = {} /\ WriterOwns /\ WaitersFresh /\ OwnerHasCpu
  BY <1>2, <1>4 DEF Owners, WriterOwns, WaitersFresh, OwnerHasCpu
<1>6. IdlerSet /\ ~Idle
  BY <1>2 DEF IdlerSet, Idle
<1> QED BY <1>1, <1>3, <1>5, <1>6 DEF ConsoleInv, Sane

\* Messages and the scheduler that prints them keep the invariant: until the UART
\* is busy in the message about an exit everything is sound, and then nobody
\* gets print_mutex any more and the tasks that are not forgotten run on.
THEOREM ConsoleSafe == ConsoleSpec => []ConsoleInv
<1>1. ConsoleInit => ConsoleInv
  BY ConsoleInitInv, SchedulerAssumption, SyncAssumption, ConsoleAssumption
<1>2. ConsoleInv /\ [ConsoleNext]_consoleVars => ConsoleInv'
  BY ConsoleStepInv, SchedulerAssumption, SyncAssumption, ConsoleAssumption
<1> QED BY <1>1, <1>2, PTL DEF ConsoleSpec

\* The one task whose message is in the middle.
LEMMA OneWriter ==
  ASSUME NEW S, \A a, b \in S : a = b PROVE Cardinality(S) <= 1
<1>1. CASE S = {}
  BY <1>1, FS_EmptySet
<1>2. CASE S # {}
  <2>1. PICK a \in S : S = {a}
    BY <1>2
  <2> QED BY <2>1, FS_Singleton
<1> QED BY <1>1, <1>2

\* However a busy UART makes the writers of messages switch, no two messages are
\* mixed, and nobody comes back from __schedule()'s message about its own end.
THEOREM MessagesAreWhole == ConsoleSpec => []LogSafe
<1>1. ConsoleInv => LogSafe
  <2> SUFFICES ASSUME ConsoleInv PROVE LogSafe
    OBVIOUS
  <2> USE SchedulerAssumption, SyncAssumption, ConsoleAssumption
  <2>1. ConsoleTypeOK
    BY DEF ConsoleInv, LogTypeOK, Sane, SyncInv, MutexesConsistent, Stuck, StuckOn, ConsoleTypeOK
  <2>2. \A t, u \in {t \in Task : left[t] \in 1..(MsgLen - 1)} : t = u
    BY DEF ConsoleInv, Sane, WriterOwns, Stuck, StuckOn
  <2>3. MessageWhole
    BY <2>2, OneWriter DEF MessageWhole
  <2>4. ExitedNeverResumed
    BY DEF ConsoleInv, Sane, WaitersFresh, Stuck, StuckOn, ExitedNeverResumed, ConsoleAssumption
  <2> QED BY <2>1, <2>3, <2>4 DEF LogSafe
<1> QED BY <1>1, ConsoleSafe, PTL

\* A ready task is lost from the ready queue by __schedule()'s message alone.
THEOREM ExitsForget == ConsoleSpec => []OnlyExitForgets
<1>1. ConsoleInv => OnlyExitForgets
  BY SaneMasked DEF ConsoleInv, Stuck, StuckOn, OnlyExitForgets
<1> QED BY <1>1, ConsoleSafe, PTL

\* While the UART is always ready the messages in the scheduler fail no assertion
\* and lose no task.
THEOREM ReadyUartHarmless == ConsoleSpec => []ReadyUartIsHarmless
<1>1. ConsoleInv => ReadyUartIsHarmless
  BY DEF ConsoleInv, Sane, SyncInv, Inv, OwnerHasCpu, Stuck, StuckOn, ReadyUartIsHarmless
<1> QED BY <1>1, ConsoleSafe, PTL
=============================================================================
