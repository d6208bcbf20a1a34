-------------------------- MODULE SchedulerProofs --------------------------
(***************************************************************************)
(* The scheduler's safety invariants, for every set of tasks and queues.   *)
(*                                                                         *)
(* Inv adds to the checked invariants what makes them inductive: nothing   *)
(* runs before tasking_enable(), and the detached list is empty outside    *)
(* scheduler_wakeup().  The proof rests on ScheduleEffect, which says once *)
(* and for all what a scheduler_unlock() does to a consistent scheduler.   *)
(***************************************************************************)
EXTENDS Scheduler, SequenceTheorems, TLAPS

-----------------------------------------------------------------------------
(* Queues as sequences.                                                     *)

\* task_queue(): the tail joins the range, and no duplicate arises when it was
\* in no queue before.
LEMMA AppendFacts ==
  ASSUME NEW S, NEW s \in Seq(S), NEW e \in S
  PROVE  /\ Append(s, e) \in Seq(S)
         /\ Append(s, e) # <<>>
         /\ Range(Append(s, e)) = Range(s) \cup {e}
         /\ IsInjective(s) /\ e \notin Range(s) => IsInjective(Append(s, e))
<1> DEFINE a == Append(s, e)
<1>1. /\ a \in Seq(S) /\ Len(a) = Len(s) + 1 /\ Len(s) \in Nat
      /\ DOMAIN a = 1..Len(a) /\ DOMAIN s = 1..Len(s)
      /\ \A i \in 1..Len(s) : a[i] = s[i]
      /\ a[Len(s) + 1] = e
  BY AppendProperties, LenProperties
<1> HIDE DEF a
<1>2. Range(a) = Range(s) \cup {e}
  BY <1>1 DEF Range
<1>3. IsInjective(s) /\ e \notin Range(s) => IsInjective(a)
  BY <1>1 DEF Range, IsInjective
<1> QED BY <1>1, <1>2, <1>3, AppendProperties DEF a

\* task_dequeue(): exactly the head leaves a queue without duplicates.
LEMMA TailFacts ==
  ASSUME NEW S, NEW s \in Seq(S), s # <<>>
  PROVE  /\ Head(s) \in S /\ Head(s) \in Range(s)
         /\ Tail(s) \in Seq(S)
         /\ IsInjective(s) => /\ IsInjective(Tail(s))
                              /\ Range(Tail(s)) = Range(s) \ {Head(s)}
<1> DEFINE h == Head(s)
           a == Tail(s)
<1>1. /\ a \in Seq(S) /\ Len(s) \in Nat \ {0} /\ Len(a) = Len(s) - 1 /\ h \in S
      /\ DOMAIN a = 1..Len(a) /\ DOMAIN s = 1..Len(s)
      /\ \A i \in 1..Len(a) : a[i] = s[i + 1]
      /\ h = s[1]
  BY HeadTailProperties, LenProperties, EmptySeq
<1> HIDE DEF a, h
<1>2. h \in Range(s)
  BY <1>1 DEF Range
<1>3. IsInjective(s) => IsInjective(a)
  <2> SUFFICES ASSUME IsInjective(s), NEW i \in 1..Len(a), NEW j \in 1..Len(a),
                      a[i] = a[j]
               PROVE  i = j
    BY <1>1 DEF IsInjective
  <2>1. i + 1 \in 1..Len(s) /\ j + 1 \in 1..Len(s) /\ s[i + 1] = s[j + 1]
    BY <1>1
  <2>2. \A x, y \in 1..Len(s) : s[x] = s[y] => x = y
    BY <1>1 DEF IsInjective
  <2>3. i + 1 = j + 1
    BY <2>1, <2>2, Zenon
  <2> QED BY <1>1, <2>3
<1>4. IsInjective(s) => Range(a) = Range(s) \ {h}
  <2> SUFFICES ASSUME IsInjective(s) PROVE Range(a) = Range(s) \ {h}
    OBVIOUS
  <2>1. ASSUME NEW x \in Range(a) PROVE x \in Range(s) /\ x # h
    BY <1>1, <2>1 DEF Range, IsInjective
  <2>2. ASSUME NEW x \in Range(s), x # h PROVE x \in Range(a)
    <3>1. PICK i \in 1..Len(s) : x = s[i]
      BY <1>1 DEF Range
    <3>2. i - 1 \in 1..Len(a) /\ a[i - 1] = s[(i - 1) + 1]
      BY <1>1, <2>2, <3>1
    <3> QED BY <1>1, <3>1, <3>2 DEF Range
  <2> QED BY <2>1, <2>2
<1> QED BY <1>1, <1>2, <1>3, <1>4 DEF a, h

-----------------------------------------------------------------------------
(* The inductive invariant.                                                 *)

BootDiscipline ==
  /\ current_task # NULL => scheduler_ready
  /\ in_wakeup => scheduler_ready
  /\ ~in_wakeup => walk = <<>>

Inv == /\ TypeOK
       /\ NoDuplicates
       /\ QueuesMatchStates
       /\ RunningIsCurrent
       /\ LockDiscipline
       /\ BlockedListExact
       /\ BootDiscipline

\* The task states st and the ready queue rq fit together.
Fits(st, rq) ==
  /\ st \in [Task -> TaskState]
  /\ rq \in Seq(Task)
  /\ IsInjective(rq)
  /\ \A t \in Task : st[t] = "READY" <=> t \in Range(rq)

\* The sleep queues wq and wk, the block queues bt and the nodes bl of
\* blocked_list fit the task states st.
SleepFits(st, wq, wk) ==
  /\ wq \in Seq(Task) /\ wk \in Seq(Task)
  /\ IsInjective(wq) /\ IsInjective(wk)
  /\ Range(wq) \cap Range(wk) = {}
  /\ \A t \in Task : st[t] = "WAITING" <=> t \in Range(wq) \cup Range(wk)

IsBlocked(s) == s \in {"BLOCKED", "BLOCKED_LOCK"}

BlockFits(st, bt) ==
  /\ bt \in [Queue -> Seq(Task)]
  /\ \A q \in Queue : IsInjective(bt[q])
  /\ \A t \in Task : IsBlocked(st[t]) <=> \E q \in Queue : t \in Range(bt[q])
  /\ \A p, q \in Queue : p # q => Range(bt[p]) \cap Range(bt[q]) = {}

ListFits(st, bl) ==
  /\ bl \in [Task -> Nat]
  /\ \A t \in Task : /\ bl[t] <= 1
                     /\ IsBlocked(st[t]) => bl[t] = 1
                     /\ bl[t] = 1 => IsBlocked(st[t]) \/ st[t] = "WAITING"

\* st and new agree on which tasks are neither ready nor running.
SameOthers(st, new) ==
  \A t \in Task : \/ new[t] = st[t]
                  \/ {st[t], new[t]} \subseteq {"READY", "RUNNING"}

\* A scheduler_unlock() after schedule() keeps states and ready queue in
\* agreement and makes exactly the chosen task RUNNING.
LEMMA ScheduleEffect ==
  ASSUME TypeOK, SchedulerAssumption,
         NEW st, NEW rq, NEW locks \in {0, 1},
         Fits(st, rq),
         \A t \in Task : st[t] = "RUNNING" => t = current_task,
         locks = 0 <=> current_task # NULL,
         ScheduleAndUnlock(st, rq, locks)
  PROVE  /\ Fits(state', ready_queue')
         /\ SameOthers(st, state')
         /\ \A t \in Task : state'[t] = "RUNNING" <=> t = current_task'
         /\ current_task' \in Task \cup {NULL}
         /\ idler' \in Task \cup {NULL}
         /\ scheduler_lock_count' = IF current_task' = NULL THEN 1 ELSE 0
         /\ postponed_schedule' \in BOOLEAN
         /\ postponed_schedule' => current_task' = NULL
<1> USE SchedulerAssumption DEF TypeOK, Fits, SameOthers, TaskState
<1>1. CASE locks > 0
  <2>1. /\ state' = st /\ ready_queue' = rq /\ scheduler_lock_count' = locks
        /\ postponed_schedule' = TRUE /\ current_task' = current_task
        /\ idler' = idler /\ current_task = NULL /\ locks = 1
    BY <1>1 DEF ScheduleAndUnlock
  <2> QED BY <2>1
<1>2. CASE locks = 0 /\ KeepRunning(st, rq) /\ postponed_schedule' = FALSE
  BY <1>2 DEF KeepRunning
<1>3. CASE locks = 0 /\ StartIdling(st, rq) /\ postponed_schedule' = FALSE
  BY <1>3 DEF StartIdling
<1>4. CASE locks = 0 /\ SwitchTo(st, rq) /\ postponed_schedule' = FALSE
  <2>1. /\ Head(rq) \in Task /\ Head(rq) \in Range(rq)
        /\ Tail(rq) \in Seq(Task) /\ IsInjective(Tail(rq))
        /\ Range(Tail(rq)) = Range(rq) \ {Head(rq)}
    BY <1>4, TailFacts DEF SwitchTo
  <2>2. current_task \in Task /\ st[Head(rq)] = "READY"
    BY <1>4, <2>1
  <2>3. CASE st[current_task] = "RUNNING"
    <3>1. current_task \notin Range(Tail(rq)) /\ current_task # Head(rq)
      BY <2>1, <2>2, <2>3
    <3>2. /\ ready_queue' \in Seq(Task) /\ IsInjective(ready_queue')
          /\ Range(ready_queue') = Range(Tail(rq)) \cup {current_task}
      <4>1. ready_queue' = Append(Tail(rq), current_task)
        BY <1>4, <2>3 DEF SwitchTo
      <4>2. /\ Append(Tail(rq), current_task) \in Seq(Task)
            /\ IsInjective(Append(Tail(rq), current_task))
            /\ Range(Append(Tail(rq), current_task)) = Range(Tail(rq)) \cup {current_task}
        BY ONLY <2>1, <2>2, <3>1, AppendFacts, Zenon
      <4> QED BY <4>1, <4>2, Zenon
    <3> QED BY <1>4, <2>1, <2>2, <2>3, <3>1, <3>2 DEF SwitchTo
  <2>4. CASE st[current_task] # "RUNNING"
    BY <1>4, <2>1, <2>2, <2>4 DEF SwitchTo
  <2> QED BY <2>3, <2>4
<1> QED BY <1>1, <1>2, <1>3, <1>4 DEF ScheduleAndUnlock, __schedule

\* The invariant in terms of these predicates, before and after a step.
LEMMA InvParts ==
  /\ Inv => /\ Fits(state, ready_queue)
            /\ SleepFits(state, wait_queue, walk)
            /\ BlockFits(state, blocked_tasks)
            /\ ListFits(state, blocked_list)
  /\ /\ Fits(state', ready_queue')
     /\ SleepFits(state', wait_queue', walk')
     /\ BlockFits(state', blocked_tasks')
     /\ ListFits(state', blocked_list')
     => /\ NoDuplicates' /\ QueuesMatchStates' /\ BlockedListExact'
<1>1. Inv => /\ Fits(state, ready_queue)
             /\ SleepFits(state, wait_queue, walk)
             /\ BlockFits(state, blocked_tasks)
             /\ ListFits(state, blocked_list)
  BY DEF Inv, TypeOK, NoDuplicates, QueuesMatchStates, BlockedListExact, Blocked,
         Sleepers, Fits, SleepFits, BlockFits, ListFits, IsBlocked
<1>2. /\ Fits(state', ready_queue')
      /\ SleepFits(state', wait_queue', walk')
      /\ BlockFits(state', blocked_tasks')
      /\ ListFits(state', blocked_list')
      => /\ NoDuplicates' /\ QueuesMatchStates' /\ BlockedListExact'
  BY DEF NoDuplicates, QueuesMatchStates, BlockedListExact, Blocked,
         Sleepers, Fits, SleepFits, BlockFits, ListFits, IsBlocked
<1> QED BY <1>1, <1>2

\* What is true of the sleepers and the blocked tasks survives a switch.
LEMMA Transfer ==
  ASSUME NEW st, NEW new, SameOthers(st, new),
         NEW wq, NEW wk, NEW bt, NEW bl
  PROVE  /\ SleepFits(st, wq, wk) => SleepFits(new, wq, wk)
         /\ BlockFits(st, bt) => BlockFits(new, bt)
         /\ ListFits(st, bl) => ListFits(new, bl)
<1>1. SleepFits(st, wq, wk) => SleepFits(new, wq, wk)
  BY DEF SleepFits, SameOthers
<1>2. BlockFits(st, bt) => BlockFits(new, bt)
  BY DEF BlockFits, SameOthers, IsBlocked
<1>3. ListFits(st, bl) => ListFits(new, bl)
  BY DEF ListFits, SameOthers, IsBlocked
<1> QED BY <1>1, <1>2, <1>3

\* A step that ends in scheduler_unlock() keeps the invariant if the queues fit
\* the states it hands to __schedule().
LEMMA ScheduledInv ==
  ASSUME Inv, SchedulerAssumption,
         NEW st, NEW rq, NEW locks \in {0, 1},
         Fits(st, rq),
         \A t \in Task : st[t] = "RUNNING" => t = current_task,
         locks = 0 <=> current_task # NULL,
         ScheduleAndUnlock(st, rq, locks),
         SleepFits(st, wait_queue', walk'),
         BlockFits(st, blocked_tasks'),
         ListFits(st, blocked_list'),
         remaining' \in [Task -> Nat],
         scheduler_ready = TRUE, scheduler_ready' = TRUE,
         in_wakeup' = FALSE, walk' = <<>>
  PROVE  Inv'
<1>1. TypeOK
  BY DEF Inv
<1>2. /\ Fits(state', ready_queue')
      /\ SameOthers(st, state')
      /\ \A t \in Task : state'[t] = "RUNNING" <=> t = current_task'
      /\ current_task' \in Task \cup {NULL}
      /\ idler' \in Task \cup {NULL}
      /\ scheduler_lock_count' = IF current_task' = NULL THEN 1 ELSE 0
      /\ postponed_schedule' \in BOOLEAN
      /\ postponed_schedule' => current_task' = NULL
  BY <1>1, ScheduleEffect
<1>3. /\ SleepFits(state', wait_queue', walk')
      /\ BlockFits(state', blocked_tasks')
      /\ ListFits(state', blocked_list')
  BY <1>2, Transfer
<1>4. NoDuplicates' /\ QueuesMatchStates' /\ BlockedListExact'
  BY <1>2, <1>3, InvParts
<1>5. TypeOK'
  BY <1>2, <1>3 DEF TypeOK, Fits, SleepFits, BlockFits, ListFits
<1>6. RunningIsCurrent' /\ LockDiscipline' /\ BootDiscipline'
  BY <1>2 DEF RunningIsCurrent, LockDiscipline, BootDiscipline, Idle
<1> QED BY <1>4, <1>5, <1>6 DEF Inv

-----------------------------------------------------------------------------
(* One lemma per action.                                                    *)

\* What a kernel path of the current task starts from.
LEMMA KernelPath ==
  ASSUME Inv, SchedulerAssumption, InKernel
  PROVE  /\ current_task \in Task /\ state[current_task] = "RUNNING"
         /\ scheduler_ready = TRUE /\ in_wakeup = FALSE /\ walk = <<>>
         /\ scheduler_lock_count = 0 /\ TypeOK
         /\ \A t \in Task : state[t] = "RUNNING" => t = current_task
         /\ blocked_list[current_task] = 0
<1>1. /\ current_task \in Task /\ state[current_task] = "RUNNING"
      /\ scheduler_ready = TRUE /\ in_wakeup = FALSE /\ walk = <<>>
      /\ scheduler_lock_count = 0 /\ TypeOK
      /\ \A t \in Task : state[t] = "RUNNING" => t = current_task
  BY DEF Inv, TypeOK, InKernel, RunningIsCurrent, LockDiscipline, BootDiscipline, Idle
<1>2. /\ blocked_list[current_task] \in Nat /\ blocked_list[current_task] <= 1
      /\ blocked_list[current_task] # 1
  BY <1>1 DEF Inv, TypeOK, BlockedListExact, Blocked
<1>3. blocked_list[current_task] = 0
  BY <1>2
<1> QED BY <1>1, <1>3

\* A kernel path of the current task that ends in a switch.
LEMMA PathInv ==
  ASSUME Inv, SchedulerAssumption, InKernel, NEW st,
         Fits(st, ready_queue),
         SleepFits(st, wait_queue', walk'),
         BlockFits(st, blocked_tasks'),
         ListFits(st, blocked_list'),
         \A t \in Task : st[t] = "RUNNING" => t = current_task,
         ScheduleAndUnlock(st, ready_queue, 0),
         remaining' \in [Task -> Nat],
         scheduler_ready' = scheduler_ready, in_wakeup' = in_wakeup, walk' = walk
  PROVE  Inv'
<1>1. /\ current_task # NULL /\ 0 \in {0, 1}
      /\ scheduler_ready = TRUE /\ scheduler_ready' = TRUE
      /\ in_wakeup' = FALSE /\ walk' = <<>>
  BY KernelPath DEF InKernel
<1> QED BY <1>1, ScheduledInv, Zenon

\* yield() and sched_yield(): only the switch changes anything.
LEMMA YieldInv == ASSUME Inv, SchedulerAssumption, yield PROVE Inv'
<1>1. /\ InKernel /\ scheduler_lock_count = 0
      /\ \A t \in Task : state[t] = "RUNNING" => t = current_task
  BY KernelPath DEF yield
<1>2. /\ ScheduleAndUnlock(state, ready_queue, 0)
      /\ wait_queue' = wait_queue /\ walk' = walk /\ in_wakeup' = in_wakeup
      /\ remaining' = remaining /\ blocked_tasks' = blocked_tasks
      /\ blocked_list' = blocked_list /\ scheduler_ready' = scheduler_ready
  BY <1>1 DEF yield, sleepVars, blockVars
<1>3. /\ SleepFits(state, wait_queue', walk') /\ BlockFits(state, blocked_tasks')
      /\ ListFits(state, blocked_list') /\ Fits(state, ready_queue)
  BY <1>2, InvParts
<1>4. remaining' \in [Task -> Nat]
  BY <1>2 DEF Inv, TypeOK
<1> QED BY <1>1, <1>2, <1>3, <1>4, PathInv

\* task_exit() takes the running task out of every queue for good.
LEMMA ExitInv == ASSUME Inv, SchedulerAssumption, task_exit PROVE Inv'
<1> DEFINE st == [state EXCEPT ![current_task] = "TERMINATED"]
<1>1. InKernel
  BY DEF task_exit
<1>2. /\ ScheduleAndUnlock(st, ready_queue, 0)
      /\ wait_queue' = wait_queue /\ walk' = walk /\ in_wakeup' = in_wakeup
      /\ remaining' = remaining /\ blocked_tasks' = blocked_tasks
      /\ blocked_list' = blocked_list /\ scheduler_ready' = scheduler_ready
  BY <1>1 DEF task_exit, ScheduleAndUnlock, sleepVars, blockVars
<1>3. /\ SleepFits(state, wait_queue, walk) /\ BlockFits(state, blocked_tasks)
      /\ ListFits(state, blocked_list) /\ Fits(state, ready_queue)
  BY InvParts
<1>4. /\ SleepFits(st, wait_queue, walk) /\ BlockFits(st, blocked_tasks)
      /\ ListFits(st, blocked_list) /\ Fits(st, ready_queue)
  BY <1>1, <1>3, KernelPath
     DEF SleepFits, BlockFits, ListFits, Fits, IsBlocked, TaskState, TypeOK
<1>5. remaining' \in [Task -> Nat]
  BY <1>2 DEF Inv, TypeOK
<1>6. \A t \in Task : st[t] = "RUNNING" => t = current_task
  BY <1>1, KernelPath DEF TypeOK
<1> HIDE DEF st
<1>7. /\ SleepFits(st, wait_queue', walk') /\ BlockFits(st, blocked_tasks')
      /\ ListFits(st, blocked_list')
  BY <1>2, <1>4
<1> QED BY <1>1, <1>2, <1>4, <1>5, <1>6, <1>7, PathInv

\* task_block() moves the running task to the tail of one block queue and
\* inserts its node into blocked_list.
LEMMA BlockInv ==
  ASSUME Inv, SchedulerAssumption, NEW q \in Queue,
         NEW reason \in {"BLOCKED", "BLOCKED_LOCK"}, task_block(q, reason)
  PROVE  Inv'
<1> DEFINE st == [state EXCEPT ![current_task] = reason]
           ap == Append(blocked_tasks[q], current_task)
           bt == [blocked_tasks EXCEPT ![q] = ap]
           bl == [blocked_list EXCEPT ![current_task] = blocked_list[current_task] + 1]
<1>1. InKernel
  BY DEF task_block
<1>2. /\ ScheduleAndUnlock(st, ready_queue, 0)
      /\ wait_queue' = wait_queue /\ walk' = walk /\ in_wakeup' = in_wakeup
      /\ remaining' = remaining /\ blocked_tasks' = bt
      /\ blocked_list' = bl /\ scheduler_ready' = scheduler_ready
  BY <1>1, KernelPath DEF task_block, __task_block, sleepVars
<1>3. /\ SleepFits(state, wait_queue, walk) /\ BlockFits(state, blocked_tasks)
      /\ ListFits(state, blocked_list) /\ Fits(state, ready_queue)
  BY InvParts
<1>4. SleepFits(st, wait_queue, walk) /\ Fits(st, ready_queue)
  BY <1>1, <1>3, KernelPath DEF SleepFits, Fits, TaskState, TypeOK
<1>5. ListFits(st, bl)
  <2>1. blocked_list[current_task] = 0
    BY <1>1, KernelPath
  <2>2. bl = [blocked_list EXCEPT ![current_task] = 1]
    BY <2>1
  <2>3. \A t \in Task : st[t] = IF t = current_task THEN reason ELSE state[t]
    BY <1>1, KernelPath DEF TypeOK
  <2> HIDE DEF st, bl
  <2>4. /\ bl \in [Task -> Nat]
        /\ \A t \in Task : bl[t] = IF t = current_task THEN 1 ELSE blocked_list[t]
    BY <1>3, <2>2 DEF ListFits
  <2> QED BY <1>3, <2>3, <2>4 DEF ListFits, IsBlocked
<1>6. BlockFits(st, bt)
  <2>1. /\ blocked_tasks[q] \in Seq(Task) /\ IsInjective(blocked_tasks[q])
        /\ \A p \in Queue : current_task \notin Range(blocked_tasks[p])
        /\ current_task \in Task
    BY <1>1, <1>3, KernelPath DEF BlockFits, IsBlocked
  <2>2. /\ ap \in Seq(Task) /\ IsInjective(ap)
        /\ Range(ap) = Range(blocked_tasks[q]) \cup {current_task}
    BY ONLY <2>1, q \in Queue, AppendFacts, Zenon
  <2> HIDE DEF ap
  <2>3. /\ bt \in [Queue -> Seq(Task)] /\ bt[q] = ap
        /\ \A p \in Queue : p # q => bt[p] = blocked_tasks[p]
    BY <1>3, <2>2 DEF BlockFits
  <2>4. \A t \in Task : st[t] = IF t = current_task THEN reason ELSE state[t]
    BY <1>1, KernelPath DEF TypeOK
  <2> HIDE DEF bt, st
  <2>5. /\ \A p \in Queue : IsInjective(bt[p])
        /\ \A p, r \in Queue : p # r => Range(bt[p]) \cap Range(bt[r]) = {}
    BY <1>3, <2>1, <2>2, <2>3 DEF BlockFits
  <2>6. \A t \in Task : IsBlocked(st[t]) <=> \E p \in Queue : t \in Range(bt[p])
    BY <1>3, <2>1, <2>2, <2>3, <2>4 DEF BlockFits, IsBlocked
  <2> QED BY <2>3, <2>5, <2>6 DEF BlockFits
<1>7. remaining' \in [Task -> Nat]
  BY <1>2 DEF Inv, TypeOK
<1>8. \A t \in Task : st[t] = "RUNNING" => t = current_task
  BY <1>1, KernelPath DEF TypeOK
<1> HIDE DEF st, bt, bl
<1>9. /\ SleepFits(st, wait_queue', walk') /\ BlockFits(st, blocked_tasks')
      /\ ListFits(st, blocked_list')
  BY <1>2, <1>4, <1>5, <1>6
<1> QED BY <1>1, <1>2, <1>4, <1>7, <1>8, <1>9, PathInv

\* Both sleep functions; only the second one inserts into blocked_list.
LEMMA SleepInv ==
  ASSUME Inv, SchedulerAssumption, NEW n \in Nat,
         task_sleep_until(n) \/ task_sleep_miliseconds(n)
  PROVE  Inv'
<1> DEFINE st == [state EXCEPT ![current_task] = "WAITING"]
           wq == Append(wait_queue, current_task)
<1>1. InKernel
  BY DEF task_sleep_until, task_sleep_miliseconds
<1>2. /\ ScheduleAndUnlock(st, ready_queue, 0)
      /\ wait_queue' = wq /\ walk' = walk /\ in_wakeup' = in_wakeup
      /\ remaining' = [remaining EXCEPT ![current_task] = n]
      /\ blocked_tasks' = blocked_tasks
      /\ scheduler_ready' = scheduler_ready
  BY <1>1, KernelPath DEF task_sleep_until, task_sleep_miliseconds, Sleep, blockVars
<1>3. /\ SleepFits(state, wait_queue, walk) /\ BlockFits(state, blocked_tasks)
      /\ ListFits(state, blocked_list) /\ Fits(state, ready_queue)
  BY InvParts
<1>4. BlockFits(st, blocked_tasks) /\ Fits(st, ready_queue)
  BY <1>1, <1>3, KernelPath DEF BlockFits, Fits, IsBlocked, TaskState, TypeOK
<1>5. \A t \in Task : st[t] = IF t = current_task THEN "WAITING" ELSE state[t]
  BY <1>1, KernelPath DEF TypeOK
<1>6. ListFits(st, blocked_list')
  <2>1. blocked_list[current_task] = 0
    BY <1>1, KernelPath
  <2>2. \/ blocked_list' = blocked_list
        \/ blocked_list' = [blocked_list EXCEPT ![current_task] = 1]
    BY <2>1 DEF task_sleep_until, task_sleep_miliseconds, blockVars
  <2>3. blocked_list' \in [Task -> Nat]
    BY <1>3, <2>2 DEF ListFits
  <2>4. \A t \in Task : t # current_task => blocked_list'[t] = blocked_list[t]
    BY <1>3, <2>2 DEF ListFits
  <2>5. blocked_list'[current_task] <= 1
    BY <1>1, <1>3, <2>1, <2>2, KernelPath DEF ListFits
  <2> HIDE DEF st
  <2> QED BY <1>3, <1>5, <2>3, <2>4, <2>5 DEF ListFits, IsBlocked
<1>7. SleepFits(st, wq, walk)
  <2>1. /\ wait_queue \in Seq(Task) /\ IsInjective(wait_queue) /\ current_task \in Task
        /\ current_task \notin Range(wait_queue) /\ current_task \notin Range(walk)
    BY <1>1, <1>3, KernelPath DEF SleepFits
  <2>2. /\ wq \in Seq(Task) /\ IsInjective(wq)
        /\ Range(wq) = Range(wait_queue) \cup {current_task}
    BY ONLY <2>1, AppendFacts, Zenon
  <2> HIDE DEF wq, st
  <2> QED BY <1>3, <1>5, <2>1, <2>2 DEF SleepFits
<1>8. remaining' \in [Task -> Nat]
  BY <1>2 DEF Inv, TypeOK
<1>9. \A t \in Task : st[t] = "RUNNING" => t = current_task
  BY <1>1, <1>5, KernelPath
<1> HIDE DEF st, wq
<1>10. SleepFits(st, wait_queue', walk') /\ BlockFits(st, blocked_tasks')
  BY <1>2, <1>4, <1>7
<1> QED BY <1>1, <1>2, <1>4, <1>6, <1>8, <1>9, <1>10, PathInv

\* t has become READY and nothing else has changed.
Readied(st, rq, bl, t) ==
  /\ Fits(st, rq) /\ ListFits(st, bl)
  /\ \A u \in Task : st[u] = IF u = t THEN "READY" ELSE state[u]

\* A wakeup readies a task that was on a queue: __task_unblock() keeps the
\* states, the ready queue and blocked_list in agreement.
LEMMA UnblockFits ==
  ASSUME Inv, NEW t \in Task, IsBlocked(state[t]) \/ state[t] = "WAITING"
  PROVE  Readied([state EXCEPT ![t] = "READY"], Append(ready_queue, t), ListRemove(t), t)
<1> DEFINE st == [state EXCEPT ![t] = "READY"]
           rq == Append(ready_queue, t)
<1>1. /\ ListFits(state, blocked_list) /\ Fits(state, ready_queue)
  BY InvParts
<1>2. \A u \in Task : st[u] = IF u = t THEN "READY" ELSE state[u]
  BY <1>1 DEF Fits
<1>3. /\ ready_queue \in Seq(Task) /\ IsInjective(ready_queue)
      /\ t \notin Range(ready_queue)
  BY <1>1 DEF Fits, IsBlocked
<1>4. /\ rq \in Seq(Task) /\ IsInjective(rq) /\ Range(rq) = Range(ready_queue) \cup {t}
  BY ONLY <1>3, t \in Task, AppendFacts, Zenon
<1>5. st \in [Task -> TaskState]
  BY <1>1 DEF Fits, TaskState
<1> HIDE DEF st, rq
<1>6. Fits(st, rq)
  BY <1>1, <1>2, <1>3, <1>4, <1>5 DEF Fits
<1>7. ListFits(st, ListRemove(t))
  <2>1. blocked_list[t] \in Nat /\ blocked_list[t] <= 1
    BY <1>1 DEF ListFits
  <2>2. (IF blocked_list[t] = 0 THEN 0 ELSE blocked_list[t] - 1) = 0
    BY <2>1
  <2>3. ListRemove(t) = [blocked_list EXCEPT ![t] = 0]
    BY <2>2 DEF ListRemove
  <2> QED BY <1>1, <1>2, <2>3 DEF ListFits, IsBlocked
<1> QED BY <1>2, <1>6, <1>7 DEF Readied, st, rq

\* task_unblock_next() moves the head of a block queue to the ready queue.
LEMMA UnblockInv ==
  ASSUME Inv, SchedulerAssumption, NEW q \in Queue, task_unblock_next(q)
  PROVE  Inv'
<1> SUFFICES ASSUME NEW t, t = Head(blocked_tasks[q]) PROVE Inv'
  OBVIOUS
<1> DEFINE st == [state EXCEPT ![t] = "READY"]
           rq == Append(ready_queue, t)
           tl == Tail(blocked_tasks[q])
           bt == [blocked_tasks EXCEPT ![q] = tl]
<1>1. /\ blocked_tasks[q] # <<>> /\ scheduler_ready = TRUE /\ in_wakeup = FALSE
      /\ ScheduleAndUnlock(st, rq, scheduler_lock_count)
      /\ blocked_tasks' = bt /\ blocked_list' = ListRemove(t)
      /\ wait_queue' = wait_queue /\ walk' = walk /\ in_wakeup' = in_wakeup
      /\ remaining' = remaining /\ scheduler_ready' = scheduler_ready
  BY DEF task_unblock_next, Unblock, sleepVars, Inv, TypeOK
<1>2. /\ SleepFits(state, wait_queue, walk) /\ BlockFits(state, blocked_tasks)
  BY InvParts
<1>3. /\ t \in Task /\ t \in Range(blocked_tasks[q])
      /\ tl \in Seq(Task) /\ IsInjective(tl)
      /\ Range(tl) = Range(blocked_tasks[q]) \ {t}
  <2>1. blocked_tasks[q] \in Seq(Task) /\ IsInjective(blocked_tasks[q])
    BY <1>2 DEF BlockFits
  <2> QED BY ONLY <1>1, <2>1, t = Head(blocked_tasks[q]), TailFacts, Zenon
<1>4. IsBlocked(state[t])
  BY <1>2, <1>3 DEF BlockFits
<1>5. /\ Fits(st, rq) /\ ListFits(st, ListRemove(t))
      /\ \A u \in Task : st[u] = IF u = t THEN "READY" ELSE state[u]
  <2>1. t \in Task /\ (IsBlocked(state[t]) \/ state[t] = "WAITING")
    BY <1>3, <1>4
  <2>2. Readied(st, rq, ListRemove(t), t)
    BY ONLY Inv, <2>1, UnblockFits, Zenon
  <2> HIDE DEF st, rq
  <2> QED BY <2>2 DEF Readied
<1> HIDE DEF tl, st, rq
<1>6. SleepFits(st, wait_queue, walk)
  BY <1>2, <1>4, <1>5 DEF SleepFits, IsBlocked
<1>7. BlockFits(st, bt)
  <2>1. /\ bt \in [Queue -> Seq(Task)] /\ bt[q] = tl
        /\ \A p \in Queue : p # q => bt[p] = blocked_tasks[p]
    BY <1>2, <1>3 DEF BlockFits
  <2> HIDE DEF bt
  <2>2. \A p \in Queue : p # q => t \notin Range(blocked_tasks[p])
    BY <1>2, <1>3 DEF BlockFits
  <2>3. \A u \in Task : (\E p \in Queue : u \in Range(bt[p]))
                          <=> u # t /\ \E p \in Queue : u \in Range(blocked_tasks[p])
    BY <1>3, <2>1, <2>2
  <2>4. /\ \A p \in Queue : IsInjective(bt[p])
        /\ \A p, r \in Queue : p # r => Range(bt[p]) \cap Range(bt[r]) = {}
    BY <1>2, <1>3, <2>1 DEF BlockFits
  <2>5. \A u \in Task : IsBlocked(st[u]) <=> u # t /\ IsBlocked(state[u])
    BY <1>5 DEF IsBlocked
  <2> QED BY <1>2, <2>1, <2>3, <2>4, <2>5 DEF BlockFits
<1>8. /\ scheduler_lock_count \in {0, 1}
      /\ scheduler_lock_count = 0 <=> current_task # NULL
      /\ walk = <<>> /\ remaining \in [Task -> Nat]
      /\ \A u \in Task : state[u] = "RUNNING" => u = current_task
  BY <1>1 DEF Inv, TypeOK, LockDiscipline, BootDiscipline, RunningIsCurrent, Idle
<1> HIDE DEF bt
<1>9. /\ SleepFits(st, wait_queue', walk') /\ BlockFits(st, blocked_tasks')
      /\ ListFits(st, blocked_list') /\ remaining' \in [Task -> Nat]
      /\ \A u \in Task : st[u] = "RUNNING" => u = current_task
      /\ scheduler_ready' = TRUE /\ in_wakeup' = FALSE /\ walk' = <<>>
  BY <1>1, <1>5, <1>6, <1>7, <1>8
<1> QED BY <1>1, <1>5, <1>8, <1>9, ScheduledInv, Zenon

\* The schedule() and scheduler_unlock() at the end of scheduler_wakeup().
LEMMA WakeupDoneInv == ASSUME Inv, SchedulerAssumption, WakeupDone PROVE Inv'
<1>1. /\ in_wakeup /\ walk = <<>> /\ in_wakeup' = FALSE /\ walk' = walk
      /\ ScheduleAndUnlock(state, ready_queue, scheduler_lock_count - 1)
      /\ wait_queue' = wait_queue /\ remaining' = remaining
      /\ blocked_tasks' = blocked_tasks /\ blocked_list' = blocked_list
      /\ scheduler_ready' = scheduler_ready
  BY DEF WakeupDone, blockVars
<1>2. /\ SleepFits(state, wait_queue', walk') /\ BlockFits(state, blocked_tasks')
      /\ ListFits(state, blocked_list') /\ Fits(state, ready_queue)
  BY <1>1, InvParts
<1>3. /\ scheduler_lock_count - 1 \in {0, 1}
      /\ scheduler_lock_count - 1 = 0 <=> current_task # NULL
      /\ scheduler_ready = TRUE /\ scheduler_ready' = TRUE
      /\ remaining' \in [Task -> Nat] /\ walk' = <<>>
      /\ \A t \in Task : state[t] = "RUNNING" => t = current_task
  BY <1>1 DEF Inv, TypeOK, LockDiscipline, BootDiscipline, RunningIsCurrent, Idle
<1> QED BY <1>1, <1>2, <1>3, ScheduledInv, Zenon

\* The steps of the timer interrupt before its unlock.
LEMMA TimerInv == ASSUME Inv, SchedulerAssumption, TimerIrq PROVE Inv'
<1>1. walk = <<>> /\ Range(<<>>) = {} /\ IsInjective(<<>>) /\ <<>> \in Seq(Task)
  BY EmptySeq DEF Inv, TimerIrq, IrqsEnabled, BootDiscipline, Range, IsInjective
<1>2. /\ in_wakeup = FALSE /\ in_wakeup' = TRUE /\ scheduler_ready = TRUE
      /\ walk' = wait_queue /\ wait_queue' = <<>>
      /\ state' = state /\ ready_queue' = ready_queue
      /\ current_task' = current_task /\ idler' = idler
      /\ blocked_tasks' = blocked_tasks /\ blocked_list' = blocked_list
      /\ scheduler_ready' = scheduler_ready
      /\ postponed_schedule' = postponed_schedule
      /\ scheduler_lock_count' = scheduler_lock_count + 1
  BY DEF TimerIrq, IrqsEnabled, blockVars, Inv, TypeOK
<1>3. remaining' \in [Task -> Nat]
  BY DEF Inv, TypeOK, TimerIrq
<1>4. TypeOK'
  BY <1>1, <1>2, <1>3 DEF Inv, TypeOK
<1>5. SleepFits(state, wait_queue, walk)
  BY InvParts
<1>6. SleepFits(state', wait_queue', walk')
  BY <1>1, <1>2, <1>5 DEF SleepFits
<1>7. NoDuplicates' /\ QueuesMatchStates' /\ BlockedListExact'
  BY <1>2, <1>6, InvParts
<1>8. RunningIsCurrent' /\ BootDiscipline'
  BY <1>2 DEF Inv, RunningIsCurrent, BootDiscipline
<1>9. LockDiscipline'
  BY <1>2 DEF Inv, TypeOK, LockDiscipline, Idle
<1> QED BY <1>4, <1>7, <1>8, <1>9 DEF Inv

\* One round of scheduler_wakeup()'s loop that wakes a sleeper.
LEMMA WakeExpiredInv == ASSUME Inv, SchedulerAssumption, WakeExpired PROVE Inv'
<1> SUFFICES ASSUME NEW t, t = Head(walk) PROVE Inv'
  OBVIOUS
<1> DEFINE tl == Tail(walk)
<1>1. /\ in_wakeup /\ walk # <<>> /\ walk' = tl
      /\ state' = [state EXCEPT ![t] = "READY"]
      /\ ready_queue' = Append(ready_queue, t)
      /\ blocked_list' = ListRemove(t)
      /\ wait_queue' = wait_queue /\ in_wakeup' = in_wakeup
      /\ remaining' = remaining /\ blocked_tasks' = blocked_tasks
      /\ scheduler_ready' = scheduler_ready
      /\ current_task' = current_task /\ idler' = idler
      /\ scheduler_lock_count' = scheduler_lock_count
      /\ postponed_schedule' = postponed_schedule
  BY DEF WakeExpired
<1>2. /\ SleepFits(state, wait_queue, walk) /\ BlockFits(state, blocked_tasks)
  BY InvParts
<1>3. /\ t \in Task /\ t \in Range(walk) /\ tl \in Seq(Task) /\ IsInjective(tl)
      /\ Range(tl) = Range(walk) \ {t}
  <2>1. walk \in Seq(Task) /\ IsInjective(walk)
    BY <1>2 DEF SleepFits
  <2> QED BY ONLY <1>1, <2>1, t = Head(walk), TailFacts, Zenon
<1>4. state[t] = "WAITING"
  BY <1>2, <1>3 DEF SleepFits
<1>5. /\ Fits(state', ready_queue') /\ ListFits(state', blocked_list')
      /\ \A u \in Task : state'[u] = IF u = t THEN "READY" ELSE state[u]
  <2>1. t \in Task /\ (IsBlocked(state[t]) \/ state[t] = "WAITING")
    BY <1>3, <1>4
  <2>2. Readied([state EXCEPT ![t] = "READY"], Append(ready_queue, t), ListRemove(t), t)
    BY ONLY Inv, <2>1, UnblockFits, Zenon
  <2>3. Readied(state', ready_queue', blocked_list', t)
    BY <1>1, <2>2, Zenon
  <2> QED BY <2>3 DEF Readied
<1> HIDE DEF tl
<1>6. SleepFits(state', wait_queue', walk')
  BY <1>1, <1>2, <1>3, <1>5 DEF SleepFits
<1>7. BlockFits(state', blocked_tasks')
  BY <1>1, <1>2, <1>4, <1>5 DEF BlockFits, IsBlocked
<1>8. NoDuplicates' /\ QueuesMatchStates' /\ BlockedListExact'
  BY <1>5, <1>6, <1>7, InvParts
<1>9. TypeOK'
  BY <1>1, <1>5, <1>6, <1>7 DEF Inv, TypeOK, Fits, SleepFits, BlockFits, ListFits
<1>10. RunningIsCurrent'
  BY <1>1, <1>4, <1>5 DEF Inv, RunningIsCurrent
<1>11. LockDiscipline' /\ BootDiscipline'
  BY <1>1 DEF Inv, LockDiscipline, BootDiscipline, Idle
<1> QED BY <1>8, <1>9, <1>10, <1>11 DEF Inv

\* One round of the loop that puts a sleeper back into the wait queue.
LEMMA PutBackInv == ASSUME Inv, SchedulerAssumption, PutBack PROVE Inv'
<1> DEFINE t == Head(walk)
           tl == Tail(walk)
           wq == Append(wait_queue, t)
<1>1. /\ in_wakeup /\ walk # <<>> /\ walk' = tl /\ wait_queue' = wq
      /\ in_wakeup' = in_wakeup /\ remaining' = remaining
      /\ blocked_tasks' = blocked_tasks /\ blocked_list' = blocked_list
      /\ scheduler_ready' = scheduler_ready
      /\ state' = state /\ ready_queue' = ready_queue
      /\ current_task' = current_task /\ idler' = idler
      /\ scheduler_lock_count' = scheduler_lock_count
      /\ postponed_schedule' = postponed_schedule
  BY DEF PutBack, switchVars, blockVars
<1>2. SleepFits(state, wait_queue, walk)
  BY InvParts
<1>3. /\ t \in Task /\ t \in Range(walk) /\ tl \in Seq(Task) /\ IsInjective(tl)
      /\ Range(tl) = Range(walk) \ {t}
  <2>1. walk \in Seq(Task) /\ IsInjective(walk)
    BY <1>2 DEF SleepFits
  <2> QED BY ONLY <1>1, <2>1, TailFacts, Zenon
<1>4. /\ wq \in Seq(Task) /\ IsInjective(wq) /\ Range(wq) = Range(wait_queue) \cup {t}
  <2>1. wait_queue \in Seq(Task) /\ IsInjective(wait_queue) /\ t \notin Range(wait_queue)
    BY <1>2, <1>3 DEF SleepFits
  <2>2. t \in Task
    BY <1>3
  <2> QED BY ONLY <2>1, <2>2, AppendFacts, Zenon
<1> HIDE DEF t, tl, wq
<1>5. SleepFits(state', wait_queue', walk')
  BY <1>1, <1>2, <1>3, <1>4 DEF SleepFits
<1>6. /\ Fits(state', ready_queue') /\ BlockFits(state', blocked_tasks')
      /\ ListFits(state', blocked_list')
  BY <1>1, InvParts
<1>7. NoDuplicates' /\ QueuesMatchStates' /\ BlockedListExact'
  BY <1>5, <1>6, InvParts
<1>8. TypeOK'
  BY <1>1, <1>3, <1>4 DEF Inv, TypeOK
<1>9. RunningIsCurrent' /\ LockDiscipline' /\ BootDiscipline'
  BY <1>1 DEF Inv, RunningIsCurrent, LockDiscipline, BootDiscipline, Idle
<1> QED BY <1>7, <1>8, <1>9 DEF Inv

\* task_add() readies a task that was on no queue.
LEMMA AddInv ==
  ASSUME Inv, SchedulerAssumption, NEW t \in Task, task_add(t)
  PROVE  Inv'
<1> DEFINE rq == Append(ready_queue, t)
<1>1. /\ state[t] = "NEW" /\ state' = [state EXCEPT ![t] = "READY"]
      /\ ready_queue' = rq
      /\ current_task' = current_task /\ idler' = idler
      /\ scheduler_lock_count' = scheduler_lock_count
      /\ postponed_schedule' = postponed_schedule
      /\ wait_queue' = wait_queue /\ walk' = walk /\ in_wakeup' = in_wakeup
      /\ remaining' = remaining /\ blocked_tasks' = blocked_tasks
      /\ blocked_list' = blocked_list /\ scheduler_ready' = scheduler_ready
  BY DEF task_add, sleepVars, blockVars
<1>2. /\ SleepFits(state, wait_queue, walk) /\ BlockFits(state, blocked_tasks)
      /\ ListFits(state, blocked_list) /\ Fits(state, ready_queue)
  BY InvParts
<1>3. /\ state' \in [Task -> TaskState]
      /\ \A u \in Task : state'[u] = IF u = t THEN "READY" ELSE state[u]
  BY <1>1, <1>2 DEF Fits, TaskState
<1>4. /\ ready_queue \in Seq(Task) /\ IsInjective(ready_queue)
      /\ t \notin Range(ready_queue)
  BY <1>1, <1>2 DEF Fits
<1>5. /\ rq \in Seq(Task) /\ IsInjective(rq) /\ Range(rq) = Range(ready_queue) \cup {t}
  BY ONLY <1>4, t \in Task, AppendFacts, Zenon
<1> HIDE DEF rq
<1>6. Fits(state', ready_queue')
  BY <1>1, <1>2, <1>3, <1>5 DEF Fits
<1>7. SleepFits(state', wait_queue', walk')
  BY <1>1, <1>2, <1>3 DEF SleepFits
<1>8. BlockFits(state', blocked_tasks')
  BY <1>1, <1>2, <1>3 DEF BlockFits, IsBlocked
<1>9. ListFits(state', blocked_list')
  BY <1>1, <1>2, <1>3 DEF ListFits, IsBlocked
<1>10. NoDuplicates' /\ QueuesMatchStates' /\ BlockedListExact'
  BY <1>6, <1>7, <1>8, <1>9, InvParts
<1>11. TypeOK'
  BY <1>1, <1>6, <1>7, <1>8, <1>9
     DEF Inv, TypeOK, Fits, SleepFits, BlockFits, ListFits
<1>12. RunningIsCurrent'
  BY <1>1, <1>3 DEF Inv, RunningIsCurrent
<1>13. LockDiscipline' /\ BootDiscipline'
  BY <1>1 DEF Inv, LockDiscipline, BootDiscipline, Idle
<1> QED BY <1>10, <1>11, <1>12, <1>13 DEF Inv

\* Nothing runs and the head of the ready queue is dispatched: the first switch
\* of tasking_enable() and the end of the idle loop.
LEMMA DispatchInv ==
  ASSUME Inv, SchedulerAssumption,
         current_task = NULL, in_wakeup = FALSE, ready_queue # <<>>,
         current_task' = Head(ready_queue),
         state' = [state EXCEPT ![Head(ready_queue)] = "RUNNING"],
         ready_queue' = Tail(ready_queue),
         scheduler_lock_count' = 0, postponed_schedule' = FALSE,
         idler' \in Task \cup {NULL}, scheduler_ready' = TRUE,
         UNCHANGED <<sleepVars, blockVars>>
  PROVE  Inv'
<1> SUFFICES ASSUME NEW t, t = Head(ready_queue) PROVE Inv'
  OBVIOUS
<1>1. /\ state' = [state EXCEPT ![t] = "RUNNING"] /\ current_task' = t
      /\ wait_queue' = wait_queue /\ walk' = walk /\ in_wakeup' = in_wakeup
      /\ remaining' = remaining /\ blocked_tasks' = blocked_tasks
      /\ blocked_list' = blocked_list
  BY DEF sleepVars, blockVars
<1>2. /\ SleepFits(state, wait_queue, walk) /\ BlockFits(state, blocked_tasks)
      /\ ListFits(state, blocked_list) /\ Fits(state, ready_queue)
  BY InvParts
<1>3. ready_queue \in Seq(Task) /\ IsInjective(ready_queue)
  BY <1>2 DEF Fits
<1>4. /\ t \in Task /\ t \in Range(ready_queue)
      /\ ready_queue' \in Seq(Task) /\ IsInjective(ready_queue')
      /\ Range(ready_queue') = Range(ready_queue) \ {t}
  BY ONLY <1>3, t = Head(ready_queue), ready_queue # <<>>,
          ready_queue' = Tail(ready_queue), TailFacts, Zenon
<1>5. /\ state[t] = "READY" /\ state' \in [Task -> TaskState]
      /\ \A u \in Task : state'[u] = IF u = t THEN "RUNNING" ELSE state[u]
  BY <1>1, <1>2, <1>4 DEF Fits, TaskState
<1>6. Fits(state', ready_queue')
  BY <1>2, <1>4, <1>5 DEF Fits
<1>7. SameOthers(state, state')
  BY <1>5 DEF SameOthers
<1>8. /\ SleepFits(state', wait_queue', walk') /\ BlockFits(state', blocked_tasks')
      /\ ListFits(state', blocked_list')
  BY <1>1, <1>2, <1>7, Transfer
<1>9. NoDuplicates' /\ QueuesMatchStates' /\ BlockedListExact'
  BY <1>6, <1>8, InvParts
<1>10. TypeOK'
  BY <1>1, <1>4, <1>6, <1>8 DEF Inv, TypeOK, Fits, SleepFits, BlockFits, ListFits
<1>11. RunningIsCurrent'
  BY <1>1, <1>4, <1>5 DEF Inv, TypeOK, RunningIsCurrent
<1>12. LockDiscipline' /\ BootDiscipline'
  BY <1>1, <1>4 DEF Inv, LockDiscipline, BootDiscipline, Idle
<1> QED BY <1>9, <1>10, <1>11, <1>12 DEF Inv

-----------------------------------------------------------------------------
(* The theorems.                                                            *)

\* Before the first task is added everything is empty.
LEMMA InitInv == ASSUME SchedulerAssumption, SchedulerInit PROVE Inv
<1>1. Range(<<>>) = {} /\ IsInjective(<<>>) /\ <<>> \in Seq(Task)
  BY EmptySeq DEF Range, IsInjective
<1>2. TypeOK
  BY <1>1 DEF SchedulerInit, TypeOK, TaskState
<1>3. NoDuplicates /\ QueuesMatchStates
  BY <1>1 DEF SchedulerInit, NoDuplicates, QueuesMatchStates, Sleepers, Blocked
<1>4. RunningIsCurrent /\ LockDiscipline /\ BlockedListExact /\ BootDiscipline
  BY DEF SchedulerInit, SchedulerAssumption, RunningIsCurrent, LockDiscipline,
         BlockedListExact, BootDiscipline, Blocked, Idle
<1> QED BY <1>2, <1>3, <1>4 DEF Inv

\* Every step of the scheduler keeps the invariant.
LEMMA StepInv ==
  ASSUME Inv, SchedulerAssumption, [SchedulerNext]_schedVars
  PROVE  Inv'
<1>1. CASE yield
  BY <1>1, YieldInv
<1>2. ASSUME NEW q \in Queue, NEW reason \in {"BLOCKED", "BLOCKED_LOCK"},
              task_block(q, reason)
       PROVE Inv'
  BY <1>2, BlockInv
<1>3. ASSUME NEW n \in 1..MaxSleep, task_sleep_until(n) PROVE Inv'
  <2>1. n \in Nat
    BY DEF SchedulerAssumption
  <2> QED BY <1>3, <2>1, SleepInv
<1>4. ASSUME NEW n \in 0..MaxSleep, task_sleep_miliseconds(n) PROVE Inv'
  <2>1. n \in Nat
    BY DEF SchedulerAssumption
  <2> QED BY <1>4, <2>1, SleepInv
<1>5. CASE task_exit
  BY <1>5, ExitInv
<1>6. CASE TimerIrq
  BY <1>6, TimerInv
<1>7. CASE WakeExpired
  BY <1>7, WakeExpiredInv
<1>8. CASE PutBack
  BY <1>8, PutBackInv
<1>9. CASE WakeupDone
  BY <1>9, WakeupDoneInv
<1>10. CASE IdleExit
  <2>1. scheduler_lock_count' = 0 /\ scheduler_ready' = TRUE /\ in_wakeup = FALSE
    BY <1>10 DEF IdleExit, Inv, TypeOK, LockDiscipline, Idle
  <2>2. UNCHANGED <<sleepVars, blockVars>>
    BY <1>10 DEF IdleExit
  <2> QED BY <1>10, <2>1, <2>2, DispatchInv DEF IdleExit, Idle
<1>11. CASE tasking_enable
  <2>1. /\ current_task = NULL /\ in_wakeup = FALSE
        /\ scheduler_lock_count' = 0 /\ postponed_schedule' = FALSE
        /\ idler' \in Task \cup {NULL}
    BY <1>11 DEF tasking_enable, Inv, TypeOK, LockDiscipline, BootDiscipline, Idle
  <2>2. UNCHANGED <<sleepVars, blockVars>>
    BY <1>11 DEF tasking_enable
  <2> QED BY <1>11, <2>1, <2>2, DispatchInv DEF tasking_enable
<1>12. ASSUME NEW t \in Task, task_add(t) PROVE Inv'
  BY <1>12, AddInv
<1>13. ASSUME NEW q \in Queue, task_unblock_next(q) PROVE Inv'
  BY <1>13, UnblockInv
<1>14. CASE UNCHANGED schedVars
  BY <1>14 DEF schedVars, switchVars, sleepVars, blockVars, Inv, TypeOK, NoDuplicates,
     QueuesMatchStates, RunningIsCurrent, LockDiscipline, BlockedListExact,
     BootDiscipline, Sleepers, Blocked, Idle
<1> QED
  BY <1>1, <1>2, <1>3, <1>4, <1>5, <1>6, <1>7, <1>8, <1>9, <1>10, <1>11, <1>12,
     <1>13, <1>14 DEF SchedulerNext, TaskStep, SystemStep

\* Whatever the tasks do, the scheduler's state is consistent: all the
\* assertions on it in task.c hold.
THEOREM SchedulerSafe == SchedulerSpec => []Inv
<1>1. SchedulerInit => Inv
  BY InitInv, SchedulerAssumption
<1>2. Inv /\ [SchedulerNext]_schedVars => Inv'
  BY StepInv, SchedulerAssumption
<1> QED BY <1>1, <1>2, PTL DEF SchedulerSpec

\* The type invariant of the scheduler's state.
THEOREM TypesHold == SchedulerSpec => []TypeOK
<1>1. Inv => TypeOK
  BY DEF Inv
<1> QED BY <1>1, SchedulerSafe, PTL

\* No task is ever linked twice into a queue: task_queue()'s assertion on
\* next_task (task.c:89) holds.
THEOREM NoTaskQueuedTwice == SchedulerSpec => []NoDuplicates
<1>1. Inv => NoDuplicates
  BY DEF Inv
<1> QED BY <1>1, SchedulerSafe, PTL

\* Every task is in exactly the queue its state names: no wakeup is lost by a
\* task that is neither queued nor running.
THEOREM NoTaskLost == SchedulerSpec => []QueuesMatchStates
<1>1. Inv => QueuesMatchStates
  BY DEF Inv
<1> QED BY <1>1, SchedulerSafe, PTL

\* One task runs at a time, the one current_task names.
THEOREM OneTaskRuns == SchedulerSpec => []RunningIsCurrent
<1>1. Inv => RunningIsCurrent
  BY DEF Inv
<1> QED BY <1>1, SchedulerSafe, PTL

\* The scheduler lock is balanced over switches, interrupts and idling.
THEOREM LockBalanced == SchedulerSpec => []LockDiscipline
<1>1. Inv => LockDiscipline
  BY DEF Inv
<1> QED BY <1>1, SchedulerSafe, PTL

\* blocked_list holds exactly the tasks that __task_block() put there.
THEOREM BlockedListKept == SchedulerSpec => []BlockedListExact
<1>1. Inv => BlockedListExact
  BY DEF Inv
<1> QED BY <1>1, SchedulerSafe, PTL

\* Queues, task states, current_task and blocked_list never disagree about
\* where a task is, whatever order task.c's functions are called in.
THEOREM TasksInPlace == SchedulerSpec => []TasksPlaced
<1>1. Inv => TasksPlaced
  BY DEF Inv, TasksPlaced
<1> QED BY <1>1, SchedulerSafe, PTL

-----------------------------------------------------------------------------
(* Exit is final.                                                           *)

\* A switch leaves a terminated task alone that is not in the ready queue.
LEMMA TerminatedStays ==
  ASSUME NEW st \in [Task -> TaskState], NEW rq \in Seq(Task), NEW locks,
         NEW t \in Task, st[t] = "TERMINATED", t \notin Range(rq),
         ScheduleAndUnlock(st, rq, locks)
  PROVE  state'[t] = "TERMINATED"
<1>1. CASE state' = st
  BY <1>1
<1>2. CASE SwitchTo(st, rq)
  <2>1. Head(rq) # t
    <3>1. rq # <<>>
      BY <1>2 DEF SwitchTo
    <3>2. Head(rq) \in Range(rq)
      BY <3>1, TailFacts
    <3> QED BY <3>2
  <2> QED BY <1>2, <2>1 DEF SwitchTo
<1> QED BY <1>1, <1>2 DEF ScheduleAndUnlock, __schedule, KeepRunning, StartIdling

\* Every step leaves a terminated task alone.
LEMMA ExitStep ==
  ASSUME Inv, SchedulerAssumption, [SchedulerNext]_schedVars,
         NEW t \in Task, state[t] = "TERMINATED"
  PROVE  state'[t] = "TERMINATED"
<1>1. /\ state \in [Task -> TaskState] /\ ready_queue \in Seq(Task)
      /\ t \notin Range(ready_queue)
  BY DEF Inv, TypeOK, QueuesMatchStates
<1>2. ASSUME NEW s \in TaskState, NEW locks, InKernel,
             ScheduleAndUnlock([state EXCEPT ![current_task] = s], ready_queue, locks)
      PROVE  state'[t] = "TERMINATED"
  <2>1. current_task # t
    BY <1>2, KernelPath
  <2>2. /\ [state EXCEPT ![current_task] = s] \in [Task -> TaskState]
        /\ [state EXCEPT ![current_task] = s][t] = "TERMINATED"
    BY <1>1, <2>1
  <2> QED BY ONLY <1>1, <1>2, <2>2, t \in Task, TerminatedStays, Zenon
<1>3. CASE yield \/ WakeupDone
  <2>1. PICK locks : ScheduleAndUnlock(state, ready_queue, locks)
    BY <1>3, Zenon DEF yield, WakeupDone
  <2> QED BY <1>1, <2>1, TerminatedStays
<1>4. ASSUME NEW q \in Queue, NEW reason \in {"BLOCKED", "BLOCKED_LOCK"},
              task_block(q, reason)
       PROVE state'[t] = "TERMINATED"
  <2>1. reason \in TaskState
    BY DEF TaskState
  <2> QED BY <1>2, <1>4, <2>1, Zenon DEF task_block, __task_block
<1>5. ASSUME NEW n, task_sleep_until(n) \/ task_sleep_miliseconds(n)
      PROVE  state'[t] = "TERMINATED"
  <2>1. "WAITING" \in TaskState
    BY DEF TaskState
  <2> QED BY <1>2, <1>5, <2>1, Zenon DEF task_sleep_until, task_sleep_miliseconds, Sleep
<1>6. CASE task_exit
  <2>1. "TERMINATED" \in TaskState
    BY DEF TaskState
  <2>2. /\ InKernel
        /\ ScheduleAndUnlock([state EXCEPT ![current_task] = "TERMINATED"], ready_queue, 0)
    BY <1>6 DEF task_exit, ScheduleAndUnlock
  <2> QED BY <1>2, <2>1, <2>2, Zenon
<1>7. CASE TimerIrq \/ PutBack \/ UNCHANGED schedVars
  BY <1>7 DEF TimerIrq, PutBack, schedVars, switchVars
<1>8. CASE WakeExpired
  <2>1. walk \in Seq(Task) /\ walk # <<>>
    BY <1>8 DEF WakeExpired, Inv, TypeOK
  <2>2. Head(walk) \in Range(walk) /\ Head(walk) \in Task
    BY ONLY <2>1, TailFacts, Zenon
  <2>3. Head(walk) # t
    BY <2>2 DEF Inv, QueuesMatchStates, Sleepers
  <2> QED BY <1>1, <1>8, <2>3 DEF WakeExpired
<1>9. CASE IdleExit \/ tasking_enable
  <2>1. ready_queue # <<>>
    BY <1>9 DEF IdleExit, tasking_enable
  <2>2. Head(ready_queue) \in Range(ready_queue)
    BY ONLY <1>1, <2>1, TailFacts, Zenon
  <2> QED BY <1>1, <1>9, <2>2 DEF IdleExit, tasking_enable
<1>10. ASSUME NEW u \in Task, task_add(u) PROVE state'[t] = "TERMINATED"
  BY <1>1, <1>10 DEF task_add
<1>11. ASSUME NEW q \in Queue, task_unblock_next(q) PROVE state'[t] = "TERMINATED"
  <2> SUFFICES ASSUME NEW u, u = Head(blocked_tasks[q]) PROVE state'[t] = "TERMINATED"
    OBVIOUS
  <2> DEFINE st == [state EXCEPT ![u] = "READY"]
             rq == Append(ready_queue, u)
  <2>1. blocked_tasks[q] \in Seq(Task) /\ blocked_tasks[q] # <<>>
    BY <1>11 DEF task_unblock_next, Unblock, Inv, TypeOK
  <2>2. u \in Range(blocked_tasks[q]) /\ u \in Task
    BY ONLY <2>1, u = Head(blocked_tasks[q]), TailFacts, Zenon
  <2>3. u # t
    BY <2>2 DEF Inv, QueuesMatchStates, Blocked
  <2>4. st \in [Task -> TaskState] /\ st[t] = "TERMINATED"
    BY <1>1, <2>3 DEF TaskState
  <2>5. rq \in Seq(Task) /\ Range(rq) = Range(ready_queue) \cup {u}
    <3>1. ready_queue \in Seq(Task) /\ IsInjective(ready_queue) /\ u \in Task
      BY <1>1, <2>2 DEF Inv, NoDuplicates
    <3>2. u \notin Range(ready_queue)
      BY <2>2 DEF Inv, QueuesMatchStates, Blocked
    <3> QED BY ONLY <3>1, <3>2, AppendFacts, Zenon
  <2>6. t \notin Range(rq)
    BY <1>1, <2>3, <2>5, Zenon
  <2>7. ScheduleAndUnlock(st, rq, scheduler_lock_count)
    BY <1>11 DEF task_unblock_next, Unblock
  <2> HIDE DEF st, rq
  <2> QED BY <2>4, <2>5, <2>6, <2>7, TerminatedStays
<1> QED
  BY <1>3, <1>4, <1>5, <1>6, <1>7, <1>8, <1>9, <1>10, <1>11
     DEF SchedulerNext, TaskStep, SystemStep

\* A task that called task_exit() never runs again, even though the idle loop
\* may keep using its stack.
THEOREM ExitFinal == SchedulerSpec => ExitIsFinal
<1>1. Inv /\ [SchedulerNext]_schedVars
        => [\A t \in Task : state[t] = "TERMINATED" => state'[t] = "TERMINATED"]_schedVars
  BY ExitStep, SchedulerAssumption
<1> QED BY <1>1, SchedulerSafe, PTL DEF SchedulerSpec, ExitIsFinal

-----------------------------------------------------------------------------
(* Every queue is first in, first out.                                      *)

LEMMA GrowSame ==
  ASSUME NEW S, NEW q \in Seq(S)
  PROVE  GrowsAtEnd(q, q)
<1>1. Len(q) \in Nat
  BY LenProperties
<1> QED BY <1>1 DEF GrowsAtEnd

\* task_queue() puts a task behind everybody.
LEMMA GrowAppend ==
  ASSUME NEW S, NEW T, NEW q \in Seq(S), NEW r \in Seq(T), NEW e \in T, GrowsAtEnd(q, r)
  PROVE  GrowsAtEnd(q, Append(r, e))
<1>1. /\ Len(q) \in Nat /\ Len(r) \in Nat /\ DOMAIN q = 1..Len(q) /\ Len(q) <= Len(r)
      /\ \A i \in DOMAIN q : r[i] = q[i]
  BY LenProperties DEF GrowsAtEnd
<1>2. /\ Len(Append(r, e)) = Len(r) + 1
      /\ \A k \in 1..Len(r) : Append(r, e)[k] = r[k]
  BY AppendProperties
<1> QED BY <1>1, <1>2 DEF GrowsAtEnd

\* Taking the head of the longer queue takes the head of the shorter one.
LEMMA GrowTail ==
  ASSUME NEW S, NEW q \in Seq(S), NEW r \in Seq(S), q # <<>>, GrowsAtEnd(q, r)
  PROVE  r # <<>> /\ Head(r) = Head(q) /\ GrowsAtEnd(Tail(q), Tail(r))
<1>1. /\ Len(q) \in Nat \ {0} /\ Len(r) \in Nat /\ DOMAIN q = 1..Len(q) /\ Len(q) <= Len(r)
      /\ \A i \in DOMAIN q : r[i] = q[i]
  BY LenProperties, EmptySeq DEF GrowsAtEnd
<1>2. r # <<>>
  BY <1>1, EmptySeq
<1>3. /\ Head(q) = q[1] /\ Len(Tail(q)) = Len(q) - 1 /\ Tail(q) \in Seq(S)
      /\ \A i \in 1..(Len(q) - 1) : Tail(q)[i] = q[i + 1]
  BY <1>1, HeadTailProperties
<1>4. /\ Head(r) = r[1] /\ Len(Tail(r)) = Len(r) - 1
      /\ \A i \in 1..(Len(r) - 1) : Tail(r)[i] = r[i + 1]
  BY <1>2, HeadTailProperties
<1>5. DOMAIN Tail(q) = 1..(Len(q) - 1)
  BY <1>3, LenProperties
<1> QED BY <1>1, <1>2, <1>3, <1>4, <1>5 DEF GrowsAtEnd

\* task_queue() and task_dequeue() keep a queue in order.
LEMMA InOrderFacts ==
  ASSUME NEW S, NEW q \in Seq(S)
  PROVE  /\ InOrder(q, q)
         /\ \A e \in S : InOrder(q, Append(q, e))
         /\ q # <<>> /\ IsInjective(q) => InOrder(q, Tail(q))
<1>1. GrowsAtEnd(q, q) /\ \A e \in S : GrowsAtEnd(q, Append(q, e))
  BY GrowSame, GrowAppend
<1>2. ASSUME q # <<>>, IsInjective(q)
      PROVE  Head(q) \notin Range(Tail(q)) /\ GrowsAtEnd(Tail(q), Tail(q))
  <2>1. Head(q) \notin Range(Tail(q)) /\ Tail(q) \in Seq(S)
    BY <1>2, TailFacts
  <2> QED BY ONLY <2>1, GrowSame, Zenon
<1> QED BY <1>1, <1>2 DEF InOrder

\* A scheduler_unlock() after schedule() takes at most the head of the ready queue
\* q away, whom the caller may have added to behind: to rq.
LEMMA ScheduleKeepsOrder ==
  ASSUME NEW st, NEW q \in Seq(Task), NEW rq \in Seq(Task), IsInjective(rq),
         GrowsAtEnd(q, rq), NEW locks, current_task \notin Range(rq),
         ScheduleAndUnlock(st, rq, locks)
  PROVE  InOrder(q, ready_queue')
<1>1. CASE ready_queue' = rq
  BY <1>1 DEF InOrder
<1>2. CASE SwitchTo(st, rq)
  <2>1. PICK tl : tl = Tail(rq)
    OBVIOUS
  <2>2. rq # <<>> /\ ready_queue' \in {tl, Append(tl, current_task)}
    BY <1>2, <2>1 DEF SwitchTo
  <2>3. tl \in Seq(Task) /\ Range(tl) = Range(rq) \ {Head(rq)} /\ Head(rq) \in Range(rq)
    BY <2>1, <2>2, TailFacts
  <2>4. PICK T : T = Task \cup {current_task}
    OBVIOUS
  <2>9. tl \in Seq(T) /\ current_task \in T
    BY <2>3, <2>4
  <2>5. Range(Append(tl, current_task)) = Range(tl) \cup {current_task}
    BY <2>9, AppendFacts
  <2>6. Head(rq) \notin Range(ready_queue')
    BY <2>2, <2>3, <2>5
  <2>7. CASE q = <<>>
    <3>1. Len(q) = 0 /\ DOMAIN q = {} /\ Len(ready_queue') \in Nat
      BY <2>2, <2>3, <2>7, <2>9, AppendFacts, LenProperties
    <3> QED BY <3>1 DEF InOrder, GrowsAtEnd
  <2>8. CASE q # <<>>
    <3>1. Head(rq) = Head(q) /\ GrowsAtEnd(Tail(q), tl) /\ Tail(q) \in Seq(Task)
      BY <2>1, <2>8, GrowTail, TailFacts
    <3>2. GrowsAtEnd(Tail(q), Append(tl, current_task))
      BY <2>9, <3>1, GrowAppend
    <3> QED BY <2>2, <2>6, <2>8, <3>1, <3>2 DEF InOrder
  <2> QED BY <2>7, <2>8
<1> QED BY <1>1, <1>2 DEF ScheduleAndUnlock, __schedule, KeepRunning, StartIdling

\* Every step takes at most the head of the ready queue away.
LEMMA ReadyInOrder ==
  ASSUME Inv, SchedulerAssumption, [SchedulerNext]_schedVars
  PROVE  InOrder(ready_queue, ready_queue')
<1>1. /\ ready_queue \in Seq(Task) /\ IsInjective(ready_queue)
      /\ current_task \in Task \cup {NULL}
      /\ \A t \in Task : t \in Range(ready_queue) => state[t] = "READY"
      /\ \A t \in Task : state[t] = "RUNNING" <=> t = current_task
  BY DEF Inv, TypeOK, NoDuplicates, QueuesMatchStates, RunningIsCurrent
<1>2. Range(ready_queue) \subseteq Task
  BY <1>1 DEF Range
<1>3. current_task \notin Range(ready_queue)
  BY <1>1, <1>2, SchedulerAssumption DEF SchedulerAssumption
<1>4. ASSUME NEW st, NEW locks, ScheduleAndUnlock(st, ready_queue, locks)
      PROVE  InOrder(ready_queue, ready_queue')
  BY <1>1, <1>3, <1>4, ScheduleKeepsOrder, GrowSame
<1>5. CASE yield \/ WakeupDone
  BY <1>4, <1>5, Zenon DEF yield, WakeupDone
<1>6. ASSUME NEW q \in Queue, NEW reason, task_block(q, reason)
      PROVE  InOrder(ready_queue, ready_queue')
  BY <1>4, <1>6, Zenon DEF task_block, __task_block
<1>7. ASSUME NEW n, task_sleep_until(n) \/ task_sleep_miliseconds(n)
      PROVE  InOrder(ready_queue, ready_queue')
  BY <1>4, <1>7, Zenon DEF task_sleep_until, task_sleep_miliseconds, Sleep
<1>8. CASE task_exit
  <2>1. ScheduleAndUnlock([state EXCEPT ![current_task] = "TERMINATED"], ready_queue, 0)
    BY <1>8 DEF task_exit, ScheduleAndUnlock
  <2> QED BY <1>4, <2>1, Zenon
<1>9. CASE TimerIrq \/ PutBack \/ UNCHANGED schedVars
  <2>1. ready_queue' = ready_queue
    BY <1>9 DEF TimerIrq, PutBack, schedVars, switchVars
  <2> QED BY <1>1, <2>1, InOrderFacts
<1>10. CASE IdleExit \/ tasking_enable
  <2>1. ready_queue' = Tail(ready_queue) /\ ready_queue # <<>>
    BY <1>10 DEF IdleExit, tasking_enable
  <2> QED BY <1>1, <2>1, InOrderFacts
<1>11. ASSUME NEW u \in Task, ready_queue' = Append(ready_queue, u)
       PROVE  InOrder(ready_queue, ready_queue')
  BY <1>1, <1>11, InOrderFacts
<1>12. CASE WakeExpired
  <2>1. walk \in Seq(Task) /\ walk # <<>>
    BY <1>12 DEF WakeExpired, Inv, TypeOK
  <2>2. Head(walk) \in Task
    BY ONLY <2>1, TailFacts, Zenon
  <2> QED BY <1>11, <1>12, <2>2 DEF WakeExpired
<1>13. ASSUME NEW u \in Task, task_add(u) PROVE InOrder(ready_queue, ready_queue')
  BY <1>11, <1>13 DEF task_add
<1>14. ASSUME NEW q \in Queue, task_unblock_next(q) PROVE InOrder(ready_queue, ready_queue')
  <2>1. PICK u : /\ u = Head(blocked_tasks[q])
                 /\ ScheduleAndUnlock([state EXCEPT ![u] = "READY"],
                                      Append(ready_queue, u), scheduler_lock_count)
    BY <1>14 DEF task_unblock_next, Unblock
  <2>2. blocked_tasks[q] \in Seq(Task) /\ blocked_tasks[q] # <<>>
    BY <1>14 DEF task_unblock_next, Unblock, Inv, TypeOK
  <2>3. u \in Range(blocked_tasks[q]) /\ u \in Task
    BY ONLY <2>1, <2>2, TailFacts, Zenon
  <2>4. u \notin Range(ready_queue) /\ u # current_task
    BY <1>1, <2>3 DEF Inv, QueuesMatchStates, Blocked
  <2>5. PICK rq : rq = Append(ready_queue, u)
    OBVIOUS
  <2>6. /\ rq \in Seq(Task) /\ IsInjective(rq) /\ Range(rq) = Range(ready_queue) \cup {u}
        /\ GrowsAtEnd(ready_queue, rq)
    BY ONLY <1>1, <2>3, <2>4, <2>5, AppendFacts, GrowSame, GrowAppend, Zenon
  <2>7. current_task \notin Range(rq)
    BY <1>3, <2>4, <2>6
  <2>8. ScheduleAndUnlock([state EXCEPT ![u] = "READY"], rq, scheduler_lock_count)
    BY <2>1, <2>5, Zenon
  <2> QED BY ONLY <1>1, <2>6, <2>7, <2>8, ScheduleKeepsOrder, Zenon
<1> QED
  BY <1>5, <1>6, <1>7, <1>8, <1>9, <1>10, <1>12, <1>13, <1>14
     DEF SchedulerNext, TaskStep, SystemStep

\* Every step adds at most the current task to an object's queue, or takes its head.
LEMMA BlockedInOrder ==
  ASSUME Inv, SchedulerAssumption, [SchedulerNext]_schedVars, NEW q \in Queue
  PROVE  InOrder(blocked_tasks[q], blocked_tasks'[q])
<1>1. /\ blocked_tasks \in [Queue -> Seq(Task)] /\ IsInjective(blocked_tasks[q])
      /\ blocked_tasks[q] \in Seq(Task) /\ current_task \in Task \cup {NULL}
  BY DEF Inv, TypeOK, NoDuplicates
<1>2. ASSUME blocked_tasks'[q] = blocked_tasks[q]
      PROVE  InOrder(blocked_tasks[q], blocked_tasks'[q])
  BY <1>1, <1>2, InOrderFacts
<1>3. ASSUME NEW p \in Queue, NEW reason, task_block(p, reason)
      PROVE  InOrder(blocked_tasks[q], blocked_tasks'[q])
  <2>1. current_task \in Task
    BY <1>1, <1>3 DEF task_block, InKernel
  <2>2. blocked_tasks'[q] \in {blocked_tasks[q], Append(blocked_tasks[q], current_task)}
    BY <1>1, <1>3 DEF task_block, __task_block
  <2> QED BY <1>1, <1>2, <2>1, <2>2, InOrderFacts
<1>4. ASSUME NEW p \in Queue, task_unblock_next(p)
      PROVE  InOrder(blocked_tasks[q], blocked_tasks'[q])
  <2>1. \/ blocked_tasks'[q] = blocked_tasks[q]
        \/ blocked_tasks'[q] = Tail(blocked_tasks[q]) /\ blocked_tasks[q] # <<>>
    BY <1>1, <1>4 DEF task_unblock_next, Unblock
  <2> QED BY <1>1, <1>2, <2>1, InOrderFacts
<1>5. CASE blocked_tasks' = blocked_tasks
  BY <1>2, <1>5
<1> QED
  BY <1>3, <1>4, <1>5
     DEF SchedulerNext, TaskStep, SystemStep, yield, task_sleep_until,
         task_sleep_miliseconds, task_exit, TimerIrq, WakeExpired, PutBack, WakeupDone,
         IdleExit, tasking_enable, task_add, blockVars, schedVars

\* No step reorders a queue: task_queue() appends and task_dequeue() takes the
\* head, in the ready queue and in the queue of every object, through every
\* preemption, wakeup and idle phase.
THEOREM FirstInFirstOut == SchedulerSpec => NoOvertaking
<1>1. Inv /\ [SchedulerNext]_schedVars
        => [/\ InOrder(ready_queue, ready_queue')
            /\ \A q \in Queue : InOrder(blocked_tasks[q], blocked_tasks'[q])]_schedVars
  BY ReadyInOrder, BlockedInOrder, SchedulerAssumption
<1> QED BY <1>1, SchedulerSafe, PTL DEF SchedulerSpec, NoOvertaking

-----------------------------------------------------------------------------
(* What the scheduler's steps do to who runs and who can run.               *)

Runnable(s) == s \in {"READY", "RUNNING"}

\* The idle loop has a stack to run on, which nobody else runs on.
IdlerSet == IF Idle THEN idler \in Task ELSE idler = NULL

LEMMA ScheduleIdles ==
  ASSUME Inv, SchedulerAssumption, IdlerSet, scheduler_ready, scheduler_ready' = scheduler_ready,
         NEW st, NEW rq, NEW locks \in {0, 1},
         locks = 0 <=> current_task # NULL,
         ScheduleAndUnlock(st, rq, locks), NULL \notin Range(rq), rq \in Seq(Task)
  PROVE  IdlerSet' /\ (Idle' => Idle \/ ready_queue' = <<>>)
<1> USE SchedulerAssumption DEF Inv, TypeOK, IdlerSet, Idle
<1>1. CASE locks > 0
  BY <1>1 DEF ScheduleAndUnlock
<1>2. CASE locks = 0 /\ KeepRunning(st, rq)
  BY <1>2 DEF KeepRunning
<1>3. CASE locks = 0 /\ StartIdling(st, rq)
  BY <1>3 DEF StartIdling
<1>4. CASE locks = 0 /\ SwitchTo(st, rq)
  <2>1. Head(rq) \in Task
    BY <1>4 DEF SwitchTo
  <2> QED BY <1>4, <2>1 DEF SwitchTo
<1> QED BY <1>1, <1>2, <1>3, <1>4 DEF ScheduleAndUnlock, __schedule

\* Whom __schedule() finds able to run can run afterwards.
LEMMA ScheduleRunnable ==
  ASSUME NEW st \in [Task -> TaskState], NEW rq \in Seq(Task), NEW locks,
         ScheduleAndUnlock(st, rq, locks), NEW t \in Task, Runnable(st[t])
  PROVE  Runnable(state'[t])
<1> USE DEF Runnable
<1>1. CASE SwitchTo(st, rq)
  <2>1. Head(rq) \in Task
    BY <1>1 DEF SwitchTo
  <2> QED BY <1>1, <2>1 DEF SwitchTo
<1>2. CASE ~SwitchTo(st, rq)
  BY <1>2 DEF ScheduleAndUnlock, __schedule, KeepRunning, StartIdling
<1> QED BY <1>1, <1>2

\* A step that calls schedule() hands it the states st and the queue rq, in which
\* the tasks of T can still run.
Handed(st, rq, T) ==
  /\ ScheduleAndUnlock(st, rq, IF current_task = NULL THEN 1 ELSE 0)
  /\ st \in [Task -> TaskState] /\ rq \in Seq(Task)
  /\ \A t \in T : Runnable(state[t]) => Runnable(st[t])
  /\ scheduler_ready = TRUE /\ scheduler_ready' = TRUE

\* The calls with which the current task gives up the cpu.
GivesUp ==
  \/ \E q \in Queue, reason \in {"BLOCKED", "BLOCKED_LOCK"} : task_block(q, reason)
  \/ \E n \in Nat : task_sleep_until(n) \/ task_sleep_miliseconds(n)
  \/ task_exit

LEMMA CallsHand ==
  ASSUME Inv, SchedulerAssumption, GivesUp
  PROVE  \E st, rq : Handed(st, rq, Task \ {current_task})
<1> USE DEF Runnable
<1>1. InKernel
  BY DEF GivesUp, task_block, task_sleep_until, task_sleep_miliseconds, task_exit
<1>2. /\ current_task \in Task /\ current_task # NULL /\ scheduler_lock_count = 0
      /\ scheduler_ready = TRUE /\ TypeOK
      /\ \A t \in Task : state[t] = "RUNNING" => t = current_task
  BY <1>1, KernelPath DEF SchedulerAssumption
<1>3. state \in [Task -> TaskState] /\ ready_queue \in Seq(Task)
  BY <1>2 DEF TypeOK
<1>5. ASSUME NEW s \in TaskState \ {"NEW"},
             ScheduleAndUnlock([state EXCEPT ![current_task] = s], ready_queue, 0),
             scheduler_ready' = scheduler_ready
      PROVE  \E st, rq : Handed(st, rq, Task \ {current_task})
  <2>1. PICK st : st = [state EXCEPT ![current_task] = s]
    OBVIOUS
  <2>2. st \in [Task -> TaskState] /\ \A t \in Task : t # current_task => st[t] = state[t]
    BY <1>2, <1>3, <2>1
  <2>3. st[current_task] # "NEW"
    BY <1>2, <1>3, <2>1
  <2> QED BY <1>2, <1>3, <1>5, <2>1, <2>2, <2>3 DEF Handed
<1>6. ASSUME NEW q \in Queue, NEW reason \in {"BLOCKED", "BLOCKED_LOCK"}, task_block(q, reason)
      PROVE  \E st, rq : Handed(st, rq, Task \ {current_task})
  BY <1>2, <1>5, <1>6 DEF task_block, __task_block, TaskState
<1>7. ASSUME NEW n \in Nat, task_sleep_until(n) \/ task_sleep_miliseconds(n)
      PROVE  \E st, rq : Handed(st, rq, Task \ {current_task})
  BY <1>2, <1>5, <1>7 DEF task_sleep_until, task_sleep_miliseconds, Sleep, TaskState
<1>8. CASE task_exit
  <2>1. /\ ScheduleAndUnlock([state EXCEPT ![current_task] = "TERMINATED"], ready_queue, 0)
        /\ scheduler_ready' = scheduler_ready
    BY <1>8 DEF task_exit, ScheduleAndUnlock
  <2>2. "TERMINATED" \in TaskState \ {"NEW"}
    BY DEF TaskState
  <2> QED BY ONLY <2>1, <2>2, <1>5, Zenon
<1> QED BY <1>6, <1>7, <1>8 DEF GivesUp

LEMMA WakesHand ==
  ASSUME Inv, SchedulerAssumption, yield \/ WakeupDone \/ \E q \in Queue : task_unblock_next(q)
  PROVE  \E st, rq : Handed(st, rq, Task)
<1> USE DEF Runnable
<1>1. /\ state \in [Task -> TaskState] /\ ready_queue \in Seq(Task)
      /\ blocked_tasks \in [Queue -> Seq(Task)]
      /\ in_wakeup \in BOOLEAN /\ scheduler_ready \in BOOLEAN
  BY DEF Inv, TypeOK
<1>2. scheduler_lock_count = (IF Idle THEN 1 ELSE 0) + (IF in_wakeup THEN 1 ELSE 0)
  BY DEF Inv, LockDiscipline
<1>3. CASE WakeupDone
  <2>1. /\ in_wakeup = TRUE /\ scheduler_ready = TRUE /\ scheduler_ready' = TRUE
        /\ ScheduleAndUnlock(state, ready_queue, scheduler_lock_count - 1)
    BY <1>1, <1>3 DEF WakeupDone, Inv, BootDiscipline
  <2>2. scheduler_lock_count - 1 = IF current_task = NULL THEN 1 ELSE 0
    BY <1>2, <2>1 DEF Idle
  <2> QED BY <1>1, <2>1, <2>2 DEF Handed
<1>4. ASSUME NEW q \in Queue, task_unblock_next(q)
      PROVE  \E st, rq : Handed(st, rq, Task)
  <2>1. PICK t : t = Head(blocked_tasks[q])
    OBVIOUS
  <2>2. PICK st, rq : st = [state EXCEPT ![t] = "READY"] /\ rq = Append(ready_queue, t)
    OBVIOUS
  <2>3. /\ in_wakeup = FALSE /\ scheduler_ready = TRUE /\ scheduler_ready' = TRUE
        /\ ScheduleAndUnlock(st, rq, scheduler_lock_count) /\ blocked_tasks[q] # <<>>
    BY <1>1, <1>4, <2>1, <2>2 DEF task_unblock_next, Unblock
  <2>4. scheduler_lock_count = IF current_task = NULL THEN 1 ELSE 0
    BY <1>2, <2>3 DEF Idle
  <2>5. t \in Task
    BY <1>1, <2>1, <2>3
  <2>6. st \in [Task -> TaskState] /\ rq \in Seq(Task)
        /\ \A u \in Task : st[u] = IF u = t THEN "READY" ELSE state[u]
    BY <1>1, <2>2, <2>5 DEF TaskState
  <2> QED BY <2>3, <2>4, <2>6 DEF Handed
<1>5. CASE yield
  <2>1. ScheduleAndUnlock(state, ready_queue, 0) /\ scheduler_ready' = TRUE
        /\ current_task # NULL /\ scheduler_ready = TRUE
    BY <1>5, KernelPath DEF yield, InKernel
  <2> QED BY <1>1, <2>1 DEF Handed
<1> QED BY <1>3, <1>4, <1>5


\* A step that goes through schedule() starts to idle only when nothing is ready.
LEMMA HandedSteps ==
  ASSUME Inv, SchedulerAssumption, IdlerSet, NEW st, NEW rq, NEW T \in SUBSET Task,
         Handed(st, rq, T)
  PROVE  /\ IdlerSet' /\ (Idle' => Idle \/ ready_queue' = <<>>)
         /\ \A t \in T : Runnable(state[t]) => Runnable(state'[t])
<1>1. IdlerSet' /\ (Idle' => Idle \/ ready_queue' = <<>>)
  <2>1. PICK locks : locks = IF current_task = NULL THEN 1 ELSE 0
    OBVIOUS
  <2>2. locks \in {0, 1} /\ (locks = 0 <=> current_task # NULL)
    BY <2>1
  <2>3. /\ scheduler_ready /\ scheduler_ready' = scheduler_ready
        /\ ScheduleAndUnlock(st, rq, locks) /\ rq \in Seq(Task)
    BY <2>1 DEF Handed
  <2>4. NULL \notin Range(rq)
    BY <2>3 DEF Range, SchedulerAssumption
  <2> QED BY ONLY <2>2, <2>3, <2>4, Inv, SchedulerAssumption, IdlerSet, ScheduleIdles
<1>2. \A t \in T : Runnable(state[t]) => Runnable(state'[t])
  BY ScheduleRunnable DEF Handed
<1> QED BY <1>1, <1>2

\* The steps with which the current task does not give up the cpu for longer
\* than until its next turn.
Goes == \/ UNCHANGED schedVars
        \/ yield
        \/ SystemStep
        \/ tasking_enable
        \/ \E t \in Task : task_add(t)
        \/ \E q \in Queue : task_unblock_next(q)

LEMMA Stepping ==
  ASSUME [SchedulerNext]_schedVars PROVE Goes \/ GivesUp
BY DEF Goes, GivesUp, SchedulerNext, TaskStep

\* The steps that only move one task between the queues.
LEMMA DirectSteps ==
  ASSUME Inv, SchedulerAssumption, IdlerSet,
         \/ UNCHANGED schedVars \/ TimerIrq \/ WakeExpired \/ PutBack \/ IdleExit
         \/ tasking_enable \/ \E t \in Task : task_add(t)
  PROVE  /\ IdlerSet' /\ (Idle' => Idle)
         /\ \A t \in Task : Runnable(state[t]) => Runnable(state'[t])
<1> USE DEF Runnable
<1>1. /\ state \in [Task -> TaskState] /\ ready_queue \in Seq(Task) /\ walk \in Seq(Task)
      /\ scheduler_ready \in BOOLEAN /\ NULL \notin Task /\ idler \in Task \cup {NULL}
      /\ ~scheduler_ready => current_task = NULL
  BY DEF Inv, TypeOK, SchedulerAssumption, BootDiscipline
<1>2. CASE UNCHANGED schedVars
  BY <1>2 DEF schedVars, switchVars, IdlerSet, Idle
<1>3. CASE TimerIrq
  BY <1>3 DEF TimerIrq, IdlerSet, Idle
<1>4. CASE WakeExpired
  <2>1. Head(walk) \in Task
    BY <1>1, <1>4 DEF WakeExpired
  <2>2. IdlerSet' /\ (Idle' => Idle)
    BY <1>4 DEF WakeExpired, IdlerSet, Idle
  <2> QED BY <1>1, <1>4, <2>1, <2>2 DEF WakeExpired
<1>5. CASE PutBack
  BY <1>5 DEF PutBack, switchVars, IdlerSet, Idle
<1>6. CASE ready_queue # <<>> /\ current_task' = Head(ready_queue)
           /\ state' = [state EXCEPT ![Head(ready_queue)] = "RUNNING"] /\ idler' = NULL
  <2>1. Head(ready_queue) \in Task
    BY <1>1, <1>6
  <2> QED BY <1>1, <1>6, <2>1 DEF IdlerSet, Idle
<1>7. CASE IdleExit
  BY <1>6, <1>7 DEF IdleExit
<1>8. CASE tasking_enable
  BY <1>6, <1>1, <1>8 DEF tasking_enable, IdlerSet, Idle
<1>9. ASSUME NEW t \in Task, task_add(t)
      PROVE  /\ IdlerSet' /\ (Idle' => Idle)
             /\ \A u \in Task : Runnable(state[u]) => Runnable(state'[u])
  <2>1. IdlerSet' /\ (Idle' => Idle)
    BY <1>9 DEF task_add, IdlerSet, Idle
  <2> QED BY <1>1, <1>9, <2>1 DEF task_add
<1> QED BY <1>2, <1>3, <1>4, <1>5, <1>7, <1>8, <1>9

\* Whatever the scheduler does, the cpu starts to idle only when nothing is ready,
\* and only a task that gives up the cpu stops being able to run.
LEMMA RunSteps ==
  ASSUME Inv, SchedulerAssumption, IdlerSet, [SchedulerNext]_schedVars
  PROVE  /\ IdlerSet' /\ (Idle' => Idle \/ ready_queue' = <<>>)
         /\ \A t \in Task \ {current_task} : Runnable(state[t]) => Runnable(state'[t])
         /\ Goes => \A t \in Task : Runnable(state[t]) => Runnable(state'[t])
<1>1. CASE Goes
  <2>1. CASE yield \/ WakeupDone \/ \E q \in Queue : task_unblock_next(q)
    BY <2>1, WakesHand, HandedSteps
  <2>2. CASE \/ UNCHANGED schedVars \/ TimerIrq \/ WakeExpired \/ PutBack \/ IdleExit
             \/ tasking_enable \/ \E t \in Task : task_add(t)
    BY <2>2, DirectSteps
  <2> QED BY <1>1, <2>1, <2>2 DEF Goes, SystemStep
<1>2. CASE GivesUp /\ ~Goes
  <2>1. PICK st, rq : Handed(st, rq, Task \ {current_task})
    BY <1>2, CallsHand
  <2>2. Task \ {current_task} \in SUBSET Task
    OBVIOUS
  <2> QED BY <1>2, <2>1, <2>2, HandedSteps
<1> QED BY <1>1, <1>2, Stepping
=============================================================================
