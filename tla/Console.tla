------------------------------ MODULE Console ------------------------------
(***************************************************************************)
(* printf() of kernel/console.c, and what it does to the scheduler whose   *)
(* functions call it.                                                      *)
(*                                                                         *)
(* vprintf() holds print_mutex over its whole message.  putc() holds a     *)
(* spin lock, hence the scheduler lock: when serial_putc() finds the UART  *)
(* busy its yield() is only noted, and the switch happens at the end of    *)
(* putc(), in the middle of the message and with print_mutex held.         *)
(*                                                                         *)
(* Three callers print where no switch may happen: scheduler_wakeup() and  *)
(* the exit functions under the scheduler lock, and __schedule() itself,   *)
(* when it leaves a terminated task, between taking the next task from the *)
(* ready queue and switching to it.                                        *)
(***************************************************************************)
EXTENDS Sync, FiniteSets

CONSTANTS PrintMutex,  \* console.c's print_mutex
          MsgLen       \* characters per message

ASSUME ConsoleAssumption ==
  /\ PrintMutex \in Mutex
  /\ MsgLen \in Nat \ {0}

VARIABLES
  left,    \* characters that the task's vprintf() still has to put
  busy,    \* history: the UART has been found busy
  failed   \* the line of task.c where the kernel stops or leaves the scheduler
           \* inconsistent, which ends the behaviour; 0 before

logVars == <<left, busy, failed>>
consoleVars == <<vars, logVars>>

Up == failed = 0

-----------------------------------------------------------------------------
(* A message of the current task, outside of any scheduler lock.            *)

\* vprintf() up to the first putc().
PrintBegin ==
  /\ Up /\ AtCallPoint /\ current_task # NULL
  /\ mutex_lock(PrintMutex)
  /\ left' = [left EXCEPT ![current_task] = MsgLen]
  /\ UNCHANGED <<busy, failed>>

PrintResume == Up /\ MutexLocked(PrintMutex) /\ UNCHANGED logVars

\* Mutant: puts one character too many.
putcPastEnd ==
  /\ Up /\ AtCallPoint /\ current_task # NULL
  /\ locked_task[PrintMutex] = current_task
  /\ left' = [left EXCEPT ![current_task] = @ - 1]
  /\ \/ UNCHANGED <<schedVars, busy>>
     \/ yield /\ busy' = TRUE
  /\ UNCHANGED <<syncVars, failed>>

\* Mutant: yields for every character.
putcYields ==
  /\ Up /\ AtCallPoint /\ current_task # NULL
  /\ locked_task[PrintMutex] = current_task
  /\ left[current_task] > 0
  /\ left' = [left EXCEPT ![current_task] = @ - 1]
  /\ yield
  /\ UNCHANGED <<syncVars, busy, failed>>

\* A busy UART leaves a postponed schedule for the spin_unlock() of putc().
putc ==
  /\ Up /\ AtCallPoint /\ current_task # NULL
  /\ locked_task[PrintMutex] = current_task
  /\ left[current_task] > 0
  /\ left' = [left EXCEPT ![current_task] = @ - 1]
  /\ \/ UNCHANGED <<schedVars, busy>>
     \/ yield /\ busy' = TRUE
  /\ UNCHANGED <<syncVars, failed>>

\* Mutant: gives print_mutex back in the middle of the message.
PrintEndEarly ==
  /\ Up /\ current_task # NULL
  /\ mutex_unlock(PrintMutex)
  /\ UNCHANGED logVars

PrintEnd ==
  /\ Up /\ current_task # NULL
  /\ left[current_task] = 0
  /\ mutex_unlock(PrintMutex)
  /\ UNCHANGED logVars

\* Before tasking_enable() a busy UART makes schedule() fail.
BootPutc ==
  /\ Up /\ ~scheduler_ready
  /\ busy' = TRUE
  /\ failed' = 305
  /\ UNCHANGED <<vars, left>>

-----------------------------------------------------------------------------
(* Messages under the scheduler lock: nothing can switch, so the message is *)
(* put at once, or the mutex is found taken and mutex_lock() cannot wait.   *)

LockedPrint == lock[PrintMutex] = 0

\* It puts the running task into the mutex's queue and goes on, up to the
\* assertion that nobody owns the mutex.  When that holds, in the middle of a
\* hand-over, the running task stays queued.
LockedPrintFails ==
  /\ lock[PrintMutex] = 1
  /\ failed' = IF current_task = NULL THEN 320
               ELSE IF locked_task[PrintMutex] = NULL THEN 463 ELSE 467
  /\ UNCHANGED <<vars, left, busy>>

\* scheduler_wakeup()'s message about a task that it wakes.
Wake ==
  /\ Up
  /\ \/ LockedPrint /\ WakeExpired /\ UNCHANGED <<syncVars, logVars>>
     \/ /\ in_wakeup /\ walk # <<>> /\ remaining[Head(walk)] = 0
        /\ LockedPrintFails

-----------------------------------------------------------------------------
(* __schedule() on a task c that has terminated.                            *)

\* Idle on c's stack, or leave c for the head of rq.
IdleOn(c, st) ==
  /\ current_task' = NULL
  /\ idler' = c
  /\ scheduler_lock_count' = 1
  /\ state' = st
  /\ ready_queue' = <<>>

LeaveFor(c, st, rq) ==
  /\ current_task' = Head(rq)
  /\ idler' = IF c = idler THEN NULL ELSE idler
  /\ scheduler_lock_count' = 0
  /\ state' = [st EXCEPT ![Head(rq)] = "RUNNING"]
  /\ ready_queue' = Tail(rq)

\* Mutant: waits without joining the queue of the mutex.
BlockInLogUnqueued(c, rq) ==
  LET st == [state EXCEPT ![c] = "BLOCKED_LOCK"] IN
  /\ blocked_list' = [blocked_list EXCEPT ![c] = @ + 1]
  /\ acquiring' = [acquiring EXCEPT ![c] = PrintMutex]
  /\ UNCHANGED blocked_tasks
  /\ IF rq = <<>> THEN IdleOn(c, st) ELSE LeaveFor(c, st, rq)

\* The message finds print_mutex taken: c, though terminated, waits for it in
\* mutex_lock(), and rq is what a further __schedule() finds.
BlockInLog(c, rq) ==
  LET st == [state EXCEPT ![c] = "BLOCKED_LOCK"] IN
  /\ blocked_tasks' = [blocked_tasks EXCEPT ![PrintMutex] = Append(@, c)]
  /\ blocked_list' = [blocked_list EXCEPT ![c] = @ + 1]
  /\ acquiring' = [acquiring EXCEPT ![c] = PrintMutex]
  /\ IF rq = <<>> THEN IdleOn(c, st) ELSE LeaveFor(c, st, rq)

\* The message is put and c is left for good.
QuietEnd(c, st) ==
  /\ lock[PrintMutex] = 0
  /\ LeaveFor(c, st, ready_queue)
  /\ UNCHANGED <<blockVars, lock, locked_task, acquiring, busy>>

\* Mutant: the message is put without print_mutex.
BusyEndUnlocked(c, st) ==
  /\ busy' = TRUE
  /\ Len(ready_queue) = 1
  /\ IdleOn(c, st)
  /\ UNCHANGED <<blockVars, acquiring, lock, locked_task>>

\* The UART is busy: putc() calls __schedule() again.  The head of the ready
\* queue is forgotten; if there is a second one, it is forgotten too, since
\* its message waits for the first.
BusyEnd(c, st) ==
  /\ busy' = TRUE
  /\ lock[PrintMutex] = 0
  /\ lock' = [lock EXCEPT ![PrintMutex] = 1]
  /\ locked_task' = [locked_task EXCEPT ![PrintMutex] = c]
  /\ \/ /\ Len(ready_queue) = 1
        /\ IdleOn(c, st)
        /\ UNCHANGED <<blockVars, acquiring>>
     \/ /\ Len(ready_queue) > 1
        /\ BlockInLog(c, Tail(Tail(ready_queue)))

\* Nobody gives the mutex back: the one who has it exited.
MutexTakenEnd(c) ==
  /\ lock[PrintMutex] = 1
  /\ BlockInLog(c, Tail(ready_queue))
  /\ UNCHANGED <<lock, locked_task, busy>>

\* __ktask_exit(), process_exit() and task_exit() print under the scheduler
\* lock, then __schedule() prints, if there is a task to switch to.
Exit ==
  /\ Up /\ AtCallPoint /\ InKernel /\ Holding(current_task) = {}
  /\ \/ LockedPrintFails
     \/ /\ LockedPrint /\ ready_queue = <<>>
        /\ task_exit
        /\ UNCHANGED <<syncVars, logVars>>
     \/ LET st == [state EXCEPT ![current_task] = "TERMINATED"] IN
        /\ LockedPrint /\ ready_queue # <<>>
        /\ QuietEnd(current_task, st) \/ BusyEnd(current_task, st)
        /\ postponed_schedule' = FALSE
        /\ UNCHANGED <<sleepVars, scheduler_ready, count, left, failed>>

\* The idle loop on a terminated task's stack ends with the same message.
IdleEnd ==
  /\ Up /\ Idle /\ ~in_wakeup /\ ready_queue # <<>>
  /\ \/ /\ state[idler] # "TERMINATED"
        /\ IdleExit
        /\ UNCHANGED <<syncVars, logVars>>
     \/ /\ state[idler] = "TERMINATED"
        /\ QuietEnd(idler, state) \/ BusyEnd(idler, state) \/ MutexTakenEnd(idler)
        /\ postponed_schedule' = FALSE
        /\ UNCHANGED <<sleepVars, scheduler_ready, count, left, failed>>

-----------------------------------------------------------------------------
ConsoleInit ==
  /\ SyncInit
  /\ left = [t \in Task |-> 0]
  /\ busy = FALSE
  /\ failed = 0

\* What neither prints nor is affected by a message.
SilentStep ==
  /\ Up
  /\ \/ AtCallPoint /\ (current_task # NULL => Holding(current_task) = {})
        /\ \/ yield
           \/ \E n \in 1..MaxSleep : task_sleep_until(n)
     \/ Interruptible /\ TimerIrq
     \/ PutBack \/ WakeupDone
     \/ tasking_enable
     \/ \E t \in Task : (scheduler_ready => AtCallPoint) /\ task_add(t)
  /\ UNCHANGED <<syncVars, logVars>>

\* A task waits for a device and the device's interrupt handler wakes it.
DeviceStep ==
  /\ Up
  /\ \E s \in Sem : semaphore_acquire(s) \/ semaphore_release(s)
  /\ UNCHANGED logVars

ConsoleNext ==
  \/ PrintBegin \/ PrintResume \/ putc \/ PrintEnd
  \/ BootPutc
  \/ Wake
  \/ Exit
  \/ IdleEnd
  \/ DeviceStep
  \/ SilentStep

ConsoleSpec == ConsoleInit /\ [][ConsoleNext]_consoleVars

-----------------------------------------------------------------------------
(* Properties.                                                              *)

\* Types: Sync's, the characters each task still has to print, and the line of
\* task.c at which an assertion stopped the kernel.
ConsoleTypeOK ==
  /\ SyncTypeOK
  /\ left \in [Task -> 0..MsgLen]
  /\ busy \in BOOLEAN
  /\ failed \in {0, 305, 320, 463, 467}

\* Two messages are never mixed, although the writer of one is switched out
\* in the middle of it whenever the UART is busy.
MessageWhole ==
  Cardinality({t \in Task : left[t] \in 1..(MsgLen - 1)}) <= 1

Forgotten == {t \in Task : state[t] = "READY" /\ t \notin Range(ready_queue)}

\* A ready task is lost from the ready queue only by __schedule()'s message,
\* and then print_mutex belongs to an exited task that will not give it back.
OnlyExitForgets ==
  Forgotten # {} =>
    \E c \in Task : /\ locked_task[PrintMutex] = c
                    /\ acquiring[c] = PrintMutex \/ state[c] = "TERMINATED"

\* A task that exited and waits for print_mutex in __schedule()'s message is
\* never resumed: it would run again.
ExitedNeverResumed ==
  \A t \in Task : acquiring[t] = PrintMutex /\ left[t] = 0
                   => t \in Range(blocked_tasks[PrintMutex])

\* Whatever task switches a busy UART causes in printf(), messages stay whole
\* and nobody comes back from the message about its own end.
LogSafe == ConsoleTypeOK /\ MessageWhole /\ ExitedNeverResumed

\* Printing from inside the scheduler is harmless as long as the UART was always
\* ready: no assertion fails and no task is lost, whoever prints when.
ReadyUartIsHarmless == ~busy => failed = 0 /\ QueuesMatchStates

\* mutex_lock() finds no owner once it has the lock (the assertion of
\* task.c:467).
LockedMutexIsUnowned == failed # 467
=============================================================================
