------------------------------- MODULE Input -------------------------------
(***************************************************************************)
(* Input from the serial line: irq4_handler() of kernel/serial.c, the ring *)
(* buffers of kernel/ringbuffer.c, the editing of lines and tty_read() of  *)
(* kernel/console.c, and the part of kernel/irq.c and pic.c that they need.*)
(*                                                                         *)
(* In the kernel a task runs until it blocks, wakes another task or writes *)
(* a character to the terminal; in user mode the timer may preempt it at   *)
(* any point.  Which of the ready tasks runs next is left open.            *)
(***************************************************************************)
EXTENDS Integers, Sequences, FiniteSets

CONSTANTS
  Reader,      \* the tasks that read the terminal
  Other,       \* a task that does not
  SerialSize,  \* SERIALBUFFER_LENGTH, 1024 in the code
  TextSize,    \* the size of text_buffer, 2048 in the code
  TmpSize,     \* the size of tmp_buffer in buffer_fill(), 1024 in the code
  FifoSize,    \* the bytes that the uart keeps, 16; it loses more
  Threshold,   \* the bytes at which it interrupts at once, 14 in the code
  ReadSizes,   \* the lengths that readers ask for
  MaxTyped     \* bound on the bytes that come in

NULL == "NULL"
Idle == "idle"

ASSUME InputAssumption ==
  /\ IsFiniteSet(Reader) /\ Other \notin Reader
  /\ {NULL, Idle} \cap (Reader \cup {Other}) = {}
  /\ {SerialSize, TextSize, TmpSize} \subseteq Nat \ {0}
  /\ ReadSizes \subseteq Nat \ {0}
  /\ Threshold \in Nat \ {0}

VARIABLES
  uart,        \* the bytes that the uart holds
  pending,     \* the interrupt controller has seen irq 4 rise
  timeout,     \* the uart's bytes have waited for long
  serial,      \* serial_ringbuffer
  text,        \* text_buffer
  pc,          \* where each reader is
  tmp,         \* the part of tmp_buffer below i
  want,        \* the bytes that tty_read() still has to return
  cur,         \* current_task
  in_service,  \* the interrupt controller holds irq 4 back
  acking,      \* the task whose irq4_handler() has not come to irq_ack()
  halted,      \* a failed assertion has stopped the machine
  \* What has happened, for the properties:
  typed,       \* how many bytes have come in
  serialQ,     \* the bytes written to serial and not read, until it fills up
  textQ,       \* likewise for text
  overrun      \* the buffers that have been filled up

inputVars == <<uart, pending, timeout, serial, text, pc, tmp, want, cur, in_service,
               acking, halted, typed, serialQ, textQ, overrun>>

Task == Reader \cup {Other}
\* A letter, backspace and the end of a line, which getc() makes of "\r" too.
Byte == {"a", "bs", "nl"}

-----------------------------------------------------------------------------
(* ringbuffer.c.  A buffer comes with its semaphore.                        *)

ringbuffer_init(size) ==
  [buffer |-> [i \in 0..size - 1 |-> NULL], write_head |-> 0, read_head |-> 0,
   size |-> size, count |-> 0, blocked |-> << >>]

ringbuffer_unread(b) ==
  IF b.write_head < b.read_head THEN (b.size - b.read_head) + b.write_head
  ELSE b.write_head - b.read_head

\* The unit goes to the first that waits, if any does.
Released(b) ==
  IF b.blocked # << >> THEN [b EXCEPT !.blocked = Tail(@)]
  ELSE [b EXCEPT !.count = @ + 1]

\* Mutant: advances the head first.
ringbuffer_write_byte_ahead(b, c) ==
  Released([b EXCEPT !.buffer[(b.write_head + 1) % b.size] = c,
                     !.write_head = (@ + 1) % b.size])

\* Does not look at what it overwrites.
ringbuffer_write_byte(b, c) ==
  Released([b EXCEPT !.buffer[b.write_head] = c, !.write_head = (@ + 1) % b.size])

\* ringbuffer_read_byte() once it has a unit.
ByteAt(b) == b.buffer[b.read_head]
Advanced(b) == [b EXCEPT !.read_head = (@ + 1) % b.size]

Taken(b) == Advanced([b EXCEPT !.count = @ - 1])
Waiting(b, t) == [b EXCEPT !.blocked = Append(@, t)]

-----------------------------------------------------------------------------
(* Tasks.                                                                   *)

Blocked(t) == t \in Reader /\ pc[t] \in {"fillWait", "takeWait"}

\* The tasks that may run when the readers are at pcs.
Runnable(pcs) == {t \in Task : t \in Reader => pcs[t] \notin {"fillWait", "takeWait"}}

InUser(t) == (t \in Reader => pc[t] = "user") /\ acking # t

\* The cpu is not in the kernel: it takes interrupts.
Interruptible == ~halted /\ (cur = Idle \/ InUser(cur))

\* A reader goes on in the kernel.
Running(r) == ~halted /\ cur = r /\ acking # r

\* The task that runs has blocked.  Other is not always ready.
SwitchedAway(pcs) ==
  LET ready == Runnable(pcs) \ {cur} IN
  cur' \in ready \cup (IF ready \ {Other} = {} /\ acking # Other THEN {Idle} ELSE {})

SwitchTo(t) ==
  /\ Interruptible
  /\ t # cur /\ ~Blocked(t)
  /\ cur' = t
  /\ UNCHANGED <<uart, pending, timeout, serial, text, pc, tmp, want, in_service,
                 acking, halted, typed, serialQ, textQ, overrun>>

Sleep ==
  /\ Interruptible
  /\ cur = Other /\ Runnable(pc) = {Other}
  /\ cur' = Idle
  /\ UNCHANGED <<uart, pending, timeout, serial, text, pc, tmp, want, in_service,
                 acking, halted, typed, serialQ, textQ, overrun>>

-----------------------------------------------------------------------------
(* The uart and its interrupt.                                              *)

\* The uart raises its line while it holds as many bytes as the threshold, and
\* when fewer have waited for the time of four.
Line(bytes, late) == Len(bytes) >= Threshold \/ late

\* The controller is edge triggered: a line that stays high is not seen again.
EdgeTriggered ==
  pending' = (pending \/ (~Line(uart, timeout) /\ Line(uart', timeout')))

Type(c) ==
  /\ ~halted
  /\ typed < MaxTyped /\ Len(uart) < FifoSize
  /\ uart' = Append(uart, c)
  /\ typed' = typed + 1
  /\ UNCHANGED <<timeout, serial, text, pc, tmp, want, cur, in_service, acking, halted,
                 serialQ, textQ, overrun>>
  /\ EdgeTriggered

CharTimeout ==
  /\ ~halted
  /\ uart # << >> /\ ~timeout
  /\ timeout' = TRUE
  /\ UNCHANGED <<uart, serial, text, pc, tmp, want, cur, in_service, acking, halted,
                 typed, serialQ, textQ, overrun>>
  /\ EdgeTriggered

\* The ghosts of a byte that is written to a buffer.
Overruns(b, name) == IF ringbuffer_unread(b) + 1 = b.size THEN {name} ELSE {}
Queued(q, name, c) == IF name \in overrun' THEN << >> ELSE Append(q, c)
Unqueued(q) == IF q = << >> THEN << >> ELSE Tail(q)

\* One byte for each interrupt.  When a reader is waiting for it another task
\* runs first, unless the cpu idles, and irq_ack() has to wait.
ReceiveByte ==
  LET c == Head(uart)
      woken == IF serial.blocked = << >> THEN {} ELSE {Head(serial.blocked)}
      pcs == [r \in Reader |-> IF r \in woken THEN "fillGot" ELSE pc[r]]
  IN /\ uart' = Tail(uart)
     /\ timeout' = FALSE
     /\ serial' = ringbuffer_write_byte(serial, c)
     /\ overrun' = overrun \cup Overruns(serial, "serial")
     /\ serialQ' = Queued(serialQ, "serial", c)
     /\ pc' = pcs
     /\ IF woken # {} /\ cur # Idle
        THEN /\ acking' = cur
             /\ in_service' = TRUE
             /\ cur' \in Runnable(pcs) \ {cur}
        ELSE UNCHANGED <<acking, in_service, cur>>
     /\ UNCHANGED <<text, tmp, want, halted, typed, textQ>>

\* irq_handler() stops the machine when nobody handles the interrupt.
Ignored ==
  /\ halted' = TRUE
  /\ UNCHANGED <<uart, timeout, serial, text, pc, tmp, want, cur, in_service, acking,
                 typed, serialQ, textQ, overrun>>

\* Mutant: the interrupt stays pending.
irq4_handler_again ==
  /\ Interruptible
  /\ pending /\ ~in_service
  /\ UNCHANGED pending
  /\ IF uart # << >> THEN ReceiveByte ELSE Ignored

\* The cpu takes the interrupt, which is no longer pending then.
irq4_handler ==
  /\ Interruptible
  /\ pending /\ ~in_service
  /\ pending' = FALSE
  /\ IF uart # << >> THEN ReceiveByte ELSE Ignored

\* Mutant: returns without it.
irq_ack_missing ==
  /\ ~halted /\ cur = acking
  /\ acking' = NULL
  /\ UNCHANGED <<uart, pending, timeout, serial, text, pc, tmp, want, cur, in_service,
                 halted, typed, serialQ, textQ, overrun>>

\* The interrupted task runs again, in the handler.
irq_ack ==
  /\ ~halted /\ cur = acking
  /\ acking' = NULL
  /\ in_service' = FALSE
  /\ UNCHANGED <<uart, pending, timeout, serial, text, pc, tmp, want, cur, halted,
                 typed, serialQ, textQ, overrun>>

-----------------------------------------------------------------------------
(* console.c.                                                               *)

\* Mutant: takes it for granted that there is a byte.
StartTaking(b) == "take"

\* Where buffer_getc() goes first.
Start(b) == IF ringbuffer_unread(b) = 0 THEN "fill" ELSE "take"

tty_read(r, size) ==
  /\ Running(r) /\ pc[r] = "user"
  /\ want' = [want EXCEPT ![r] = size]
  /\ pc' = [pc EXCEPT ![r] = Start(text)]
  /\ UNCHANGED <<uart, pending, timeout, serial, text, tmp, cur, in_service, acking,
                 halted, typed, serialQ, textQ, overrun>>

\* buffer_fill() with one more byte.
Edited(line, c) ==
  IF c = "bs" THEN SubSeq(line, 1, Len(line) - 1) ELSE Append(line, c)

\* Mutant: ends the line one byte too late.
EditTooLong(r, c) ==
  LET line == Edited(tmp[r], c) IN
  /\ tmp' = [tmp EXCEPT ![r] = line]
  /\ pc' = [pc EXCEPT ![r] = IF c = "nl" \/ Len(line) > TmpSize THEN "flush" ELSE "fill"]
  /\ cur' \in Runnable(pc')

\* The byte that a reader has got.  Its echo may let another task run.
Edit(r, c) ==
  LET line == Edited(tmp[r], c) IN
  /\ tmp' = [tmp EXCEPT ![r] = line]
  /\ pc' = [pc EXCEPT ![r] = IF c = "nl" \/ Len(line) = TmpSize THEN "flush" ELSE "fill"]
  /\ cur' \in Runnable(pc')

\* getc() in the loop of buffer_fill().
getc(r) ==
  /\ Running(r)
  /\ \/ /\ pc[r] = "fill" /\ serial.count > 0
        /\ serial' = Taken(serial)
        /\ serialQ' = Unqueued(serialQ)
        /\ Edit(r, ByteAt(serial))
     \/ /\ pc[r] = "fillGot"
        /\ serial' = Advanced(serial)
        /\ serialQ' = Unqueued(serialQ)
        /\ Edit(r, ByteAt(serial))
     \/ /\ pc[r] = "fill" /\ serial.count = 0
        /\ serial' = Waiting(serial, r)
        /\ pc' = [pc EXCEPT ![r] = "fillWait"]
        /\ SwitchedAway(pc')
        /\ UNCHANGED <<tmp, serialQ>>
  /\ UNCHANGED <<uart, pending, timeout, text, want, in_service, acking, halted, typed,
                 textQ, overrun>>

\* Mutant: writes one byte and leaves the others in tmp_buffer.
FlushFirst(r) ==
  /\ Running(r) /\ pc[r] = "flush"
  /\ text' = ringbuffer_write_byte(text, Head(tmp[r]))
  /\ overrun' = overrun \cup Overruns(text, "text")
  /\ textQ' = textQ \o tmp[r]
  /\ tmp' = [tmp EXCEPT ![r] = << >>]
  /\ pc' = [pc EXCEPT ![r] = "take"]
  /\ UNCHANGED <<uart, pending, timeout, serial, want, cur, in_service, acking, halted,
                 typed, serialQ>>

\* One byte of the second loop of buffer_fill().
Flush(r) ==
  LET c == Head(tmp[r])
      woken == IF text.blocked = << >> THEN {} ELSE {Head(text.blocked)}
      next == IF Len(tmp[r]) = 1 THEN "take" ELSE "flush"
      pcs == [s \in Reader |-> IF s = r THEN next
                               ELSE IF s \in woken THEN "takeGot" ELSE pc[s]]
  IN /\ Running(r) /\ pc[r] = "flush"
     /\ text' = ringbuffer_write_byte(text, c)
     /\ overrun' = overrun \cup Overruns(text, "text")
     /\ textQ' = Queued(textQ, "text", c)
     /\ tmp' = [tmp EXCEPT ![r] = Tail(@)]
     /\ pc' = pcs
     /\ IF woken # {} THEN cur' \in Runnable(pcs) \ {r} ELSE UNCHANGED cur
     /\ UNCHANGED <<uart, pending, timeout, serial, want, in_service, acking, halted,
                    typed, serialQ>>

\* A byte for the caller of tty_read().
Return(r, b) ==
  /\ text' = b
  /\ textQ' = Unqueued(textQ)
  /\ want' = [want EXCEPT ![r] = @ - 1]
  /\ pc' = [pc EXCEPT ![r] = IF want[r] = 1 THEN "user" ELSE Start(b)]
  /\ UNCHANGED <<cur, halted>>

\* Mutant: takes the byte without a unit.
buffer_getc_free(r) ==
  /\ Running(r) /\ pc[r] = "take"
  /\ Return(r, Advanced(text))
  /\ UNCHANGED <<uart, pending, timeout, serial, tmp, in_service, acking, typed,
                 serialQ, overrun>>

\* The rest of buffer_getc(), which asserts that there is a byte and may wait
\* for it all the same.
buffer_getc(r) ==
  /\ Running(r) /\ pc[r] \in {"take", "takeGot"}
  /\ IF pc[r] = "takeGot" THEN Return(r, Advanced(text))
     ELSE IF ringbuffer_unread(text) = 0
     THEN halted' = TRUE /\ UNCHANGED <<text, textQ, want, pc, cur>>
     ELSE IF text.count > 0 THEN Return(r, Taken(text))
     ELSE /\ text' = Waiting(text, r)
          /\ pc' = [pc EXCEPT ![r] = "takeWait"]
          /\ SwitchedAway(pc')
          /\ UNCHANGED <<textQ, want, halted>>
  /\ UNCHANGED <<uart, pending, timeout, serial, tmp, in_service, acking, typed,
                 serialQ, overrun>>

-----------------------------------------------------------------------------
Init ==
  /\ uart = << >> /\ pending = FALSE /\ timeout = FALSE
  /\ serial = ringbuffer_init(SerialSize)
  /\ text = ringbuffer_init(TextSize)
  /\ pc = [r \in Reader |-> "user"]
  /\ tmp = [r \in Reader |-> << >>]
  /\ want = [r \in Reader |-> 0]
  /\ cur = Other
  /\ in_service = FALSE /\ acking = NULL
  /\ halted = FALSE
  /\ typed = 0 /\ serialQ = << >> /\ textQ = << >> /\ overrun = {}

Kernel(r) ==
  (\E size \in ReadSizes : tty_read(r, size)) \/ getc(r) \/ Flush(r) \/ buffer_getc(r)

Stopped == halted /\ UNCHANGED inputVars

Next ==
  \/ \E c \in Byte : Type(c)
  \/ CharTimeout
  \/ irq4_handler \/ irq_ack
  \/ \E t \in Task : SwitchTo(t)
  \/ Sleep
  \/ \E r \in Reader : Kernel(r)
  \/ Stopped

\* The timer of the uart runs, the cpu takes a pending interrupt as soon as it
\* may, kernel code runs on, and a task that is ready again and again gets the
\* cpu: the ready queue is served in order.
Fairness ==
  /\ WF_inputVars(CharTimeout)
  /\ SF_inputVars(irq4_handler) /\ WF_inputVars(irq_ack)
  /\ \A t \in Task : SF_inputVars(SwitchTo(t))
  /\ \A r \in Reader : WF_inputVars(getc(r) \/ Flush(r) \/ buffer_getc(r))

Spec == Init /\ [][Next]_inputVars /\ Fairness

-----------------------------------------------------------------------------
(* Properties.                                                              *)

BufferType(size) ==
  [buffer : [0..size - 1 -> Byte \cup {NULL}], write_head : 0..size - 1,
   read_head : 0..size - 1, size : {size}, count : Nat, blocked : Seq(Reader)]

\* The state stays within its types; a line never outgrows tmp_buffer.
InputTypeOK ==
  /\ serial \in BufferType(SerialSize) /\ text \in BufferType(TextSize)
  /\ pc \in [Reader -> {"user", "fill", "fillWait", "fillGot", "flush", "take",
                        "takeWait", "takeGot"}]
  /\ \A r \in Reader : Len(tmp[r]) <= TmpSize /\ want[r] \in Nat
  /\ cur \in Task \cup {Idle} /\ acking \in Task \cup {NULL}
  /\ {pending, timeout, in_service, halted} \subseteq BOOLEAN

\* What a buffer holds, oldest first, and the units of its semaphore that
\* count for it: those that are free and those handed to a reader.
Held(b) == [k \in 1..ringbuffer_unread(b) |-> b.buffer[(b.read_head + k - 1) % b.size]]
Got(at) == Cardinality({r \in Reader : pc[r] = at})

\* Until serial_ringbuffer has been filled up, every byte that
\* irq4_handler() has read reaches one reader, once and in order, however
\* many read at a time.
SerialInOrder == "serial" \in overrun \/ Held(serial) = serialQ

\* Likewise for the lines in text_buffer.
TextInOrder == "text" \in overrun \/ Held(text) = textQ

\* A reader waits for the line only when no unit is left, and until a buffer
\* fills up its units are as many as its bytes.  Nobody ever waits for
\* text_buffer: who finds it empty fills it, and who finds a byte in it finds
\* a unit too.
UnitsMatchBytes ==
  /\ serial.blocked # << >> => serial.count = 0
  /\ text.blocked = << >>
  /\ "serial" \in overrun \/ serial.count + Got("fillGot") = ringbuffer_unread(serial)
  /\ "text" \in overrun \/ text.count + Got("takeGot") = ringbuffer_unread(text)

\* The assertion of buffer_getc() fails only after several readers together
\* have filled text_buffer up, and irq_handler() never stops the machine: an
\* interrupt of the line comes with a byte, however late it is taken.
StopsOnlyOnFullBuffer == halted => "text" \in overrun

\* So many bytes have waited for an interrupt to be taken that, one of them
\* read, the line is still high: no edge will ever come again.
Deaf == Len(uart) >= Threshold /\ ~pending

\* A byte in the uart is always read in the end, unless the line goes deaf:
\* irq4_handler() may hold back the next interrupt for as long as the
\* interrupted task has to wait, but irq_ack() comes, and bytes below the
\* threshold are announced one by one.
LineIsHeard == uart # << >> ~> (uart = << >> \/ halted \/ Deaf)

\* Until a ring buffer has been filled up, bytes pass it once and in order and
\* its semaphore counts them.
BytesInOrder == InputTypeOK /\ SerialInOrder /\ TextInOrder /\ UnitsMatchBytes
=============================================================================
