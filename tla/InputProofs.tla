---------------------------- MODULE InputProofs ----------------------------
(***************************************************************************)
(* Serial input, for every number of readers and every size of the buffers.*)
(***************************************************************************)
EXTENDS Input, Facts, FiniteSetTheorems, SequenceTheorems, TLAPS

-----------------------------------------------------------------------------
(* ringbuffer.c.                                                            *)

Cell == Byte \cup {NULL}

\* A buffer's heads, and the bytes that it holds.
LEMMA UnreadFacts ==
  ASSUME NEW n \in Nat \ {0}, NEW b \in BufferType(n)
  PROVE  /\ ringbuffer_unread(b) \in 0..n - 1
         /\ ringbuffer_unread(b) = Dist(n, b.read_head, b.write_head)
         /\ Held(b) = Ring(n, b.buffer, b.read_head, b.write_head)
         /\ Held(b) = << >> <=> ringbuffer_unread(b) = 0
<1>1. /\ b.buffer \in [0..n - 1 -> Cell] /\ b.size = n
      /\ b.write_head \in 0..n - 1 /\ b.read_head \in 0..n - 1
  BY DEF BufferType, Cell
<1>2. /\ ringbuffer_unread(b) = Dist(n, b.read_head, b.write_head)
      /\ ringbuffer_unread(b) \in 0..n - 1
  <2>1. ringbuffer_unread(b) = Dist(n, b.read_head, b.write_head)
    BY <1>1 DEF ringbuffer_unread, Dist
  <2> QED BY <1>1, <2>1, DistType
<1>3. Held(b) = Ring(n, b.buffer, b.read_head, b.write_head)
  BY <1>1, <1>2 DEF Held, Ring
<1>4. Ring(n, b.buffer, b.read_head, b.write_head) = << >>
        <=> Dist(n, b.read_head, b.write_head) = 0
  <2>1. b.buffer \in Cells(n, Cell)
    BY <1>1 DEF Cells
  <2>2. Lists(Ring(n, b.buffer, b.read_head, b.write_head), n, Cell,
              b.buffer, b.read_head, b.write_head)
    BY <1>1, <2>1, RingFacts
  <2> QED BY <2>2 DEF Lists
<1> QED BY <1>2, <1>3, <1>4

\* The unit of a written byte.
Signalled(b, w) ==
  /\ b.blocked = << >> => w.count = b.count + 1 /\ w.blocked = << >>
  /\ b.blocked # << >> => w.count = b.count /\ w.blocked = Tail(b.blocked)

LEMMA WriteFields ==
  ASSUME NEW n \in Nat \ {0}, NEW b \in BufferType(n), NEW c \in Cell,
         NEW w, w = ringbuffer_write_byte(b, c)
  PROVE  /\ w \in BufferType(n)
         /\ w.buffer = [b.buffer EXCEPT ![b.write_head] = c]
         /\ w.write_head = (b.write_head + 1) % n /\ w.read_head = b.read_head
         /\ Signalled(b, w)
<1>1. /\ b.buffer \in [0..n - 1 -> Cell] /\ b.size = n
      /\ b.write_head \in 0..n - 1 /\ b.read_head \in 0..n - 1
      /\ b.count \in Nat /\ b.blocked \in Seq(Reader)
  BY DEF BufferType, Cell
<1>2. PICK wh : wh = (b.write_head + 1) % n
  OBVIOUS
<1>3. wh \in 0..n - 1
  BY <1>1, <1>2, SuccFacts
<1>4. PICK x : x = [b EXCEPT !.buffer[b.write_head] = c, !.write_head = (@ + 1) % b.size]
  OBVIOUS
<1>5. /\ x \in BufferType(n)
      /\ x.buffer = [b.buffer EXCEPT ![b.write_head] = c]
      /\ x.write_head = (b.write_head + 1) % n /\ x.read_head = b.read_head
      /\ x.count = b.count /\ x.blocked = b.blocked
  BY <1>1, <1>2, <1>3, <1>4 DEF BufferType, Cell
<1>6. ringbuffer_write_byte(b, c) = Released(x)
  BY <1>4 DEF ringbuffer_write_byte
<1>8. /\ w \in BufferType(n) /\ w.buffer = x.buffer
      /\ w.write_head = x.write_head /\ w.read_head = x.read_head
      /\ b.blocked = << >> => w.count = b.count + 1 /\ w.blocked = << >>
      /\ b.blocked # << >> => w.count = b.count /\ w.blocked = Tail(b.blocked)
  <2>1. CASE b.blocked = << >>
    <3>1. w = [x EXCEPT !.count = @ + 1]
      BY <1>5, <1>6, <2>1 DEF Released
    <3>2. x.count + 1 \in Nat
      BY <1>1, <1>5
    <3> QED BY <1>5, <2>1, <3>1, <3>2 DEF BufferType
  <2>2. CASE b.blocked # << >>
    <3>1. w = [x EXCEPT !.blocked = Tail(@)]
      BY <1>5, <1>6, <2>2 DEF Released
    <3>2. Tail(x.blocked) \in Seq(Reader)
      BY <1>1, <1>5, <2>2
    <3> QED BY <1>5, <2>2, <3>1, <3>2 DEF BufferType
  <2> QED BY <2>1, <2>2
<1> QED BY <1>5, <1>8 DEF Signalled

\* A byte that is written is the last one held, unless the buffer gets full:
\* then it looks empty.
LEMMA WriteFacts ==
  ASSUME NEW n \in Nat \ {0}, NEW b \in BufferType(n), NEW c \in Cell,
         NEW w, w = ringbuffer_write_byte(b, c)
  PROVE  /\ ringbuffer_unread(b) + 1 = n => ringbuffer_unread(w) = 0
         /\ ringbuffer_unread(b) + 1 # n =>
              /\ ringbuffer_unread(w) = ringbuffer_unread(b) + 1
              /\ Held(w) = Append(Held(b), c)
<1>1. /\ b.buffer \in [0..n - 1 -> Cell] /\ b.size = n
      /\ b.write_head \in 0..n - 1 /\ b.read_head \in 0..n - 1
  BY DEF BufferType, Cell
<1>3. /\ w \in BufferType(n) /\ w.buffer = [b.buffer EXCEPT ![b.write_head] = c]
      /\ w.write_head = (b.write_head + 1) % n /\ w.read_head = b.read_head
      /\ w.size = n
  <2>1. /\ w \in BufferType(n) /\ w.buffer = [b.buffer EXCEPT ![b.write_head] = c]
        /\ w.write_head = (b.write_head + 1) % n /\ w.read_head = b.read_head
    BY WriteFields
  <2>2. w.size = n
    BY <2>1 DEF BufferType
  <2> QED BY <2>1, <2>2
<1>4. PICK r, h : r = b.read_head /\ h = b.write_head
  OBVIOUS
<1>5. PICK m : m = ringbuffer_unread(b)
  OBVIOUS
<1>6. /\ m = Dist(n, r, h) /\ r \in 0..n - 1 /\ h \in 0..n - 1
      /\ Held(b) = Ring(n, b.buffer, r, h)
  BY <1>1, <1>4, <1>5, UnreadFacts
<1>7. w.write_head = Succ(n, h) /\ w.read_head = r
  BY <1>3, <1>4, <1>6, SuccFacts
<1>8. /\ ringbuffer_unread(w) = Dist(n, r, Succ(n, h))
      /\ Held(w) = Ring(n, [b.buffer EXCEPT ![h] = c], r, Succ(n, h))
  <2>1. /\ ringbuffer_unread(w) = Dist(n, w.read_head, w.write_head)
        /\ Held(w) = Ring(n, w.buffer, w.read_head, w.write_head)
    BY <1>3, UnreadFacts
  <2> QED BY <1>3, <1>4, <1>7, <2>1
<1>9. /\ m + 1 = n => Dist(n, r, Succ(n, h)) = 0
      /\ m + 1 # n => Dist(n, r, Succ(n, h)) = m + 1
  BY <1>6, DistWrite
<1>10. m + 1 # n => Ring(n, [b.buffer EXCEPT ![h] = c], r, Succ(n, h))
                      = Append(Ring(n, b.buffer, r, h), c)
  <2>1. b.buffer \in Cells(n, Cell)
    BY <1>1 DEF Cells
  <2>2. PICK f : f = b.buffer
    OBVIOUS
  <2>3. f \in Cells(n, Cell) /\ r \in 0..n - 1 /\ h \in 0..n - 1
    BY <1>6, <2>1, <2>2
  <2>4. Dist(n, r, h) + 1 # n =>
          Ring(n, Put(f, h, c), r, Succ(n, h)) = Append(Ring(n, f, r, h), c)
    BY <2>3, RingWrite
  <2> QED BY <1>6, <2>2, <2>4 DEF Put
<1> QED BY <1>5, <1>6, <1>8, <1>9, <1>10

\* The oldest byte is read, with a unit taken before or without.
LEMMA AdvanceFacts ==
  ASSUME NEW n \in Nat \ {0}, NEW b \in BufferType(n)
  PROVE  /\ Advanced(b) \in BufferType(n) /\ ByteAt(b) \in Cell
         /\ Advanced(b).count = b.count /\ Advanced(b).blocked = b.blocked
         /\ ringbuffer_unread(b) # 0 =>
              /\ ringbuffer_unread(Advanced(b)) = ringbuffer_unread(b) - 1
              /\ Held(Advanced(b)) = Tail(Held(b))
<1>1. /\ b.buffer \in [0..n - 1 -> Cell] /\ b.size = n
      /\ b.write_head \in 0..n - 1 /\ b.read_head \in 0..n - 1
  BY DEF BufferType, Cell
<1>2. PICK w : w = Advanced(b)
  OBVIOUS
<1>3. PICK r, h : r = b.read_head /\ h = b.write_head
  OBVIOUS
<1>4. Succ(n, r) = (r + 1) % n /\ Succ(n, r) \in 0..n - 1
  BY <1>1, <1>3, SuccFacts
<1>5. /\ w \in BufferType(n) /\ w.buffer = b.buffer
      /\ w.write_head = h /\ w.read_head = Succ(n, r)
      /\ w.count = b.count /\ w.blocked = b.blocked /\ w.size = n
  BY <1>1, <1>2, <1>3, <1>4 DEF BufferType, Advanced
<1>6. ByteAt(b) \in Cell
  BY <1>1 DEF ByteAt
<1>7. /\ ringbuffer_unread(b) = Dist(n, r, h) /\ Held(b) = Ring(n, b.buffer, r, h)
      /\ r \in 0..n - 1 /\ h \in 0..n - 1
  BY <1>1, <1>3, UnreadFacts
<1>8. /\ ringbuffer_unread(w) = Dist(n, Succ(n, r), h)
      /\ Held(w) = Ring(n, b.buffer, Succ(n, r), h)
  <2>1. /\ ringbuffer_unread(w) = Dist(n, w.read_head, w.write_head)
        /\ Held(w) = Ring(n, w.buffer, w.read_head, w.write_head)
    BY <1>5, UnreadFacts
  <2> QED BY <1>5, <2>1
<1>9. Dist(n, r, h) # 0 =>
        /\ Dist(n, Succ(n, r), h) = Dist(n, r, h) - 1
        /\ Ring(n, b.buffer, Succ(n, r), h) = Tail(Ring(n, b.buffer, r, h))
  <2>1. b.buffer \in Cells(n, Cell)
    BY <1>1 DEF Cells
  <2>2. Dist(n, Succ(n, r), h) = IF Dist(n, r, h) = 0 THEN n - 1 ELSE Dist(n, r, h) - 1
    BY <1>7, DistRead
  <2> QED BY <1>7, <2>1, <2>2, RingAdvance
<1> QED BY <1>2, <1>5, <1>6, <1>7, <1>8, <1>9

LEMMA TakeFacts ==
  ASSUME NEW n \in Nat \ {0}, NEW b \in BufferType(n), b.count > 0
  PROVE  /\ Taken(b) \in BufferType(n)
         /\ Taken(b).count = b.count - 1 /\ Taken(b).blocked = b.blocked
         /\ ringbuffer_unread(b) # 0 =>
              /\ ringbuffer_unread(Taken(b)) = ringbuffer_unread(b) - 1
              /\ Held(Taken(b)) = Tail(Held(b))
<1>1. PICK x : x = [b EXCEPT !.count = @ - 1]
  OBVIOUS
<1>2. b.count \in Nat /\ b.count - 1 \in Nat
  BY DEF BufferType
<1>3. /\ x \in BufferType(n) /\ x.count = b.count - 1 /\ x.blocked = b.blocked
      /\ x.buffer = b.buffer /\ x.write_head = b.write_head
      /\ x.read_head = b.read_head /\ x.size = b.size
  BY <1>1, <1>2 DEF BufferType
<1>4. ringbuffer_unread(x) = ringbuffer_unread(b)
  BY <1>3 DEF ringbuffer_unread
<1>5. Held(x) = Held(b)
  BY <1>3, <1>4 DEF Held
<1>6. Taken(b) = Advanced(x)
  BY <1>1 DEF Taken
<1> QED BY <1>3, <1>4, <1>5, <1>6, AdvanceFacts


-----------------------------------------------------------------------------
(* The inductive invariant.                                                 *)

At(pcs, at) == {r \in Reader : pcs[r] = at}

\* The line: bytes, units and those who wait for them, each once.
SerialInv ==
  /\ serial \in BufferType(SerialSize)
  /\ SerialInOrder
  /\ "serial" \in overrun \/
       serial.count + Cardinality(At(pc, "fillGot")) = ringbuffer_unread(serial)
  /\ serial.blocked # << >> => serial.count = 0
  /\ \A i \in 1..Len(serial.blocked) :
       /\ pc[serial.blocked[i]] = "fillWait"
       /\ \A j \in 1..Len(serial.blocked) : serial.blocked[i] = serial.blocked[j] => i = j

\* text_buffer: never fewer units than bytes, so that nobody waits for it; who
\* is about to take a byte has the cpu, and there is one.
TextInv ==
  /\ text \in BufferType(TextSize)
  /\ TextInOrder
  /\ text.blocked = << >>
  /\ text.count >= ringbuffer_unread(text)
  /\ "text" \in overrun \/ text.count = ringbuffer_unread(text)
  /\ \A r \in Reader :
       /\ pc[r] \notin {"takeWait", "takeGot"}
       /\ pc[r] = "take" =>
            cur = r /\ ("text" \in overrun \/ ringbuffer_unread(text) # 0)
  /\ halted => "text" \in overrun

Stage == {"user", "fill", "fillWait", "fillGot", "flush", "take", "takeWait", "takeGot"}

\* An interrupt of the line comes with a byte: only irq4_handler() takes one,
\* and the line rises with one.
LineInv ==
  /\ pending \in BOOLEAN /\ timeout \in BOOLEAN
  /\ pending => uart # << >>

\* The readers: a line that is edited fits, and one that is flushed has bytes.
ReaderInv ==
  /\ uart \in Seq(Byte) /\ LineInv
  /\ pc \in [Reader -> Stage]
  /\ tmp \in [Reader -> Seq(Cell)] /\ want \in [Reader -> Nat]
  /\ \A r \in Reader :
       /\ Len(tmp[r]) <= TmpSize
       /\ pc[r] \in {"fill", "fillWait", "fillGot"} => Len(tmp[r]) < TmpSize
       /\ pc[r] = "flush" => tmp[r] # << >>
       /\ pc[r] \in {"user", "take"} => tmp[r] = << >>
       /\ pc[r] # "user" => want[r] # 0
  /\ cur \in Task \cup {Idle} /\ acking \in Task \cup {NULL}
  /\ in_service \in BOOLEAN /\ halted \in BOOLEAN

InputInv == SerialInv /\ TextInv /\ ReaderInv

LEMMA SerialKept ==
  ASSUME SerialInv, UNCHANGED <<serial, serialQ>>,
         "serial" \in overrun' <=> "serial" \in overrun,
         \A r \in Reader : /\ pc'[r] = "fillGot" <=> pc[r] = "fillGot"
                           /\ pc[r] = "fillWait" => pc'[r] = "fillWait"
  PROVE  SerialInv'
<1>1. At(pc', "fillGot") = At(pc, "fillGot")
  BY DEF At
<1>2. PICK b : b = serial
  OBVIOUS
<1>3. serial' = b
  BY <1>2
<1>4. b \in BufferType(SerialSize) /\ b.blocked \in Seq(Reader)
  BY <1>2 DEF SerialInv, BufferType
<1>5. SerialInOrder'
  BY <1>2, <1>3 DEF SerialInv, SerialInOrder
<1>6. \A i \in 1..Len(b.blocked) : pc'[b.blocked[i]] = "fillWait"
  BY <1>2, <1>4 DEF SerialInv
<1> QED BY <1>1, <1>2, <1>3, <1>4, <1>5, <1>6 DEF SerialInv

LEMMA TextKept ==
  ASSUME TextInv, UNCHANGED <<text, textQ>>,
         "text" \in overrun' <=> "text" \in overrun,
         \A r \in Reader :
           /\ pc'[r] \notin {"takeWait", "takeGot"}
           /\ pc'[r] = "take" => cur' = r /\ ("text" \in overrun \/ ringbuffer_unread(text) # 0),
         halted' => "text" \in overrun
  PROVE  TextInv'
<1>2. PICK b : b = text
  OBVIOUS
<1>3. text' = b
  BY <1>2
<1>5. TextInOrder'
  BY <1>2, <1>3 DEF TextInv, TextInOrder
<1> QED BY <1>2, <1>3, <1>5 DEF TextInv

\* Only the uart and irq4_handler() touch the line.
LEMMA LineKept ==
  ASSUME LineInv, UNCHANGED <<uart, pending, timeout>>
  PROVE  LineInv'
BY DEF LineInv

\* An interrupt or a switch meets nobody who is about to take a byte.
LEMMA NoTaker ==
  ASSUME InputAssumption, TextInv, NEW r \in Reader, Interruptible
  PROVE  pc[r] # "take"
<1>1. r # Idle
  BY DEF InputAssumption
<1> QED BY <1>1 DEF Interruptible, InUser, TextInv


\* irq4_handler() hands its unit to the first who waits, or keeps it.
LEMMA Irq4Step ==
  ASSUME InputAssumption, InputInv, irq4_handler
  PROVE  InputInv'
<1>1. PICK b, c : b = serial /\ c = Head(uart)
  OBVIOUS
<1>0. PICK w : w = ringbuffer_write_byte(b, c)
  OBVIOUS
<1>13. Interruptible /\ pending /\ uart # << >> /\ pending' = FALSE /\ ReceiveByte
  BY DEF irq4_handler, InputInv, ReaderInv, LineInv
<1>2. /\ Interruptible /\ uart # << >> /\ uart' = Tail(uart) /\ serial' = w
      /\ timeout' = FALSE /\ pending' = FALSE
      /\ overrun' = overrun \cup Overruns(b, "serial")
      /\ serialQ' = IF "serial" \in overrun' THEN << >> ELSE Append(serialQ, c)
      /\ UNCHANGED <<text, tmp, want, halted, textQ>>
  BY <1>0, <1>1, <1>13 DEF ReceiveByte, Queued
<1>3. /\ SerialSize \in Nat \ {0} /\ b \in BufferType(SerialSize) /\ c \in Cell
      /\ b.blocked \in Seq(Reader) /\ b.count \in Nat
  BY <1>1, <1>2 DEF InputAssumption, InputInv, SerialInv, ReaderInv, Cell, BufferType
<1>4. PICK woken : woken = IF b.blocked = << >> THEN {} ELSE {Head(b.blocked)}
  OBVIOUS
<1>5. /\ woken \in SUBSET Reader
      /\ pc' = [r \in Reader |-> IF r \in woken THEN "fillGot" ELSE pc[r]]
      /\ \A r \in woken : pc[r] = "fillWait"
  BY <1>1, <1>2, <1>3, <1>4, <1>13 DEF ReceiveByte, InputInv, SerialInv
<1>6. /\ w \in BufferType(SerialSize)
      /\ b.blocked = << >> => w.count = b.count + 1 /\ w.blocked = << >>
      /\ b.blocked # << >> => w.count = b.count /\ w.blocked = Tail(b.blocked)
  <2>1. SerialSize \in Nat \ {0} /\ b \in BufferType(SerialSize) /\ c \in Cell
    BY <1>3
  <2>2. w \in BufferType(SerialSize) /\ Signalled(b, w)
    BY <1>0, <2>1, WriteFields
  <2> QED BY <2>2 DEF Signalled
<1>7. PICK m, v : m = ringbuffer_unread(b) /\ v = ringbuffer_unread(w)
  OBVIOUS
<1>8. /\ m \in Nat /\ b.size = SerialSize
      /\ m + 1 # SerialSize => v = m + 1 /\ Held(w) = Append(Held(b), c)
  <2>1. m \in Nat /\ b.size = SerialSize
    <3>1. m \in 0..SerialSize - 1
      BY <1>3, <1>7, UnreadFacts
    <3> QED BY <1>3, <3>1 DEF BufferType
  <2>2. m + 1 # SerialSize => v = m + 1 /\ Held(w) = Append(Held(b), c)
    BY <1>0, <1>3, <1>7, WriteFacts
  <2> QED BY <2>1, <2>2
<1>9. /\ "serial" \notin overrun' => "serial" \notin overrun /\ m + 1 # SerialSize
      /\ "text" \in overrun' <=> "text" \in overrun
  BY <1>2, <1>7, <1>8 DEF Overruns
<1>10. SerialInv'
  <2>1. SerialInOrder'
    <3>1. "serial" \notin overrun' => Held(w) = serialQ'
      BY <1>1, <1>2, <1>8, <1>9 DEF InputInv, SerialInv, SerialInOrder
    <3> QED BY <1>2, <3>1 DEF SerialInOrder
  <2>2. ASSUME "serial" \notin overrun'
        PROVE  w.count + Cardinality(At(pc', "fillGot")) = v
    <3>1. PICK A, B : A = At(pc, "fillGot") /\ B = At(pc', "fillGot")
      OBVIOUS
    <3>2. b.count + Cardinality(A) = m /\ v = m + 1
      BY <1>1, <1>7, <1>8, <1>9, <2>2, <3>1 DEF InputInv, SerialInv
    <3>3. IsFiniteSet(A)
      BY <3>1, FS_Subset DEF At, InputAssumption
    <3>4. Cardinality(A) \in Nat
      BY <3>3, FS_CardinalityType
    <3>5. CASE b.blocked = << >>
      <4>1. B = A
        BY <1>4, <1>5, <3>1, <3>5 DEF At
      <4> QED BY <1>3, <1>6, <3>1, <3>2, <3>4, <3>5, <4>1
    <3>6. CASE b.blocked # << >>
      <4>1. PICK h : woken = {h}
        BY <1>4, <3>6
      <4>2. B = A \cup {h} /\ h \notin A
        BY <1>5, <3>1, <4>1 DEF At
      <4>3. Cardinality(B) = Cardinality(A) + 1
        BY <3>3, <4>2, FS_AddElement
      <4> QED BY <1>3, <1>6, <3>1, <3>2, <3>4, <3>6, <4>3
    <3> QED BY <3>5, <3>6
  <2>3. w.blocked # << >> => w.count = 0
    BY <1>1, <1>3, <1>6 DEF InputInv, SerialInv
  <2>4. ASSUME NEW i \in 1..Len(w.blocked)
        PROVE  /\ pc'[w.blocked[i]] = "fillWait"
               /\ \A j \in 1..Len(w.blocked) : w.blocked[i] = w.blocked[j] => i = j
    <3>1. b.blocked # << >> /\ w.blocked = Tail(b.blocked)
      BY <1>6, <2>4
    <3>2. PICK s : s = b.blocked
      OBVIOUS
    <3>3. /\ s \in Seq(Reader) /\ s # << >> /\ w.blocked = Tail(s) /\ woken = {s[1]}
          /\ \A k \in 1..Len(s) :
               /\ pc[s[k]] = "fillWait"
               /\ \A l \in 1..Len(s) : s[k] = s[l] => k = l
      BY <1>1, <1>3, <1>4, <3>1, <3>2 DEF InputInv, SerialInv
    <3>4. /\ Len(w.blocked) = Len(s) - 1 /\ Len(s) \in Nat
          /\ \A k \in 1..(Len(s) - 1) : w.blocked[k] = s[k + 1]
      BY <3>3
    <3>5. w.blocked[i] = s[i + 1] /\ i + 1 \in 1..Len(s) /\ i + 1 # 1 /\ 1 \in 1..Len(s)
      BY <3>4
    <3>6. s[i + 1] # s[1] /\ s[i + 1] \in Reader
      BY <3>3, <3>5
    <3>7. pc'[w.blocked[i]] = "fillWait"
      BY <1>5, <3>3, <3>5, <3>6
    <3>8. ASSUME NEW j \in 1..Len(w.blocked), w.blocked[i] = w.blocked[j] PROVE i = j
      <4>1. w.blocked[j] = s[j + 1] /\ j + 1 \in 1..Len(s)
        BY <3>4
      <4>2. i + 1 = j + 1
        BY <3>3, <3>5, <3>8, <4>1
      <4> QED BY <3>4, <4>2
    <3> QED BY <3>7, <3>8
  <2> QED BY <1>2, <1>6, <1>7, <2>1, <2>2, <2>3, <2>4 DEF SerialInv
<1>11. TextInv'
  <2>1. \A r \in Reader : /\ pc'[r] \notin {"takeWait", "takeGot"} /\ pc'[r] # "take"
    BY <1>2, <1>5, NoTaker DEF InputInv, TextInv
  <2> QED BY <1>2, <1>9, <2>1, TextKept DEF InputInv, TextInv
<1>12. ReaderInv'
  <2>1. pc' \in [Reader -> Stage] /\ uart' \in Seq(Byte)
    BY <1>2, <1>5 DEF InputInv, ReaderInv, Stage
  <2>2. /\ cur' \in Task \cup {Idle} /\ acking' \in Task \cup {NULL}
        /\ in_service' \in BOOLEAN
    BY <1>13 DEF ReceiveByte, Runnable, InputInv, ReaderInv
  <2>3. \A r \in Reader :
       /\ Len(tmp'[r]) <= TmpSize
       /\ pc'[r] \in {"fill", "fillWait", "fillGot"} => Len(tmp'[r]) < TmpSize
       /\ pc'[r] = "flush" => tmp'[r] # << >>
       /\ pc'[r] \in {"user", "take"} => tmp'[r] = << >>
       /\ pc'[r] # "user" => want'[r] # 0
    BY <1>2, <1>5 DEF InputInv, ReaderInv
  <2>4. halted' \in BOOLEAN /\ tmp' \in [Reader -> Seq(Cell)] /\ want' \in [Reader -> Nat]
    BY <1>2 DEF InputInv, ReaderInv
  <2>5. LineInv'
    BY <1>2 DEF LineInv
  <2> QED BY <2>1, <2>2, <2>3, <2>4, <2>5 DEF ReaderInv
<1> QED BY <1>10, <1>11, <1>12 DEF InputInv


\* The uart, irq_ack() and switches between tasks touch no buffer.
LEMMA QuietStep ==
  ASSUME InputAssumption, InputInv,
         \/ \E c \in Byte : Type(c)
         \/ CharTimeout
         \/ irq_ack
         \/ \E t \in Task : SwitchTo(t)
         \/ Sleep
         \/ UNCHANGED inputVars
  PROVE  InputInv'
<1>1. UNCHANGED <<serial, text, pc, tmp, want, halted, serialQ, textQ, overrun>>
  BY DEF Type, CharTimeout, irq_ack, SwitchTo, Sleep, inputVars
<1>2. SerialInv'
  BY <1>1, SerialKept DEF InputInv
<1>3. \A r \in Reader : pc[r] = "take" => cur' = r
  <2>1. CASE Interruptible
    BY <2>1, NoTaker DEF InputInv
  <2>2. CASE cur' = cur
    BY <2>2 DEF InputInv, TextInv
  <2> QED BY <2>1, <2>2 DEF Type, CharTimeout, irq_ack, SwitchTo, Sleep, inputVars
<1>4. TextInv'
  <2>1. \A r \in Reader :
           /\ pc'[r] \notin {"takeWait", "takeGot"}
           /\ pc'[r] = "take" => cur' = r /\ ("text" \in overrun \/ ringbuffer_unread(text) # 0)
    BY <1>1, <1>3 DEF InputInv, TextInv
  <2>2. (halted' => "text" \in overrun) /\ TextInv
    BY <1>1 DEF InputInv, TextInv
  <2> QED BY <1>1, <2>1, <2>2, TextKept
<1>5. ReaderInv'
  <2>1. uart' \in Seq(Byte)
    <3>1. uart' = uart \/ \E c \in Byte : uart' = Append(uart, c)
      BY DEF Type, CharTimeout, irq_ack, SwitchTo, Sleep, inputVars
    <3>2. uart \in Seq(Byte)
      BY DEF InputInv, ReaderInv
    <3> QED BY <3>1, <3>2
  <2>2. cur' \in Task \cup {Idle} /\ acking' \in Task \cup {NULL}
    BY DEF Type, CharTimeout, irq_ack, SwitchTo, Sleep, inputVars, InputInv, ReaderInv, Task
  <2>3. in_service' \in BOOLEAN
    BY DEF Type, CharTimeout, irq_ack, SwitchTo, Sleep, inputVars, InputInv, ReaderInv
  <2>4. LineInv'
    <3>1. CASE \/ \E c \in Byte : Type(c)
               \/ CharTimeout
      <4>1. uart' # << >>
        <5>1. uart \in Seq(Byte)
          BY DEF InputInv, ReaderInv
        <5> QED BY <3>1, <5>1 DEF Type, CharTimeout
      <4>2. pending' \in BOOLEAN /\ timeout' \in BOOLEAN
        BY <3>1 DEF Type, CharTimeout, EdgeTriggered, InputInv, ReaderInv, LineInv
      <4> QED BY <4>1, <4>2 DEF LineInv
    <3>2. CASE UNCHANGED <<uart, pending, timeout>>
      BY <3>2 DEF InputInv, ReaderInv, LineInv
    <3> QED BY <3>1, <3>2 DEF irq_ack, SwitchTo, Sleep, inputVars
  <2> QED BY <1>1, <2>1, <2>2, <2>3, <2>4 DEF InputInv, ReaderInv
<1> QED BY <1>2, <1>4, <1>5 DEF InputInv

LEMMA TtyReadStep ==
  ASSUME InputAssumption, InputInv, NEW r \in Reader, NEW size \in ReadSizes,
         tty_read(r, size)
  PROVE  InputInv'
<1>1. /\ cur = r /\ pc[r] = "user" /\ want' = [want EXCEPT ![r] = size]
      /\ pc' = [pc EXCEPT ![r] = Start(text)]
      /\ UNCHANGED <<uart, pending, timeout, serial, text, tmp, cur, in_service, acking, halted,
                     serialQ, textQ, overrun>>
  BY DEF tty_read, Running
<1>2. /\ Start(text) \in {"fill", "take"} /\ size \in Nat /\ size # 0 /\ TmpSize > 0
      /\ TmpSize \in Nat
      /\ Start(text) = "take" => ringbuffer_unread(text) # 0
  BY DEF Start, InputAssumption
<1>3. pc \in [Reader -> Stage]
  BY DEF InputInv, ReaderInv
<1>4. SerialInv'
  BY <1>1, <1>2, <1>3, SerialKept DEF InputInv
<1>5. TextInv'
  <2>1. \A s \in Reader :
           /\ pc'[s] \notin {"takeWait", "takeGot"}
           /\ pc'[s] = "take" => cur' = s /\ ("text" \in overrun \/ ringbuffer_unread(text) # 0)
    BY <1>1, <1>2, <1>3 DEF InputInv, TextInv
  <2>2. (halted' => "text" \in overrun) /\ TextInv
    BY <1>1 DEF InputInv, TextInv
  <2> QED BY <1>1, <2>1, <2>2, TextKept
<1>6. ReaderInv'
  <2>1. pc' \in [Reader -> Stage] /\ want' \in [Reader -> Nat]
    BY <1>1, <1>2, <1>3 DEF InputInv, ReaderInv, Stage
  <2>2. ASSUME NEW s \in Reader
        PROVE  /\ Len(tmp'[s]) <= TmpSize
               /\ pc'[s] \in {"fill", "fillWait", "fillGot"} => Len(tmp'[s]) < TmpSize
               /\ pc'[s] = "flush" => tmp'[s] # << >>
               /\ pc'[s] \in {"user", "take"} => tmp'[s] = << >>
               /\ pc'[s] # "user" => want'[s] # 0
    <3>1. CASE s = r
      <4>1. tmp'[s] = << >> /\ Len(tmp'[s]) = 0
        BY <1>1, <3>1 DEF InputInv, ReaderInv
      <4>2. pc'[s] = Start(text) /\ want'[s] = size
        BY <1>1, <1>3, <3>1 DEF InputInv, ReaderInv
      <4> QED BY <1>2, <4>1, <4>2
    <3>2. CASE s # r
      BY <1>1, <1>3, <3>2 DEF InputInv, ReaderInv
    <3> QED BY <3>1, <3>2
  <2> QED BY <1>1, <2>1, <2>2, LineKept DEF InputInv, ReaderInv
<1> QED BY <1>4, <1>5, <1>6 DEF InputInv


\* A byte that a reader has got, with what its line becomes.
LEMMA EditStep ==
  ASSUME InputAssumption, ReaderInv, NEW r \in Reader, pc[r] \in {"fill", "fillGot"},
         NEW c \in Cell, Edit(r, c),
         UNCHANGED <<uart, pending, timeout, want, in_service, acking, halted>>
  PROVE  /\ ReaderInv'
         /\ pc' = [pc EXCEPT ![r] = pc'[r]] /\ pc'[r] \in {"flush", "fill"}
<1>1. PICK line : line = Edited(tmp[r], c)
  OBVIOUS
<1>2. PICK next : next = IF c = "nl" \/ Len(line) = TmpSize THEN "flush" ELSE "fill"
  OBVIOUS
<1>3. /\ tmp' = [tmp EXCEPT ![r] = line] /\ pc' = [pc EXCEPT ![r] = next]
      /\ cur' \in Runnable(pc')
  BY <1>1, <1>2 DEF Edit
<1>4. /\ tmp \in [Reader -> Seq(Cell)] /\ pc \in [Reader -> Stage]
      /\ want \in [Reader -> Nat] /\ TmpSize \in Nat \ {0}
      /\ Len(tmp[r]) < TmpSize /\ want[r] # 0
  BY DEF ReaderInv, InputAssumption
<1>5. PICK old : old = tmp[r]
  OBVIOUS
<1>6. old \in Seq(Cell) /\ Len(old) \in Nat /\ Len(old) < TmpSize
  BY <1>4, <1>5
<1>7. /\ line \in Seq(Cell)
      /\ IF c = "bs" THEN Len(line) < TmpSize
         ELSE Len(line) = Len(old) + 1 /\ line # << >>
  <2>1. CASE c = "bs"
    <3>1. line = SubSeq(old, 1, Len(old) - 1)
      BY <1>1, <1>5, <2>1 DEF Edited
    <3>2. CASE old = << >>
      <4>1. Len(old) = 0
        BY <3>2
      <4>2. line = << >>
        BY <3>1, <4>1
      <4> QED BY <1>4, <2>1, <4>2
    <3>3. CASE old # << >>
      <4>1. Len(old) - 1 \in Nat
        BY <1>6, <3>3
      <4>2. line \in Seq(Cell) /\ Len(line) = Len(old) - 1
        <5>2. PICK n : n = Len(old) - 1
          OBVIOUS
        <5>1. n \in Nat /\ \A i \in 1..n : old[i] \in Cell
          BY <1>6, <4>1, <5>2
        <5>3. SubSeq(old, 1, n) \in Seq(Cell) /\ Len(SubSeq(old, 1, n)) = n
          BY <5>1, SubSeqProperties
        <5> QED BY <3>1, <5>2, <5>3
      <4> QED BY <1>4, <1>6, <2>1, <4>2
    <3> QED BY <3>2, <3>3
  <2>2. CASE c # "bs"
    <3>1. line = Append(old, c)
      BY <1>1, <1>5, <2>2 DEF Edited
    <3> QED BY <1>6, <2>2, <3>1
  <2> QED BY <2>1, <2>2
<1>8. next \in {"flush", "fill"} /\ Len(line) \in Nat
  BY <1>2, <1>7
<1>9. /\ Len(line) <= TmpSize
      /\ next = "fill" => Len(line) < TmpSize
      /\ next = "flush" => line # << >>
  <2>1. Len(line) <= TmpSize
    BY <1>4, <1>6, <1>7, <1>8
  <2>2. next = "fill" => Len(line) < TmpSize
    BY <1>2, <1>4, <1>8, <2>1
  <2>3. next = "flush" => line # << >>
    <3>1. ASSUME c = "bs" PROVE next = "fill"
      <4>1. Len(line) # TmpSize /\ c # "nl"
        BY <1>4, <1>7, <1>8, <3>1
      <4> QED BY <1>2, <4>1
    <3> QED BY <1>7, <3>1
  <2> QED BY <2>1, <2>2, <2>3
<1>10. pc' \in [Reader -> Stage] /\ tmp' \in [Reader -> Seq(Cell)]
  BY <1>3, <1>4, <1>7, <1>8 DEF Stage
<1>11. ASSUME NEW s \in Reader
       PROVE  /\ Len(tmp'[s]) <= TmpSize
              /\ pc'[s] \in {"fill", "fillWait", "fillGot"} => Len(tmp'[s]) < TmpSize
              /\ pc'[s] = "flush" => tmp'[s] # << >>
              /\ pc'[s] \in {"user", "take"} => tmp'[s] = << >>
              /\ pc'[s] # "user" => want'[s] # 0
  <2>1. CASE s = r
    <3>1. tmp'[s] = line /\ pc'[s] = next /\ want'[s] # 0
      BY <1>3, <1>4, <2>1
    <3> QED BY <1>8, <1>9, <3>1
  <2>2. CASE s # r
    <3>1. tmp'[s] = tmp[s] /\ pc'[s] = pc[s] /\ want'[s] = want[s]
      BY <1>3, <1>4, <2>2
    <3> QED BY <3>1 DEF ReaderInv
  <2> QED BY <2>1, <2>2
<1>12. cur' \in Task
  BY <1>3 DEF Runnable
<1>13. ReaderInv'
  BY <1>10, <1>11, <1>12, LineKept DEF ReaderInv
<1> QED BY <1>3, <1>4, <1>8, <1>13


\* A reader that goes on in the kernel is the only one who could be about to
\* take a byte.
LEMMA OneTaker ==
  ASSUME TextInv, NEW r \in Reader, cur = r, pc[r] # "take",
         NEW s \in Reader
  PROVE  pc[s] # "take"
BY DEF TextInv

\* getc(): a byte is read with a unit of the semaphore or with the one that
\* irq4_handler() has handed over, or the reader waits.
LEMMA GetcStep ==
  ASSUME InputAssumption, InputInv, NEW r \in Reader, getc(r)
  PROVE  InputInv'
<1>1. /\ cur = r /\ pc[r] \in {"fill", "fillGot"}
      /\ UNCHANGED <<uart, pending, timeout, text, want, in_service, acking, halted, textQ, overrun>>
  BY DEF getc, Running
<1>2. PICK b : b = serial
  OBVIOUS
<1>3. /\ SerialSize \in Nat \ {0} /\ b \in BufferType(SerialSize)
      /\ b.blocked \in Seq(Reader) /\ b.count \in Nat /\ pc \in [Reader -> Stage]
      /\ IsFiniteSet(Reader)
  BY <1>2 DEF InputAssumption, InputInv, SerialInv, ReaderInv, BufferType
<1>4. PICK m, A : m = ringbuffer_unread(b) /\ A = At(pc, "fillGot")
  OBVIOUS
<1>5. /\ m \in Nat /\ IsFiniteSet(A) /\ Cardinality(A) \in Nat
      /\ Held(b) = << >> <=> m = 0
  <2>1. m \in Nat /\ (Held(b) = << >> <=> m = 0)
    BY <1>3, <1>4, UnreadFacts
  <2>2. IsFiniteSet(A)
    BY <1>3, <1>4, FS_Subset DEF At
  <2>3. Cardinality(A) \in Nat
    BY <2>2, FS_CardinalityType
  <2> QED BY <2>1, <2>2, <2>3
<1>6. /\ "serial" \in overrun \/ Held(b) = serialQ
      /\ "serial" \in overrun \/ b.count + Cardinality(A) = m
  BY <1>2, <1>4 DEF InputInv, SerialInv, SerialInOrder
<1>7. /\ \A i \in 1..Len(b.blocked) :
           /\ pc[b.blocked[i]] = "fillWait"
           /\ \A j \in 1..Len(b.blocked) : b.blocked[i] = b.blocked[j] => i = j
      /\ b.blocked # << >> => b.count = 0
  BY <1>2 DEF InputInv, SerialInv
<1>8. CASE /\ pc[r] = "fill" /\ b.count > 0 /\ serial' = Taken(b)
           /\ serialQ' = Unqueued(serialQ) /\ Edit(r, ByteAt(b))
  <2>1. PICK w : w = Taken(b)
    OBVIOUS
  <2>2. /\ w \in BufferType(SerialSize) /\ w.count = b.count - 1 /\ w.blocked = b.blocked
        /\ m # 0 => ringbuffer_unread(w) = m - 1 /\ Held(w) = Tail(Held(b))
    BY <1>3, <1>4, <1>8, <2>1, TakeFacts
  <2>3. ByteAt(b) \in Cell
    BY <1>3, AdvanceFacts
  <2>4. /\ ReaderInv' /\ pc' = [pc EXCEPT ![r] = pc'[r]] /\ pc'[r] \in {"flush", "fill"}
    BY <1>1, <1>8, <2>3, EditStep DEF InputInv
  <2>5. At(pc', "fillGot") = A
    BY <1>3, <1>4, <1>8, <2>4 DEF At
  <2>6. "serial" \notin overrun =>
          /\ Held(w) = serialQ' /\ w.count + Cardinality(A) = ringbuffer_unread(w)
    <3> SUFFICES ASSUME "serial" \notin overrun
                 PROVE  Held(w) = serialQ' /\ w.count + Cardinality(A) = ringbuffer_unread(w)
      OBVIOUS
    <3>1. m # 0 /\ b.count + Cardinality(A) = m
      BY <1>3, <1>5, <1>6, <1>8
    <3>2. w.count + Cardinality(A) = ringbuffer_unread(w)
      BY <1>3, <1>5, <2>2, <3>1
    <3> QED BY <1>5, <1>6, <1>8, <2>2, <3>1, <3>2 DEF Unqueued
  <2>7. w.blocked # << >> => w.count = 0
    BY <1>7, <1>8, <2>2
  <2>8. \A i \in 1..Len(w.blocked) : pc'[w.blocked[i]] = "fillWait"
    BY <1>3, <1>7, <1>8, <2>2, <2>4
  <2>9. SerialInOrder'
    BY <1>1, <1>8, <2>1, <2>6 DEF SerialInOrder
  <2>10. SerialInv'
    BY <1>1, <1>7, <1>8, <2>1, <2>2, <2>5, <2>6, <2>7, <2>8, <2>9 DEF SerialInv
  <2>11. \A s \in Reader : pc'[s] \notin {"take", "takeWait", "takeGot"}
    BY <1>1, <1>3, <1>8, <2>4, OneTaker DEF InputInv, TextInv
  <2>12. TextInv'
    BY <1>1, <2>11, TextKept DEF InputInv, TextInv
  <2> QED BY <2>4, <2>10, <2>12 DEF InputInv
<1>9. CASE /\ pc[r] = "fillGot" /\ serial' = Advanced(b)
           /\ serialQ' = Unqueued(serialQ) /\ Edit(r, ByteAt(b))
  <2>1. PICK w : w = Advanced(b)
    OBVIOUS
  <2>2. /\ w \in BufferType(SerialSize) /\ w.count = b.count /\ w.blocked = b.blocked
        /\ m # 0 => ringbuffer_unread(w) = m - 1 /\ Held(w) = Tail(Held(b))
        /\ ByteAt(b) \in Cell
    BY <1>3, <1>4, <2>1, AdvanceFacts
  <2>4. /\ ReaderInv' /\ pc' = [pc EXCEPT ![r] = pc'[r]] /\ pc'[r] \in {"flush", "fill"}
    BY <1>1, <1>9, <2>2, EditStep DEF InputInv
  <2>5. PICK B : B = At(pc', "fillGot")
    OBVIOUS
  <2>6. B = A \ {r} /\ r \in A
    BY <1>3, <1>4, <1>9, <2>4, <2>5 DEF At
  <2>7. Cardinality(A \ {r}) = Cardinality(A) - 1
    BY <1>5, <2>6, FS_RemoveElement
  <2>14. Cardinality(A) # 0
    <3>1. A # {}
      BY <2>6
    <3> QED BY <1>5, <3>1, FS_EmptySet
  <2>8. "serial" \notin overrun =>
          /\ Held(w) = serialQ' /\ w.count + Cardinality(B) = ringbuffer_unread(w)
    <3> SUFFICES ASSUME "serial" \notin overrun
                 PROVE  Held(w) = serialQ' /\ w.count + Cardinality(B) = ringbuffer_unread(w)
      OBVIOUS
    <3>1. m # 0 /\ Cardinality(B) = Cardinality(A) - 1
      BY <1>3, <1>5, <1>6, <2>6, <2>7, <2>14
    <3>2. w.count + Cardinality(B) = ringbuffer_unread(w)
      BY <1>3, <1>5, <1>6, <2>2, <3>1
    <3> QED BY <1>5, <1>6, <1>9, <2>2, <3>1, <3>2 DEF Unqueued
  <2>9. \A i \in 1..Len(w.blocked) : pc'[w.blocked[i]] = "fillWait"
    BY <1>3, <1>7, <1>9, <2>2, <2>4
  <2>10. SerialInOrder'
    BY <1>1, <1>9, <2>1, <2>8 DEF SerialInOrder
  <2>11. SerialInv'
    BY <1>1, <1>7, <1>9, <2>1, <2>2, <2>5, <2>8, <2>9, <2>10 DEF SerialInv
  <2>12. \A s \in Reader : pc'[s] \notin {"take", "takeWait", "takeGot"}
    BY <1>1, <1>3, <1>9, <2>4, OneTaker DEF InputInv, TextInv
  <2>13. TextInv'
    BY <1>1, <2>12, TextKept DEF InputInv, TextInv
  <2> QED BY <2>4, <2>11, <2>13 DEF InputInv
<1>10. CASE /\ pc[r] = "fill" /\ b.count = 0 /\ serial' = Waiting(b, r)
            /\ pc' = [pc EXCEPT ![r] = "fillWait"] /\ SwitchedAway(pc')
            /\ UNCHANGED <<tmp, serialQ>>
  <2>1. PICK w : w = Waiting(b, r)
    OBVIOUS
  <2>2. /\ w \in BufferType(SerialSize) /\ w.count = b.count
        /\ w.blocked = Append(b.blocked, r)
        /\ w.buffer = b.buffer /\ w.write_head = b.write_head
        /\ w.read_head = b.read_head /\ w.size = b.size
    <3>1. Append(b.blocked, r) \in Seq(Reader)
      BY <1>3
    <3> QED BY <1>3, <2>1, <3>1 DEF Waiting, BufferType
  <2>3. ringbuffer_unread(w) = m
    BY <1>4, <2>2 DEF ringbuffer_unread
  <2>4. Held(w) = Held(b)
    BY <1>4, <2>2, <2>3 DEF Held
  <2>5. At(pc', "fillGot") = A
    BY <1>3, <1>4, <1>10 DEF At
  <2>6. SerialInOrder'
    BY <1>1, <1>6, <1>10, <2>1, <2>4 DEF SerialInOrder
  <2>7. PICK s, t : s = b.blocked /\ t = w.blocked
    OBVIOUS
  <2>8. /\ s \in Seq(Reader) /\ t = Append(s, r) /\ Len(s) \in Nat /\ Len(t) = Len(s) + 1
        /\ t[Len(s) + 1] = r /\ \A i \in 1..Len(s) : t[i] = s[i] /\ s[i] # r
    BY <1>3, <1>7, <1>10, <2>2, <2>7
  <2>9. ASSUME NEW i \in 1..Len(t)
        PROVE  /\ pc'[t[i]] = "fillWait"
               /\ \A j \in 1..Len(t) : t[i] = t[j] => i = j
    <3>1. i \in 1..Len(s) \/ i = Len(s) + 1
      BY <2>8
    <3>2. pc'[t[i]] = "fillWait"
      BY <1>3, <1>7, <1>10, <2>7, <2>8, <3>1
    <3>3. ASSUME NEW j \in 1..Len(t), t[i] = t[j] PROVE i = j
      <4>1. j \in 1..Len(s) \/ j = Len(s) + 1
        BY <2>8
      <4> QED BY <1>7, <2>7, <2>8, <3>1, <3>3, <4>1
    <3> QED BY <3>2, <3>3
  <2>10. SerialInv'
    BY <1>1, <1>6, <1>10, <2>1, <2>2, <2>3, <2>5, <2>6, <2>7, <2>9 DEF SerialInv
  <2>11. \A q \in Reader : pc'[q] \notin {"take", "takeWait", "takeGot"}
    BY <1>1, <1>3, <1>10, OneTaker DEF InputInv, TextInv
  <2>12. TextInv'
    BY <1>1, <2>11, TextKept DEF InputInv, TextInv
  <2>13. ReaderInv'
    <3>1. cur' \in Task \cup {Idle}
      BY <1>10 DEF SwitchedAway, Runnable
    <3>2. pc' \in [Reader -> Stage]
      BY <1>3, <1>10 DEF Stage
    <3>3. ASSUME NEW q \in Reader
          PROVE  /\ Len(tmp'[q]) <= TmpSize
                 /\ pc'[q] \in {"fill", "fillWait", "fillGot"} => Len(tmp'[q]) < TmpSize
                 /\ pc'[q] = "flush" => tmp'[q] # << >>
                 /\ pc'[q] \in {"user", "take"} => tmp'[q] = << >>
                 /\ pc'[q] # "user" => want'[q] # 0
      BY <1>1, <1>3, <1>10 DEF InputInv, ReaderInv
    <3> QED BY <1>1, <1>10, <3>1, <3>2, <3>3, LineKept DEF InputInv, ReaderInv
  <2> QED BY <2>10, <2>12, <2>13 DEF InputInv
<1> QED BY <1>2, <1>8, <1>9, <1>10 DEF getc


\* A byte of the line goes to text_buffer, for which nobody waits.
LEMMA FlushStep ==
  ASSUME InputAssumption, InputInv, NEW r \in Reader, Flush(r)
  PROVE  InputInv'
<1>1. PICK b, c : b = text /\ c = Head(tmp[r])
  OBVIOUS
<1>0. PICK w : w = ringbuffer_write_byte(b, c)
  OBVIOUS
<1>2. PICK next : next = IF Len(tmp[r]) = 1 THEN "take" ELSE "flush"
  OBVIOUS
<1>3. /\ TextSize \in Nat \ {0} /\ b \in BufferType(TextSize) /\ b.blocked = << >>
      /\ b.count \in Nat /\ pc \in [Reader -> Stage] /\ tmp \in [Reader -> Seq(Cell)]
      /\ want \in [Reader -> Nat] /\ TmpSize \in Nat \ {0}
  BY <1>1 DEF InputAssumption, InputInv, TextInv, ReaderInv, BufferType
<1>4. /\ cur = r /\ pc[r] = "flush" /\ text' = w
      /\ overrun' = overrun \cup Overruns(b, "text")
      /\ textQ' = IF "text" \in overrun' THEN << >> ELSE Append(textQ, c)
      /\ tmp' = [tmp EXCEPT ![r] = Tail(@)] /\ cur' = cur
      /\ UNCHANGED <<uart, pending, timeout, serial, want, in_service, acking, halted, serialQ>>
  BY <1>0, <1>1, <1>3 DEF Flush, Running, Queued
<1>5. pc' = [pc EXCEPT ![r] = next]
  BY <1>1, <1>2, <1>3 DEF Flush
<1>6. PICK old : old = tmp[r]
  OBVIOUS
<1>7. /\ old \in Seq(Cell) /\ old # << >> /\ Len(old) <= TmpSize /\ want[r] # 0
      /\ c \in Cell /\ Tail(old) \in Seq(Cell) /\ Len(Tail(old)) = Len(old) - 1
      /\ Len(old) \in Nat
  BY <1>1, <1>3, <1>4, <1>6 DEF InputInv, ReaderInv
<1>8. PICK m, v : m = ringbuffer_unread(b) /\ v = ringbuffer_unread(w)
  OBVIOUS
<1>9. w \in BufferType(TextSize) /\ w.count = b.count + 1 /\ w.blocked = << >>
  <2>1. w \in BufferType(TextSize) /\ Signalled(b, w)
    BY <1>0, <1>3, <1>7, WriteFields
  <2> QED BY <1>3, <2>1 DEF Signalled
<1>10. /\ m \in Nat /\ b.size = TextSize
       /\ m + 1 = TextSize => v = 0
       /\ m + 1 # TextSize => v = m + 1 /\ Held(w) = Append(Held(b), c)
  <2>1. m \in Nat /\ b.size = TextSize
    BY <1>3, <1>8, UnreadFacts DEF BufferType
  <2>2. m + 1 = TextSize => v = 0
    BY <1>0, <1>3, <1>7, <1>8, WriteFacts
  <2>3. m + 1 # TextSize => v = m + 1 /\ Held(w) = Append(Held(b), c)
    BY <1>0, <1>3, <1>7, <1>8, WriteFacts
  <2> QED BY <2>1, <2>2, <2>3
<1>11. /\ "text" \notin overrun' => "text" \notin overrun /\ m + 1 # TextSize
       /\ "text" \in overrun => "text" \in overrun'
       /\ "serial" \in overrun' <=> "serial" \in overrun
  BY <1>4, <1>8, <1>10 DEF Overruns
<1>12. /\ b.count >= m /\ ("text" \in overrun \/ b.count = m)
       /\ "text" \in overrun \/ Held(b) = textQ
  BY <1>1, <1>8 DEF InputInv, TextInv, TextInOrder
<1>13. next \in {"take", "flush"}
  BY <1>2
<1>14. SerialInv'
  BY <1>3, <1>4, <1>5, <1>11, <1>13, SerialKept DEF InputInv
<1>15. TextInv'
  <2>1. TextInOrder'
    <3>1. "text" \notin overrun' => Held(w) = textQ'
      BY <1>4, <1>10, <1>11, <1>12
    <3> QED BY <1>4, <3>1 DEF TextInOrder
  <2>2. w.count >= v
    BY <1>3, <1>9, <1>10, <1>12
  <2>3. "text" \notin overrun' => w.count = v /\ v # 0
    BY <1>3, <1>9, <1>10, <1>11, <1>12
  <2>4. \A s \in Reader : /\ pc'[s] \notin {"takeWait", "takeGot"}
                          /\ pc'[s] = "take" => s = r
    BY <1>3, <1>4, <1>5, <1>13, OneTaker DEF InputInv, TextInv
  <2>5. halted' => "text" \in overrun'
    BY <1>4, <1>11 DEF InputInv, TextInv
  <2> QED BY <1>4, <1>8, <1>9, <2>1, <2>2, <2>3, <2>4, <2>5 DEF TextInv
<1>16. ReaderInv'
  <2>1. pc' \in [Reader -> Stage] /\ tmp' \in [Reader -> Seq(Cell)]
    BY <1>3, <1>4, <1>5, <1>6, <1>7, <1>13 DEF Stage
  <2>2. ASSUME NEW s \in Reader
        PROVE  /\ Len(tmp'[s]) <= TmpSize
               /\ pc'[s] \in {"fill", "fillWait", "fillGot"} => Len(tmp'[s]) < TmpSize
               /\ pc'[s] = "flush" => tmp'[s] # << >>
               /\ pc'[s] \in {"user", "take"} => tmp'[s] = << >>
               /\ pc'[s] # "user" => want'[s] # 0
    <3>1. CASE s = r
      <4>1. tmp'[s] = Tail(old) /\ pc'[s] = next /\ want'[s] # 0
        BY <1>3, <1>4, <1>5, <1>6, <1>7, <3>1
      <4>2. Len(Tail(old)) <= TmpSize
        BY <1>3, <1>7
      <4>3. next = "take" <=> Tail(old) = << >>
        <5>1. PICK rest : rest = Tail(old)
          OBVIOUS
        <5>2. rest \in Seq(Cell) /\ Len(rest) = Len(old) - 1
          BY <1>7, <5>1
        <5>3. rest = << >> <=> Len(old) = 1
          BY <1>7, <5>2
        <5>4. next = "take" <=> Len(old) = 1
          BY <1>2, <1>6
        <5> QED BY <5>1, <5>3, <5>4
      <4> QED BY <1>13, <4>1, <4>2, <4>3
    <3>2. CASE s # r
      <4>1. tmp'[s] = tmp[s] /\ pc'[s] = pc[s] /\ want'[s] = want[s]
        BY <1>3, <1>4, <1>5, <3>2
      <4> QED BY <4>1 DEF InputInv, ReaderInv
    <3> QED BY <3>1, <3>2
  <2> QED BY <1>4, <2>1, <2>2, LineKept DEF InputInv, ReaderInv
<1> QED BY <1>14, <1>15, <1>16 DEF InputInv


\* buffer_getc(): there is a unit for every byte, so that nobody waits, and its
\* assertion only fails once text_buffer has been full.
LEMMA BufferGetcStep ==
  ASSUME InputAssumption, InputInv, NEW r \in Reader, buffer_getc(r)
  PROVE  InputInv'
<1>1. PICK b : b = text
  OBVIOUS
<1>2. /\ TextSize \in Nat \ {0} /\ b \in BufferType(TextSize) /\ b.blocked = << >>
      /\ b.count \in Nat /\ pc \in [Reader -> Stage] /\ want \in [Reader -> Nat]
  BY <1>1 DEF InputAssumption, InputInv, TextInv, ReaderInv, BufferType
<1>3. /\ cur = r /\ pc[r] = "take"
      /\ UNCHANGED <<uart, pending, timeout, serial, tmp, in_service, acking, serialQ, overrun>>
  BY DEF buffer_getc, Running, InputInv, TextInv
<1>4. PICK m : m = ringbuffer_unread(b)
  OBVIOUS
<1>5. m \in Nat /\ (Held(b) = << >> <=> m = 0)
  <2>1. m \in 0..TextSize - 1
    BY <1>2, <1>4, UnreadFacts
  <2>2. Held(b) = << >> <=> m = 0
    BY <1>2, <1>4, UnreadFacts
  <2> QED BY <1>2, <2>1, <2>2
<1>6. /\ b.count >= m /\ ("text" \in overrun \/ b.count = m)
      /\ "text" \in overrun \/ Held(b) = textQ
      /\ "text" \in overrun \/ m # 0
  BY <1>1, <1>3, <1>4 DEF InputInv, TextInv, TextInOrder
<1>7. CASE m = 0
  <2>1. /\ halted' = TRUE /\ UNCHANGED <<text, textQ, want, pc, cur>>
    BY <1>1, <1>3, <1>4, <1>7 DEF buffer_getc
  <2>2. SerialInv'
    BY <1>3, <2>1, SerialKept DEF InputInv
  <2>3. TextInv'
    BY <1>3, <1>6, <1>7, <2>1, TextKept DEF InputInv, TextInv
  <2>4. halted' \in BOOLEAN /\ in_service' \in BOOLEAN
    BY <1>3, <2>1 DEF InputInv, ReaderInv
  <2>5. ReaderInv'
    BY <1>3, <2>1, <2>4, LineKept DEF InputInv, ReaderInv
  <2> QED BY <2>2, <2>3, <2>5 DEF InputInv
<1>8. CASE m # 0
  <2>1. PICK w : w = Taken(b)
    OBVIOUS
  <2>2. b.count > 0
    BY <1>2, <1>5, <1>6, <1>8
  <2>3. /\ w \in BufferType(TextSize) /\ w.count = b.count - 1 /\ w.blocked = << >>
        /\ ringbuffer_unread(w) = m - 1 /\ Held(w) = Tail(Held(b))
    BY <1>2, <1>4, <1>8, <2>1, <2>2, TakeFacts
  <2>4. PICK next : next = IF want[r] = 1 THEN "user" ELSE Start(w)
    OBVIOUS
  <2>5. /\ text' = w /\ textQ' = Unqueued(textQ) /\ want' = [want EXCEPT ![r] = @ - 1]
        /\ pc' = [pc EXCEPT ![r] = next] /\ UNCHANGED <<cur, halted>>
    BY <1>1, <1>3, <1>4, <1>8, <2>1, <2>2, <2>4 DEF buffer_getc, Return
  <2>6. /\ next \in {"user", "fill", "take"}
        /\ next = "take" => ringbuffer_unread(w) # 0
        /\ next # "user" => want[r] # 1
    BY <2>4 DEF Start
  <2>7. /\ tmp[r] = << >> /\ want[r] \in Nat /\ want[r] # 0
    BY <1>2, <1>3 DEF InputInv, ReaderInv
  <2>8. SerialInv'
    BY <1>2, <1>3, <2>5, <2>6, SerialKept DEF InputInv
  <2>9. TextInv'
    <3>1. "text" \in overrun \/ Held(w) = textQ'
      BY <1>5, <1>6, <1>8, <2>3, <2>5 DEF Unqueued
    <3>2. TextInOrder'
      BY <1>3, <2>5, <3>1 DEF TextInOrder
    <3>3. /\ w.count >= ringbuffer_unread(w)
          /\ "text" \in overrun \/ w.count = ringbuffer_unread(w)
      BY <1>2, <1>5, <1>6, <2>3
    <3>4. \A s \in Reader :
            /\ pc'[s] \notin {"takeWait", "takeGot"}
            /\ pc'[s] = "take" => cur' = s /\ ringbuffer_unread(w) # 0
      BY <1>2, <1>3, <2>5, <2>6 DEF InputInv, TextInv
    <3>5. halted' => "text" \in overrun'
      BY <1>3, <2>5 DEF InputInv, TextInv
    <3> QED BY <1>3, <2>3, <2>5, <3>2, <3>3, <3>4, <3>5 DEF TextInv
  <2>10. ReaderInv'
    <3>1. pc' \in [Reader -> Stage] /\ want' \in [Reader -> Nat]
      BY <1>2, <2>5, <2>6, <2>7 DEF Stage
    <3>2. TmpSize \in Nat \ {0}
      BY DEF InputAssumption
    <3>3. ASSUME NEW s \in Reader
          PROVE  /\ Len(tmp'[s]) <= TmpSize
                 /\ pc'[s] \in {"fill", "fillWait", "fillGot"} => Len(tmp'[s]) < TmpSize
                 /\ pc'[s] = "flush" => tmp'[s] # << >>
                 /\ pc'[s] \in {"user", "take"} => tmp'[s] = << >>
                 /\ pc'[s] # "user" => want'[s] # 0
      <4>1. CASE s = r
        <5>1. tmp'[s] = << >> /\ pc'[s] = next /\ want'[s] = want[r] - 1
          BY <1>2, <1>3, <2>5, <2>7, <4>1
        <5>2. Len(tmp'[s]) = 0
          BY <5>1
        <5> QED BY <2>6, <2>7, <3>2, <5>1, <5>2
      <4>2. CASE s # r
        <5>1. tmp'[s] = tmp[s] /\ pc'[s] = pc[s] /\ want'[s] = want[s]
          BY <1>2, <1>3, <2>5, <4>2
        <5> QED BY <5>1 DEF InputInv, ReaderInv
      <4> QED BY <4>1, <4>2
    <3>4. halted' \in BOOLEAN /\ in_service' \in BOOLEAN
      BY <1>3, <2>5 DEF InputInv, ReaderInv
    <3> QED BY <1>3, <2>5, <3>1, <3>3, <3>4, LineKept DEF InputInv, ReaderInv
  <2> QED BY <2>8, <2>9, <2>10 DEF InputInv
<1> QED BY <1>7, <1>8

-----------------------------------------------------------------------------
(* The results.                                                             *)

LEMMA InitInv ==
  ASSUME InputAssumption, Init
  PROVE  InputInv
<1>1. /\ SerialSize \in Nat \ {0} /\ TextSize \in Nat \ {0} /\ TmpSize \in Nat \ {0}
      /\ IsFiniteSet(Reader)
  BY DEF InputAssumption
<1>2. ASSUME NEW n \in Nat \ {0}, NEW b, b = ringbuffer_init(n)
      PROVE  /\ b \in BufferType(n) /\ b.count = 0 /\ b.blocked = << >>
             /\ ringbuffer_unread(b) = 0 /\ Held(b) = << >>
  <2>1. /\ b.buffer = [i \in 0..n - 1 |-> NULL] /\ b.write_head = 0 /\ b.read_head = 0
        /\ b.size = n /\ b.count = 0 /\ b.blocked = << >>
    BY <1>2 DEF ringbuffer_init
  <2>2. b \in BufferType(n)
    BY <1>2 DEF ringbuffer_init, BufferType
  <2>3. ringbuffer_unread(b) = 0
    BY <2>1 DEF ringbuffer_unread
  <2> QED BY <2>1, <2>2, <2>3, UnreadFacts
<1>3. PICK s, t : s = serial /\ t = text
  OBVIOUS
<1>4. s = ringbuffer_init(SerialSize) /\ t = ringbuffer_init(TextSize)
  BY <1>3 DEF Init
<1>5. /\ s \in BufferType(SerialSize) /\ s.count = 0 /\ s.blocked = << >>
      /\ ringbuffer_unread(s) = 0 /\ Held(s) = << >>
  BY <1>1, <1>2, <1>4
<1>6. /\ t \in BufferType(TextSize) /\ t.count = 0 /\ t.blocked = << >>
      /\ ringbuffer_unread(t) = 0 /\ Held(t) = << >>
  BY <1>1, <1>2, <1>4
<1>7. SerialInv
  <2>1. At(pc, "fillGot") = {}
    BY DEF Init, At
  <2>2. Cardinality(At(pc, "fillGot")) = 0
    BY <2>1, FS_EmptySet
  <2> QED BY <1>3, <1>5, <2>2 DEF Init, SerialInv, SerialInOrder
<1>8. TextInv
  BY <1>3, <1>6 DEF Init, TextInv, TextInOrder
<1>9. ReaderInv
  <2>1. pc \in [Reader -> Stage] /\ \A r \in Reader : pc[r] = "user"
    BY DEF Init, Stage
  <2>2. /\ tmp \in [Reader -> Seq(Cell)] /\ want \in [Reader -> Nat]
        /\ \A r \in Reader : tmp[r] = << >> /\ Len(tmp[r]) = 0
    BY DEF Init
  <2>3. cur \in Task /\ acking = NULL /\ in_service = FALSE /\ halted = FALSE
    BY DEF Init, Task
  <2>4. uart \in Seq(Byte)
    BY DEF Init
  <2>7. LineInv
    <3>1. pending = FALSE /\ timeout = FALSE
      BY DEF Init
    <3>2. pending \in BOOLEAN /\ timeout \in BOOLEAN
      BY <3>1
    <3> QED BY <3>1, <3>2 DEF LineInv
  <2>5. \A r \in Reader : Len(tmp[r]) <= TmpSize /\ Len(tmp[r]) < TmpSize
    BY <1>1, <2>2
  <2>6. in_service \in BOOLEAN /\ halted \in BOOLEAN
    BY <2>3
  <2> QED BY <2>1, <2>2, <2>3, <2>4, <2>5, <2>6, <2>7 DEF ReaderInv
<1> QED BY <1>7, <1>8, <1>9 DEF InputInv

\* The invariant of the line and its readers is inductive.
LEMMA NextInv ==
  ASSUME InputAssumption, InputInv, [Next]_inputVars
  PROVE  InputInv'
<1>1. CASE UNCHANGED inputVars
  BY <1>1, QuietStep
<1>2. CASE Next
  <2>1. CASE \E r \in Reader : Kernel(r)
    BY <2>1, TtyReadStep, GetcStep, FlushStep, BufferGetcStep DEF Kernel
  <2>2. CASE irq4_handler
    BY <2>2, Irq4Step
  <2>3. CASE \/ \E c \in Byte : Type(c)
             \/ CharTimeout
             \/ irq_ack
             \/ \E t \in Task : SwitchTo(t)
             \/ Sleep
    BY <2>3, QuietStep
  <2>4. CASE Stopped
    BY <2>4, QuietStep DEF Stopped
  <2> QED BY <1>2, <2>1, <2>2, <2>3, <2>4 DEF Next
<1> QED BY <1>1, <1>2

\* The line, text_buffer and their readers: the inductive invariant holds.
THEOREM InputSafe == Spec => []InputInv
<1>1. InputAssumption
  BY InputAssumption
<1>2. Init => InputInv
  BY <1>1, InitInv
<1>3. InputInv /\ [Next]_inputVars => InputInv'
  BY <1>1, NextInv
<1> QED BY <1>2, <1>3, PTL DEF Spec

\* Until a ring buffer has been filled up, every byte passes it once and in
\* order, and its semaphore counts the bytes, for any number of readers.
THEOREM BytesArrive == Spec => []BytesInOrder
<1>1. ASSUME InputInv PROVE BytesInOrder
  <2>1. InputTypeOK
    <3>1. {pending, timeout, in_service, halted} \subseteq BOOLEAN
      BY <1>1 DEF InputInv, ReaderInv, LineInv
    <3> QED BY <1>1, <3>1 DEF InputInv, SerialInv, TextInv, ReaderInv, InputTypeOK, Stage
  <2>2. Got("fillGot") = Cardinality(At(pc, "fillGot")) /\ Got("takeGot") = 0
    <3>1. {r \in Reader : pc[r] = "takeGot"} = {}
      BY <1>1 DEF InputInv, TextInv
    <3>2. Got("takeGot") = 0
      BY <3>1, FS_EmptySet DEF Got
    <3> QED BY <3>2 DEF Got, At
  <2>3. text.count \in Nat
    BY <1>1 DEF InputInv, TextInv, BufferType
  <2>4. UnitsMatchBytes
    BY <1>1, <2>2, <2>3 DEF InputInv, SerialInv, TextInv, UnitsMatchBytes
  <2> QED BY <1>1, <2>1, <2>4 DEF InputInv, SerialInv, TextInv, BytesInOrder
<1>2. InputInv => BytesInOrder
  BY <1>1
<1> QED BY <1>2, InputSafe, PTL

\* The assertion of buffer_getc() fails only after text_buffer has been filled,
\* and irq_handler() always finds that irq4_handler() had a byte.
THEOREM AssertionHolds == Spec => []StopsOnlyOnFullBuffer
<1>1. InputInv => StopsOnlyOnFullBuffer
  BY DEF InputInv, TextInv, StopsOnlyOnFullBuffer
<1> QED BY <1>1, InputSafe, PTL
=============================================================================
