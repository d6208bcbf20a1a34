----------------------------- MODULE NetProofs -----------------------------
(***************************************************************************)
(* The rings of the network card and the units of rx_sem, for rings of     *)
(* every size and every set of frames.                                     *)
(***************************************************************************)
EXTENDS Net, Facts, FiniteSetTheorems, TLAPS

-----------------------------------------------------------------------------
(* The inductive invariant.                                                 *)

Descriptor == Frames \cup {Empty}

\* The card, with its registers in range.
CardFields(c) ==
  /\ c = [rx |-> c.rx, rxHead |-> c.rxHead, rxTail |-> c.rxTail,
          tx |-> c.tx, txHead |-> c.txHead, txTail |-> c.txTail, cause |-> c.cause]
  /\ c.rx \in Cells(NumRx, Descriptor)
  /\ c.rxHead \in 0..NumRx - 1 /\ c.rxTail \in 0..NumRx - 1
  /\ c.tx = [i \in 0..NumTx - 1 |-> c.tx[i]]
  /\ c.txHead \in 0..NumTx - 1 /\ c.txTail \in 0..NumTx - 1
  /\ c.cause \subseteq {"rx", "overrun"}

\* The descriptor that the next round of the handler's loop has to find, after
\* the one that a suspended handler is to give back.
First(c, s) ==
  IF s = {} THEN Succ(NumRx, c.rxTail) ELSE Succ(NumRx, Succ(NumRx, c.rxTail))

\* Exactly the descriptors from r up to w hold a frame.
Occupied(rx, r, w) ==
  \A i \in 0..NumRx - 1 : rx[i] # Empty <=> Dist(NumRx, r, i) < Dist(NumRx, r, w)

\* At most one handler is suspended, over the descriptor after the tail.
OneSuspended ==
  suspended # {} =>
    /\ \E o \in BOOLEAN : suspended = {[index |-> Succ(NumRx, card.rxTail), overrun |-> o]}
    /\ card.rxHead # Succ(NumRx, card.rxTail)

\* What is between the tail and the head is what nobody has taken.
RxInv ==
  /\ OneSuspended
  /\ Occupied(card.rx, First(card, suspended), card.rxHead)
  /\ pending = rx_queue \o Ring(NumRx, card.rx, First(card, suspended), card.rxHead)

TxInv == unsent = Ring(NumTx, card.tx, card.txHead, card.txTail)

\* Who is told of it.
CpuInv ==
  /\ cpu \in {"task", "idle", "net", "irq"}
  /\ irq \in [from : {"task", "idle"}, overrun : BOOLEAN]
  /\ net \in {"blocked", "woken", "ready"}
  /\ packet \in Descriptor
  /\ gateway_mac \in Macs \cup {NULL}
  /\ halted \in BOOLEAN
  /\ card.rxHead # First(card, suspended) =>
       halted \/ "rx" \in card.cause \/ cpu = "irq" \/ suspended # {}

\* How much of it there is.
QueueInv ==
  /\ rx_queue \in Seq(Frames) /\ pending \in Seq(Frames)
  /\ Len(pending) <= MaxPending
  /\ rx_count \in Nat
  /\ UnitsMatchPackets

NetInv == CardFields(card) /\ RxInv /\ TxInv /\ CpuInv /\ QueueInv

-----------------------------------------------------------------------------
(* The receive ring.                                                        *)

\* A frame at the head is one more.
LEMMA OccupyNext ==
  ASSUME NetAssumption, NEW rx \in Cells(NumRx, Descriptor), NEW f \in Frames,
         NEW r \in 0..NumRx - 1, NEW w \in 0..NumRx - 1,
         Dist(NumRx, r, w) + 1 # NumRx, Occupied(rx, r, w)
  PROVE  Occupied(Put(rx, w, f), r, Succ(NumRx, w))
<1>1. PICK g : g = Put(rx, w, f)
  OBVIOUS
<1>2. PICK m : m = Dist(NumRx, r, w)
  OBVIOUS
<1>3. NumRx \in Nat \ {0} /\ Empty # f
  BY DEF NetAssumption
<1>4. m \in 0..NumRx - 1 /\ m + 1 # NumRx
  BY <1>2, <1>3, DistType
<1>5. Dist(NumRx, r, Succ(NumRx, w)) = m + 1
  BY <1>2, <1>3, <1>4, DistWrite
<1>6. ASSUME NEW i \in 0..NumRx - 1
      PROVE  g[i] # Empty <=> Dist(NumRx, r, i) < m + 1
  <2>1. Dist(NumRx, r, i) = m <=> i = w
    BY <1>2, <1>3 DEF Dist
  <2>2. g[i] = IF i = w THEN f ELSE rx[i]
    BY <1>1 DEF Put, Cells
  <2>3. rx[i] # Empty <=> Dist(NumRx, r, i) < m
    BY <1>2 DEF Occupied
  <2>4. Dist(NumRx, r, i) \in 0..NumRx - 1
    BY <1>3, DistType
  <2> QED BY <1>3, <1>4, <2>1, <2>2, <2>3, <2>4
<1> QED BY <1>1, <1>5, <1>6 DEF Occupied

\* The first of them is taken.
LEMMA FreeFirst ==
  ASSUME NetAssumption, NEW rx \in Cells(NumRx, Descriptor),
         NEW r \in 0..NumRx - 1, NEW w \in 0..NumRx - 1,
         rx[r] # Empty, Occupied(rx, r, w)
  PROVE  /\ Dist(NumRx, r, w) # 0
         /\ Occupied(Put(rx, r, Empty), Succ(NumRx, r), w)
<1>1. PICK g : g = Put(rx, r, Empty)
  OBVIOUS
<1>2. PICK m : m = Dist(NumRx, r, w)
  OBVIOUS
<1>3. NumRx \in Nat \ {0}
  BY DEF NetAssumption
<1>4. m \in 0..NumRx - 1
  BY <1>2, <1>3, DistType
<1>5. Dist(NumRx, r, r) = 0
  BY <1>3 DEF Dist
<1>6. m # 0
  BY <1>2, <1>4, <1>5 DEF Occupied
<1>7. Dist(NumRx, Succ(NumRx, r), w) = m - 1
  BY <1>2, <1>3, <1>6, DistRead
<1>8. ASSUME NEW i \in 0..NumRx - 1
      PROVE  g[i] # Empty <=> Dist(NumRx, Succ(NumRx, r), i) < m - 1
  <2>1. PICK d : d = Dist(NumRx, r, i)
    OBVIOUS
  <2>2. d \in 0..NumRx - 1 /\ (d = 0 <=> i = r)
    BY <1>3, <2>1 DEF Dist
  <2>3. g[i] = IF i = r THEN Empty ELSE rx[i]
    BY <1>1 DEF Put, Cells
  <2>4. rx[i] # Empty <=> d < m
    BY <1>2, <2>1 DEF Occupied
  <2>5. Dist(NumRx, Succ(NumRx, r), i) = IF d = 0 THEN NumRx - 1 ELSE d - 1
    BY <1>3, <2>1, DistRead
  <2> QED BY <1>3, <1>4, <2>2, <2>3, <2>4, <2>5
<1> QED BY <1>1, <1>2, <1>6, <1>7, <1>8 DEF Occupied

\* The frames that nobody has taken are those of the card from First on.
LEMMA FirstFacts ==
  ASSUME NetAssumption, CardFields(card), OneSuspended
  PROVE  /\ First(card, suspended) \in 0..NumRx - 1
         /\ card.rxHead # card.rxTail =>
              Dist(NumRx, First(card, suspended), card.rxHead) + 1 # NumRx
<1>1. PICK n, t, h : n = NumRx /\ t = card.rxTail /\ h = card.rxHead
  OBVIOUS
<1>2. n \in Nat /\ n > 1 /\ t \in 0..n - 1 /\ h \in 0..n - 1
  BY <1>1 DEF NetAssumption, CardFields
<1>3. CASE suspended = {}
  <2>1. First(card, suspended) = Succ(n, t)
    BY <1>1, <1>3 DEF First
  <2>2. Succ(n, t) \in 0..n - 1 /\ (h # t => Dist(n, Succ(n, t), h) + 1 # n)
    BY <1>2 DEF Succ, Dist
  <2> QED BY <1>1, <2>1, <2>2
<1>4. CASE suspended # {}
  <2>1. First(card, suspended) = Succ(n, Succ(n, t)) /\ h # Succ(n, t)
    BY <1>1, <1>4 DEF First, OneSuspended
  <2>2. /\ Succ(n, Succ(n, t)) \in 0..n - 1
        /\ h # Succ(n, t) => Dist(n, Succ(n, Succ(n, t)), h) + 1 # n
    BY <1>2 DEF Succ, Dist
  <2> QED BY <1>1, <2>1, <2>2
<1> QED BY <1>3, <1>4


LEMMA RxNextFacts ==
  ASSUME NetAssumption, NEW i \in 0..NumRx - 1
  PROVE  RxNext(i) = Succ(NumRx, i) /\ Succ(NumRx, i) \in 0..NumRx - 1
<1>1. NumRx \in Nat \ {0}
  BY DEF NetAssumption
<1> QED BY <1>1, SuccFacts DEF RxNext

-----------------------------------------------------------------------------
(* What a step leaves alone.                                                *)

SameRing(c, d) == d.rx = c.rx /\ d.rxHead = c.rxHead /\ d.rxTail = c.rxTail
SameSends(c, d) == d.tx = c.tx /\ d.txHead = c.txHead /\ d.txTail = c.txTail

LEMMA FirstKept ==
  ASSUME NEW c, NEW d, NEW s, SameRing(c, d)
  PROVE  First(d, s) = First(c, s)
BY DEF First, SameRing

LEMMA RxKept ==
  ASSUME RxInv, SameRing(card, card'), UNCHANGED <<suspended, rx_queue, pending>>
  PROVE  RxInv'
<1>1. First(card', suspended) = First(card, suspended)
  BY FirstKept
<1>2. OneSuspended'
  BY DEF RxInv, OneSuspended, SameRing
<1>3. Occupied(card'.rx, First(card', suspended), card'.rxHead)
  BY <1>1 DEF RxInv, SameRing
<1>4. pending = rx_queue \o Ring(NumRx, card'.rx, First(card', suspended), card'.rxHead)
  BY <1>1 DEF RxInv, SameRing
<1> QED BY <1>2, <1>3, <1>4 DEF RxInv

LEMMA TxKept ==
  ASSUME TxInv, SameSends(card, card'), UNCHANGED unsent
  PROVE  TxInv'
BY DEF TxInv, SameSends

\* A step that reads no descriptor and writes none.
LEMMA CardKept ==
  ASSUME CardFields(card), RxInv, TxInv,
         UNCHANGED <<card, suspended, rx_queue, pending, unsent>>
  PROVE  CardFields(card') /\ RxInv' /\ TxInv' /\ First(card', suspended') = First(card, suspended)
<1>1. SameRing(card, card') /\ SameSends(card, card')
  BY DEF SameRing, SameSends
<1>2. RxInv' /\ TxInv'
  BY <1>1, RxKept, TxKept
<1>3. First(card', suspended') = First(card, suspended)
  BY <1>1, FirstKept
<1>4. CardFields(card')
  BY DEF CardFields
<1> QED BY <1>2, <1>3, <1>4

-----------------------------------------------------------------------------
(* The card.                                                                *)

LEMMA ReceiveStep ==
  ASSUME NetAssumption, NetInv, NEW f \in Arrivals, CardReceive(f)
  PROVE  NetInv'
<1>1. f \in Frames /\ Len(pending) # MaxPending
  BY DEF Arrivals
<1>2. PICK c, d : c = card /\ d = card'
  OBVIOUS
<1>3. CardFields(c) /\ c.rxHead \in 0..NumRx - 1 /\ NumRx \in Nat \ {0}
  BY <1>2 DEF NetInv, CardFields, NetAssumption
<1>4. CASE c.rxHead # c.rxTail
  <2>1. /\ d = [c EXCEPT !.rx[c.rxHead] = f, !.rxHead = RxNext(@), !.cause = @ \cup {"rx"}]
        /\ pending' = Append(pending, f)
    BY <1>2, <1>4 DEF CardReceive
  <2>2. RxNext(c.rxHead) = Succ(NumRx, c.rxHead) /\ Succ(NumRx, c.rxHead) \in 0..NumRx - 1
    BY <1>3, RxNextFacts
  <2>3. /\ d.rx = Put(c.rx, c.rxHead, f) /\ d.rxHead = Succ(NumRx, c.rxHead)
        /\ d.rxTail = c.rxTail /\ d.cause = c.cause \cup {"rx"}
        /\ SameSends(c, d)
    BY <1>3, <2>1, <2>2 DEF CardFields, Put, SameSends
  <2>4. CardFields(d)
    <3>1. d.rx \in Cells(NumRx, Descriptor)
      BY <1>1, <1>3, <2>3 DEF CardFields, Put, Cells, Descriptor
    <3>2. d = [rx |-> d.rx, rxHead |-> d.rxHead, rxTail |-> d.rxTail,
               tx |-> d.tx, txHead |-> d.txHead, txTail |-> d.txTail, cause |-> d.cause]
      BY <1>3, <2>1 DEF CardFields
    <3> QED BY <1>3, <2>2, <2>3, <3>1, <3>2 DEF CardFields, SameSends
  <2>5. PICK r : r = First(c, suspended)
    OBVIOUS
  <2>6. r = First(d, suspended)
    BY <2>3, <2>5 DEF First
  <2>7. r \in 0..NumRx - 1 /\ Dist(NumRx, r, c.rxHead) + 1 # NumRx
    BY <1>2, <1>3, <1>4, <2>5, FirstFacts DEF NetInv, RxInv
  <2>8. Occupied(d.rx, r, d.rxHead)
    <3>1. Occupied(c.rx, r, c.rxHead) /\ c.rx \in Cells(NumRx, Descriptor)
      BY <1>2, <1>3, <2>5 DEF NetInv, RxInv, CardFields
    <3>2. Occupied(Put(c.rx, c.rxHead, f), r, Succ(NumRx, c.rxHead))
      BY <1>1, <1>3, <2>7, <3>1, OccupyNext
    <3> QED BY <2>3, <3>2
  <2>9. pending' = rx_queue \o Ring(NumRx, d.rx, r, d.rxHead)
    <3>1. PICK g, p : g = c.rx /\ p = Ring(NumRx, c.rx, r, c.rxHead)
      OBVIOUS
    <3>2. g \in Cells(NumRx, Descriptor) /\ f \in Descriptor
      BY <1>1, <1>3, <3>1 DEF CardFields, Descriptor
    <3>3. Ring(NumRx, d.rx, r, d.rxHead) = Append(p, f)
      <4>1. PICK h : h = c.rxHead
        OBVIOUS
      <4>2. Ring(NumRx, Put(g, h, f), r, Succ(NumRx, h)) = Append(Ring(NumRx, g, r, h), f)
        BY <1>3, <2>7, <3>2, <4>1, RingWrite
      <4> QED BY <2>3, <3>1, <4>1, <4>2
    <3>4. Lists(p, NumRx, Descriptor, g, r, c.rxHead)
      BY <1>3, <2>7, <3>1, <3>2, RingFacts
    <3>5. p \in Seq(Descriptor) /\ rx_queue \in Seq(Descriptor)
      BY <3>4 DEF Lists, NetInv, QueueInv, Descriptor
    <3>6. pending = rx_queue \o p
      BY <1>2, <2>5, <3>1 DEF NetInv, RxInv
    <3>7. Append(rx_queue \o p, f) = rx_queue \o Append(p, f)
      <4>1. PICK q : q = rx_queue
        OBVIOUS
      <4>2. q \in Seq(Descriptor) /\ p \in Seq(Descriptor) /\ f \in Descriptor
        BY <3>2, <3>5, <4>1
      <4>3. Append(q \o p, f) = q \o Append(p, f)
        BY <4>2
      <4> QED BY <4>1, <4>3
    <3> QED BY <2>1, <3>3, <3>6, <3>7
  <2>10. suspended' = suspended /\ rx_queue' = rx_queue
    BY DEF CardReceive
  <2>11. RxInv'
    <3>1. OneSuspended'
      <4>1. suspended # {} => d.rxHead # Succ(NumRx, c.rxTail)
        BY <1>3, <1>4, <2>3 DEF CardFields, Succ
      <4> QED BY <1>2, <2>3, <2>10, <4>1 DEF NetInv, RxInv, OneSuspended
    <3> QED BY <1>2, <2>6, <2>8, <2>9, <2>10, <3>1 DEF RxInv
  <2>12. TxInv'
    BY <1>2, <2>3, TxKept DEF NetInv, CardReceive
  <2>13. CpuInv'
    BY <1>2, <2>3 DEF NetInv, CpuInv, CardReceive
  <2>14. QueueInv'
    <3>1. pending' \in Seq(Frames) /\ Len(pending') = Len(pending) + 1
      BY <1>1, <2>1 DEF NetInv, QueueInv
    <3>2. Len(pending') <= MaxPending
      BY <1>1, <3>1 DEF NetInv, QueueInv, NetAssumption
    <3> QED BY <3>1, <3>2 DEF NetInv, QueueInv, UnitsMatchPackets, CardReceive
  <2> QED BY <1>2, <2>4, <2>11, <2>12, <2>13, <2>14 DEF NetInv
<1>5. CASE c.rxHead = c.rxTail
  <2>1. /\ d = [c EXCEPT !.cause = @ \cup {"overrun"}]
        /\ pending' = pending
    BY <1>2, <1>5 DEF CardReceive
  <2>2. SameRing(c, d) /\ SameSends(c, d) /\ d.cause = c.cause \cup {"overrun"}
    BY <1>3, <2>1 DEF CardFields, SameRing, SameSends
  <2>3. CardFields(d)
    <3>1. d = [rx |-> d.rx, rxHead |-> d.rxHead, rxTail |-> d.rxTail,
               tx |-> d.tx, txHead |-> d.txHead, txTail |-> d.txTail, cause |-> d.cause]
      BY <1>3, <2>1 DEF CardFields
    <3> QED BY <1>3, <2>2, <3>1 DEF CardFields, SameSends, SameRing
  <2>4. RxInv'
    BY <1>2, <2>1, <2>2, RxKept DEF NetInv, CardReceive
  <2>5. TxInv'
    BY <1>2, <2>2, TxKept DEF NetInv, CardReceive
  <2>6. CpuInv'
    <3>1. First(d, suspended) = First(c, suspended)
      BY <2>2, FirstKept
    <3> QED BY <1>2, <2>2, <3>1 DEF NetInv, CpuInv, CardReceive, SameRing
  <2>7. QueueInv'
    BY <2>1 DEF NetInv, QueueInv, UnitsMatchPackets, CardReceive
  <2> QED BY <1>2, <2>3, <2>4, <2>5, <2>6, <2>7 DEF NetInv
<1> QED BY <1>4, <1>5


\* The ring for sending is a ring of whatever it holds.
LEMMA TxCells ==
  ASSUME NetAssumption, NEW c, CardFields(c), NEW x
  PROVE  \E S : c.tx \in Cells(NumTx, S) /\ x \in S
<1> DEFINE S == {c.tx[i] : i \in 0..NumTx - 1} \cup {x}
<1>1. c.tx \in Cells(NumTx, S)
  BY DEF CardFields, Cells
<1>2. x \in S
  OBVIOUS
<1> HIDE DEF S
<1> QED BY <1>1, <1>2

LEMMA SendStep ==
  ASSUME NetAssumption, NetInv, CardSend
  PROVE  NetInv'
<1>1. PICK c, d : c = card /\ d = card'
  OBVIOUS
<1>2. PICK n, h, t : n = NumTx /\ h = c.txHead /\ t = c.txTail
  OBVIOUS
<1>3. CardFields(c) /\ n \in Nat \ {0} /\ h \in 0..n - 1 /\ t \in 0..n - 1
  BY <1>1, <1>2 DEF NetInv, CardFields, NetAssumption
<1>4. h # t /\ d = [c EXCEPT !.tx[c.txHead] = Empty, !.txHead = (@ + 1) % NumTx]
  BY <1>1, <1>2 DEF CardSend
<1>5. (h + 1) % n = Succ(n, h) /\ Succ(n, h) \in 0..n - 1
  BY <1>3, SuccFacts
<1>6. /\ d.tx = Put(c.tx, h, Empty) /\ d.txHead = Succ(n, h) /\ d.txTail = t
      /\ d.cause = c.cause /\ SameRing(c, d)
  BY <1>2, <1>3, <1>4, <1>5 DEF CardFields, Put, SameRing
<1>7. CardFields(d)
  <2>1. d.tx = [i \in 0..NumTx - 1 |-> d.tx[i]]
    BY <1>2, <1>3, <1>6 DEF CardFields, Put
  <2>2. d = [rx |-> d.rx, rxHead |-> d.rxHead, rxTail |-> d.rxTail,
             tx |-> d.tx, txHead |-> d.txHead, txTail |-> d.txTail, cause |-> d.cause]
    BY <1>3, <1>4 DEF CardFields
  <2> QED BY <1>2, <1>3, <1>5, <1>6, <2>1, <2>2 DEF CardFields, SameRing
<1>8. RxInv'
  BY <1>1, <1>6, RxKept DEF NetInv, CardSend
<1>9. TxInv'
  <2>1. PICK S : c.tx \in Cells(n, S) /\ Empty \in S
    BY <1>2, <1>3, TxCells
  <2>2. PICK g, p : g = c.tx /\ p = Ring(n, g, h, t)
    OBVIOUS
  <2>3. g \in Cells(n, S)
    BY <2>1, <2>2
  <2>4. PICK m : m = Dist(n, h, t)
    OBVIOUS
  <2>5. m \in 0..n - 1 /\ m # 0
    BY <1>3, <1>4, <2>4 DEF Dist
  <2>6. Ring(n, g, Succ(n, h), t) = Tail(p)
    BY <1>3, <2>2, <2>3, <2>4, <2>5, RingAdvance
  <2>7. Ring(n, Put(g, h, Empty), Succ(n, h), t) = Ring(n, g, Succ(n, h), t)
    <3>1. PICK e : e = Succ(n, h)
      OBVIOUS
    <3>2. e \in 0..n - 1
      BY <1>5, <3>1
    <3>3. Dist(n, e, h) >= Dist(n, e, t)
      BY <1>3, <3>1 DEF Dist, Succ
    <3>4. Ring(n, Put(g, h, Empty), e, t) = Ring(n, g, e, t)
      BY <1>3, <2>1, <2>3, <3>2, <3>3, RingOutside
    <3> QED BY <3>1, <3>4
  <2>8. Lists(p, n, S, g, h, t)
    BY <1>3, <2>2, <2>3, RingFacts
  <2>9. p # << >>
    BY <2>4, <2>5, <2>8 DEF Lists
  <2>10. unsent = p
    BY <1>1, <1>2, <2>2 DEF NetInv, TxInv
  <2>11. unsent' = Tail(p)
    BY <2>9, <2>10 DEF CardSend
  <2> QED BY <1>1, <1>2, <1>6, <2>2, <2>6, <2>7, <2>11 DEF TxInv
<1>10. CpuInv'
  <2>1. First(d, suspended) = First(c, suspended)
    BY <1>6, FirstKept
  <2> QED BY <1>1, <1>6, <2>1 DEF NetInv, CpuInv, CardSend, SameRing
<1>11. QueueInv'
  BY DEF NetInv, QueueInv, UnitsMatchPackets, CardSend
<1> QED BY <1>1, <1>7, <1>8, <1>9, <1>10, <1>11 DEF NetInv

-----------------------------------------------------------------------------
(* e1000_irq().                                                             *)

LEMMA IrqEnterStep ==
  ASSUME NetAssumption, NetInv, IrqEnter
  PROVE  NetInv'
<1>1. PICK c, d : c = card /\ d = card'
  OBVIOUS
<1>2. CardFields(c) /\ d = [c EXCEPT !.cause = {}]
  BY <1>1 DEF NetInv, IrqEnter
<1>3. SameRing(c, d) /\ SameSends(c, d) /\ d.cause = {}
  BY <1>2 DEF CardFields, SameRing, SameSends
<1>4. CardFields(d)
  <2>1. d = [rx |-> d.rx, rxHead |-> d.rxHead, rxTail |-> d.rxTail,
             tx |-> d.tx, txHead |-> d.txHead, txTail |-> d.txTail, cause |-> d.cause]
    BY <1>2 DEF CardFields
  <2> QED BY <1>2, <1>3, <2>1 DEF CardFields, SameSends, SameRing
<1>5. RxInv' /\ TxInv'
  BY <1>1, <1>3, RxKept, TxKept DEF NetInv, IrqEnter
<1>6. CpuInv'
  <2>1. First(d, suspended) = First(c, suspended)
    BY <1>3, FirstKept
  <2>2. c.cause \subseteq {"rx", "overrun"} /\ c.cause # {}
    BY <1>1, <1>2 DEF CardFields, IrqEnter
  <2>3. CASE "rx" \in c.cause
    <3>1. /\ cpu' = "irq" /\ halted' = halted
          /\ irq' = [from |-> cpu, overrun |-> "overrun" \in c.cause]
          /\ cpu \in {"task", "idle"}
      BY <1>1, <2>3 DEF IrqEnter
    <3>2. ("overrun" \in c.cause) \in BOOLEAN
      OBVIOUS
    <3>3. irq' \in [from : {"task", "idle"}, overrun : BOOLEAN]
      BY <3>1, <3>2
    <3> QED BY <3>1, <3>3 DEF NetInv, CpuInv, IrqEnter
  <2>4. CASE "rx" \notin c.cause
    <3>1. halted' = TRUE /\ UNCHANGED <<cpu, irq>>
      <4>1. "overrun" \in c.cause
        BY <2>2, <2>4
      <4> QED BY <1>1, <2>4, <4>1 DEF IrqEnter
    <3> QED BY <3>1 DEF NetInv, CpuInv, IrqEnter
  <2> QED BY <2>3, <2>4
<1>7. QueueInv'
  BY DEF NetInv, QueueInv, UnitsMatchPackets, IrqEnter
<1> QED BY <1>1, <1>4, <1>5, <1>6, <1>7 DEF NetInv


\* The frame moves from the ring to rx_queue, and its unit to ktask_net() or
\* to the semaphore.  Nobody else has taken the descriptor: it is not empty.
LEMMA IrqTakeStep ==
  ASSUME NetAssumption, NetInv, IrqTake
  PROVE  NetInv'
<1>1. PICK c, d : c = card /\ d = card'
  OBVIOUS
<1>2. PICK n, h, r : n = NumRx /\ h = c.rxHead /\ r = RxNext(c.rxTail)
  OBVIOUS
<1>3. CardFields(c) /\ n \in Nat /\ n > 1 /\ h \in 0..n - 1 /\ c.rxTail \in 0..n - 1
  BY <1>1, <1>2 DEF NetInv, CardFields, NetAssumption
<1>4. r = Succ(n, c.rxTail) /\ r \in 0..n - 1
  BY <1>2, <1>3, RxNextFacts
<1>5. PICK e : e = Succ(n, r)
  OBVIOUS
<1>6. e \in 0..n - 1 /\ e # r /\ RxNext(r) = e
  BY <1>2, <1>3, <1>4, <1>5, RxNextFacts DEF Succ
<1>7. c.rx[r] # Empty
  BY <1>1, <1>2 DEF IrqTake
<1>8. suspended = {}
  <2> SUFFICES ASSUME suspended # {} PROVE FALSE
    OBVIOUS
  <2>1. First(c, suspended) = e /\ h # r
    BY <1>1, <1>2, <1>4, <1>5 DEF First, NetInv, RxInv, OneSuspended
  <2>2. Dist(n, e, r) < Dist(n, e, h)
    BY <1>1, <1>2, <1>4, <1>7, <2>1 DEF NetInv, RxInv, Occupied
  <2> QED BY <1>3, <1>4, <1>5, <2>2 DEF Dist, Succ
<1>9. First(c, suspended) = r
  BY <1>2, <1>4, <1>8 DEF First
<1>10. PICK g, p : g = c.rx /\ p = Ring(n, c.rx, r, h)
  OBVIOUS
<1>11. /\ g \in Cells(n, Descriptor) /\ Empty \in Descriptor
       /\ g[r] # Empty /\ Occupied(g, r, h)
  BY <1>1, <1>2, <1>3, <1>7, <1>9, <1>10 DEF CardFields, NetInv, RxInv, Descriptor
<1>12. Dist(n, r, h) # 0 /\ Occupied(Put(g, r, Empty), e, h)
  BY <1>2, <1>3, <1>4, <1>5, <1>11, FreeFirst
<1>13. h # r
  BY <1>3, <1>4, <1>12 DEF Dist
<1>14. Ring(n, Put(g, r, Empty), e, h) = Tail(p)
  <2>1. n \in Nat \ {0}
    BY <1>3
  <2>2. Ring(n, g, e, h) = Tail(p)
    BY <1>3, <1>4, <1>5, <1>10, <1>11, <1>12, <2>1, RingAdvance
  <2>3. Dist(n, e, r) >= Dist(n, e, h)
    BY <1>3, <1>4, <1>5 DEF Dist, Succ
  <2>4. Ring(n, Put(g, r, Empty), e, h) = Ring(n, g, e, h)
    BY <1>3, <1>4, <1>6, <1>11, <2>1, <2>3, RingOutside
  <2> QED BY <2>2, <2>4
<1>15. p \in Seq(Descriptor) /\ p # << >> /\ Head(p) = g[r]
  <2>1. n \in Nat \ {0}
    BY <1>3
  <2>2. Lists(p, n, Descriptor, g, r, h)
    BY <1>3, <1>4, <1>10, <1>11, <2>1, RingFacts
  <2> QED BY <1>12, <2>2 DEF Lists
<1>16. g[r] \in Frames
  BY <1>4, <1>11 DEF Cells, Descriptor
<1>17. rx_queue' = Append(rx_queue, g[r]) /\ pending' = pending
  BY <1>1, <1>2, <1>10 DEF IrqTake
<1>18. PICK y : y = IF net = "blocked" /\ irq.from = "task" THEN c.rxTail ELSE r
  OBVIOUS
<1>19. /\ d.rx = Put(g, r, Empty) /\ d.rxHead = h /\ d.rxTail = y
       /\ d.cause = c.cause /\ SameSends(c, d)
       /\ d = [rx |-> d.rx, rxHead |-> d.rxHead, rxTail |-> d.rxTail,
               tx |-> d.tx, txHead |-> d.txHead, txTail |-> d.txTail, cause |-> d.cause]
  <2>1. CASE net = "blocked" /\ irq.from = "task"
    <3>1. d = [c EXCEPT !.rx[r] = Empty]
      BY <1>1, <1>2, <2>1 DEF IrqTake
    <3> QED BY <1>2, <1>3, <1>10, <1>18, <2>1, <3>1 DEF CardFields, Put, SameSends
  <2>2. CASE ~(net = "blocked" /\ irq.from = "task")
    <3>1. d = [c EXCEPT !.rx[r] = Empty, !.rxTail = r]
      BY <1>1, <1>2, <2>2 DEF IrqTake
    <3> QED BY <1>2, <1>3, <1>10, <1>18, <2>2, <3>1 DEF CardFields, Put, SameSends
  <2> QED BY <2>1, <2>2
<1>20. CardFields(d)
  <2>1. d.rx \in Cells(NumRx, Descriptor)
    BY <1>2, <1>4, <1>11, <1>19 DEF Put, Cells
  <2>2. y \in 0..NumRx - 1
    BY <1>2, <1>3, <1>4, <1>18
  <2> QED BY <1>2, <1>3, <1>19, <2>1, <2>2 DEF CardFields, SameSends
<1>21. First(d, suspended') = e /\ OneSuspended'
  <2>1. CASE net = "blocked" /\ irq.from = "task"
    <3>1. suspended' = {[index |-> r, overrun |-> irq.overrun]} /\ irq.overrun \in BOOLEAN
      BY <1>1, <1>2, <1>8, <2>1 DEF IrqTake, NetInv, CpuInv
    <3>2. d.rxTail = c.rxTail
      BY <1>18, <1>19, <2>1
    <3>3. First(d, suspended') = e
      BY <1>2, <1>4, <1>5, <3>1, <3>2 DEF First
    <3>4. OneSuspended'
      BY <1>1, <1>2, <1>4, <1>13, <1>19, <3>1, <3>2 DEF OneSuspended
    <3> QED BY <3>3, <3>4
  <2>2. CASE ~(net = "blocked" /\ irq.from = "task")
    <3>1. suspended' = {} /\ d.rxTail = r
      BY <1>8, <1>18, <1>19, <2>2 DEF IrqTake
    <3> QED BY <1>2, <1>5, <3>1 DEF First, OneSuspended
  <2> QED BY <2>1, <2>2
<1>22. RxInv'
  <2>1. PICK q : q = rx_queue
    OBVIOUS
  <2>2. q \in Seq(Descriptor)
    BY <2>1 DEF NetInv, QueueInv, Descriptor
  <2>3. Append(q, Head(p)) \o Tail(p) = q \o p
    BY <1>15, <2>2
  <2>4. pending = q \o p
    BY <1>1, <1>2, <1>9, <1>10, <2>1 DEF NetInv, RxInv
  <2>5. pending' = rx_queue' \o Ring(NumRx, d.rx, e, d.rxHead)
    BY <1>2, <1>14, <1>15, <1>17, <1>19, <2>1, <2>3, <2>4
  <2>6. Occupied(d.rx, e, d.rxHead)
    BY <1>12, <1>19
  <2> QED BY <1>1, <1>21, <2>5, <2>6 DEF RxInv
<1>23. TxInv'
  BY <1>1, <1>19, TxKept DEF NetInv, IrqTake
<1>24. CpuInv'
  <2>1. CASE net = "blocked" /\ irq.from = "task"
    <3>1. /\ cpu' \in {"task", "net"} /\ irq' = [from |-> "idle", overrun |-> FALSE]
          /\ suspended' # {} /\ net' = "woken"
      BY <2>1 DEF IrqTake
    <3> QED BY <3>1 DEF NetInv, CpuInv, IrqTake
  <2>2. CASE ~(net = "blocked" /\ irq.from = "task")
    <3>1. cpu' = "irq" /\ irq' = irq /\ net' \in {"woken", "blocked", "ready"}
      BY <2>2 DEF IrqTake, NetInv, CpuInv
    <3> QED BY <3>1 DEF NetInv, CpuInv, IrqTake
  <2> QED BY <2>1, <2>2
<1>25. QueueInv'
  <2>1. rx_queue' \in Seq(Frames) /\ Len(rx_queue') = Len(rx_queue) + 1
    BY <1>16, <1>17 DEF NetInv, QueueInv
  <2>2. /\ rx_count' \in Nat
        /\ rx_count' + (IF net' = "woken" THEN 1 ELSE 0)
             = rx_count + (IF net = "woken" THEN 1 ELSE 0) + 1
    BY DEF NetInv, QueueInv, IrqTake
  <2> QED BY <1>17, <2>1, <2>2 DEF NetInv, QueueInv, UnitsMatchPackets
<1> QED BY <1>1, <1>20, <1>22, <1>23, <1>24, <1>25 DEF NetInv


\* The suspended handler gives its descriptor back: nobody else has.
\* A packet that is not copied stays in its descriptor.
LEMMA IrqCopyFailsStep ==
  ASSUME NetAssumption, NetInv, IrqCopyFails
  PROVE  NetInv'
<1>1. /\ CardFields(card') /\ RxInv' /\ TxInv'
      /\ First(card', suspended') = First(card, suspended)
  BY CardKept DEF NetInv, IrqCopyFails
<1>2. CpuInv'
  BY <1>1 DEF NetInv, CpuInv, IrqCopyFails
<1>3. QueueInv'
  BY DEF NetInv, QueueInv, UnitsMatchPackets, IrqCopyFails
<1> QED BY <1>1, <1>2, <1>3 DEF NetInv

LEMMA IrqResumeStep ==
  ASSUME NetAssumption, NetInv, IrqResume
  PROVE  NetInv'
<1>1. PICK c, d : c = card /\ d = card'
  OBVIOUS
<1>2. PICK k \in suspended :
        /\ d = [c EXCEPT !.rxTail = k.index]
        /\ suspended' = suspended \ {k}
        /\ irq' = [from |-> "task", overrun |-> k.overrun]
  BY <1>1 DEF IrqResume
<1>3. CardFields(c) /\ c.rxTail \in 0..NumRx - 1
  BY <1>1 DEF NetInv, CardFields
<1>4. PICK o \in BOOLEAN : suspended = {[index |-> Succ(NumRx, c.rxTail), overrun |-> o]}
  BY <1>1, <1>2 DEF NetInv, RxInv, OneSuspended
<1>5. k.index = Succ(NumRx, c.rxTail) /\ k.overrun \in BOOLEAN /\ suspended' = {}
  BY <1>2, <1>4
<1>6. Succ(NumRx, c.rxTail) \in 0..NumRx - 1
  BY <1>3, RxNextFacts
<1>7. /\ d.rx = c.rx /\ d.rxHead = c.rxHead /\ d.rxTail = Succ(NumRx, c.rxTail)
      /\ d.cause = c.cause /\ SameSends(c, d)
      /\ d = [rx |-> d.rx, rxHead |-> d.rxHead, rxTail |-> d.rxTail,
              tx |-> d.tx, txHead |-> d.txHead, txTail |-> d.txTail, cause |-> d.cause]
  BY <1>2, <1>3, <1>5 DEF CardFields, SameSends
<1>8. CardFields(d)
  BY <1>3, <1>6, <1>7 DEF CardFields, SameSends
<1>9. First(d, suspended') = First(c, suspended)
  BY <1>4, <1>5, <1>7 DEF First
<1>10. RxInv'
  <2>1. OneSuspended'
    BY <1>5 DEF OneSuspended
  <2>2. Occupied(d.rx, First(d, suspended'), d.rxHead)
    BY <1>1, <1>7, <1>9 DEF NetInv, RxInv
  <2>3. pending' = rx_queue' \o Ring(NumRx, d.rx, First(d, suspended'), d.rxHead)
    BY <1>1, <1>7, <1>9 DEF NetInv, RxInv, IrqResume
  <2> QED BY <1>1, <2>1, <2>2, <2>3 DEF RxInv
<1>11. TxInv'
  BY <1>1, <1>7, TxKept DEF NetInv, IrqResume
<1>12. CpuInv'
  <2>1. irq' \in [from : {"task", "idle"}, overrun : BOOLEAN] /\ cpu' = "irq"
    BY <1>2, <1>5 DEF IrqResume
  <2> QED BY <2>1 DEF NetInv, CpuInv, IrqResume
<1>13. QueueInv'
  BY DEF NetInv, QueueInv, UnitsMatchPackets, IrqResume
<1> QED BY <1>1, <1>8, <1>10, <1>11, <1>12, <1>13 DEF NetInv

\* The handler leaves no packet behind, unless a suspended one is to look.
LEMMA IrqLeaveStep ==
  ASSUME NetAssumption, NetInv, IrqLeave
  PROVE  NetInv'
<1>1. /\ CardFields(card') /\ RxInv' /\ TxInv'
      /\ First(card', suspended') = First(card, suspended)
  BY CardKept DEF NetInv, IrqLeave
<1>2. CpuInv'
  <2>1. /\ cpu' \in {"task", "idle"} /\ irq' = [from |-> "idle", overrun |-> FALSE]
    BY DEF NetInv, CpuInv, IrqLeave
  <2>2. halted' \in BOOLEAN
    BY DEF NetInv, CpuInv, IrqLeave
  <2>3. ASSUME card.rxHead # First(card, suspended), suspended = {} PROVE halted'
    <3>1. CASE card.rxTail = card.rxHead
      BY <3>1 DEF IrqLeave
    <3>2. CASE card.rxTail # card.rxHead
      <4>1. PICK r, h : r = RxNext(card.rxTail) /\ h = card.rxHead
        OBVIOUS
      <4>2. /\ card.rx[r] = Empty /\ h # First(card, suspended)
            /\ card.rxTail \in 0..NumRx - 1 /\ h \in 0..NumRx - 1
        BY <2>3, <3>2, <4>1 DEF IrqLeave, NetInv, CardFields
      <4>3. r \in 0..NumRx - 1 /\ First(card, suspended) = r
        BY <2>3, <4>1, <4>2, RxNextFacts DEF First
      <4>4. ~(Dist(NumRx, r, r) < Dist(NumRx, r, h))
        BY <4>1, <4>2, <4>3 DEF NetInv, RxInv, Occupied
      <4>5. NumRx \in Nat \ {0}
        BY DEF NetAssumption
      <4>6. h = r
        BY <4>2, <4>3, <4>4, <4>5 DEF Dist
      <4> QED BY <4>2, <4>3, <4>6
    <3> QED BY <3>1, <3>2
  <2> QED BY <1>1, <2>1, <2>2, <2>3 DEF NetInv, CpuInv, IrqLeave
<1>3. QueueInv'
  BY DEF NetInv, QueueInv, UnitsMatchPackets, IrqLeave
<1> QED BY <1>1, <1>2, <1>3 DEF NetInv

-----------------------------------------------------------------------------
(* Scheduling, and the task.                                                *)

LEMMA SwitchStep ==
  ASSUME NetAssumption, NetInv, Switch
  PROVE  NetInv'
<1>1. /\ CardFields(card') /\ RxInv' /\ TxInv'
      /\ First(card', suspended') = First(card, suspended)
  BY CardKept DEF NetInv, Switch
<1>2. CpuInv'
  <2>1. cpu # "irq" /\ cpu' \in {"net", "task", "idle"}
    BY DEF Switch
  <2> QED BY <1>1, <2>1 DEF NetInv, CpuInv, Switch
<1>3. QueueInv'
  BY DEF NetInv, QueueInv, UnitsMatchPackets, Switch
<1> QED BY <1>1, <1>2, <1>3 DEF NetInv

\* With a unit, rx_queue is not empty.
LEMMA DequeueFacts ==
  ASSUME NetAssumption, NetInv, net = "woken" \/ rx_count > 0, Dequeue
  PROVE  /\ halted' = halted
         /\ packet' \in Frames /\ rx_queue' \in Seq(Frames) /\ pending' \in Seq(Frames)
         /\ Len(rx_queue') + 1 = Len(rx_queue) /\ Len(pending') <= MaxPending
         /\ \A p \in Seq(Descriptor) :
              pending = rx_queue \o p => pending' = rx_queue' \o p
<1>1. PICK q : q = rx_queue
  OBVIOUS
<1>2. q \in Seq(Frames) /\ Len(q) # 0 /\ pending \in Seq(Frames) /\ Len(pending) <= MaxPending
  BY <1>1 DEF NetInv, QueueInv, UnitsMatchPackets
<1>3. q # << >>
  BY <1>2
<1>4. /\ packet' = Head(q) /\ rx_queue' = Tail(q) /\ pending' = Tail(pending)
      /\ halted' = halted
  BY <1>1, <1>3 DEF Dequeue
<1>5. Head(q) \in Frames /\ Tail(q) \in Seq(Frames) /\ Len(Tail(q)) + 1 = Len(q)
  BY <1>2, <1>3
<1>6. ASSUME NEW p \in Seq(Descriptor), pending = q \o p
      PROVE  Tail(pending) = Tail(q) \o p
  <2>1. q \in Seq(Descriptor)
    BY <1>2 DEF Descriptor
  <2> QED BY <1>3, <1>6, <2>1, ConcatTail
<1>7. pending # << >>
  <2>1. PICK p : p = Ring(NumRx, card.rx, First(card, suspended), card.rxHead)
    OBVIOUS
  <2>2. p \in Seq(Descriptor)
    <3>1. /\ NumRx \in Nat \ {0} /\ card.rx \in Cells(NumRx, Descriptor)
          /\ card.rxHead \in 0..NumRx - 1
      BY DEF NetAssumption, NetInv, CardFields
    <3>2. First(card, suspended) \in 0..NumRx - 1
      BY FirstFacts DEF NetInv, RxInv
    <3>3. Lists(p, NumRx, Descriptor, card.rx, First(card, suspended), card.rxHead)
      BY <2>1, <3>1, <3>2, RingFacts
    <3> QED BY <3>3 DEF Lists
  <2>3. pending = q \o p
    BY <1>1, <2>1 DEF NetInv, RxInv
  <2>4. q \in Seq(Descriptor)
    BY <1>2 DEF Descriptor
  <2> QED BY <1>3, <2>2, <2>3, <2>4
<1>8. Tail(pending) \in Seq(Frames) /\ Len(Tail(pending)) <= MaxPending
  BY <1>2, <1>7 DEF NetAssumption
<1> QED BY <1>1, <1>4, <1>5, <1>6, <1>8


LEMMA ReceivePacketStep ==
  ASSUME NetAssumption, NetInv, e1000_receive_packet
  PROVE  NetInv'
<1>1. UNCHANGED <<card, irq, suspended, gateway_mac, unsent>> /\ cpu = "net"
  BY DEF e1000_receive_packet
<1>2. CASE net = "ready" /\ rx_count = 0
  <2>1. /\ net' = "blocked" /\ cpu' \in {"task", "idle"}
        /\ UNCHANGED <<rx_count, rx_queue, packet, pending, halted>>
    BY <1>2 DEF e1000_receive_packet
  <2>2. /\ CardFields(card') /\ RxInv' /\ TxInv'
        /\ First(card', suspended') = First(card, suspended)
    BY <1>1, <2>1, CardKept DEF NetInv
  <2>3. CpuInv'
    BY <1>1, <2>1, <2>2 DEF NetInv, CpuInv
  <2>4. QueueInv'
    BY <1>2, <2>1 DEF NetInv, QueueInv, UnitsMatchPackets
  <2> QED BY <2>2, <2>3, <2>4 DEF NetInv
<1>3. CASE net = "woken" \/ (net = "ready" /\ rx_count # 0)
  <2>1. /\ Dequeue /\ cpu' = cpu /\ net' = "ready"
        /\ net = "woken" => rx_count' = rx_count
        /\ net # "woken" => rx_count > 0 /\ rx_count' = rx_count - 1
    BY <1>3 DEF e1000_receive_packet, NetInv, QueueInv
  <2>2. /\ halted' = halted
        /\ packet' \in Frames /\ rx_queue' \in Seq(Frames) /\ pending' \in Seq(Frames)
        /\ Len(rx_queue') + 1 = Len(rx_queue) /\ Len(pending') <= MaxPending
        /\ \A p \in Seq(Descriptor) :
             pending = rx_queue \o p => pending' = rx_queue' \o p
    BY <2>1, DequeueFacts
  <2>3. CardFields(card') /\ First(card', suspended') = First(card, suspended)
    BY <1>1 DEF NetInv, CardFields, First
  <2>4. RxInv'
    <3>1. PICK p : p = Ring(NumRx, card.rx, First(card, suspended), card.rxHead)
      OBVIOUS
    <3>2. p \in Seq(Descriptor)
      <4>1. /\ NumRx \in Nat \ {0} /\ card.rx \in Cells(NumRx, Descriptor)
            /\ card.rxHead \in 0..NumRx - 1
        BY DEF NetAssumption, NetInv, CardFields
      <4>2. First(card, suspended) \in 0..NumRx - 1
        BY FirstFacts DEF NetInv, RxInv
      <4>3. Lists(p, NumRx, Descriptor, card.rx, First(card, suspended), card.rxHead)
        BY <3>1, <4>1, <4>2, RingFacts
      <4> QED BY <4>3 DEF Lists
    <3>3. pending' = rx_queue' \o p
      BY <2>2, <3>1, <3>2 DEF NetInv, RxInv
    <3>4. OneSuspended' /\ Occupied(card'.rx, First(card', suspended'), card'.rxHead)
      BY <1>1, <2>3 DEF NetInv, RxInv, OneSuspended
    <3> QED BY <1>1, <2>3, <3>1, <3>3, <3>4 DEF RxInv
  <2>5. TxInv'
    BY <1>1 DEF NetInv, TxInv
  <2>6. CpuInv'
    BY <1>1, <2>1, <2>2, <2>3 DEF NetInv, CpuInv, Descriptor
  <2>7. QueueInv'
    <3>1. /\ rx_count' \in Nat
          /\ rx_count' + 1 = rx_count + (IF net = "woken" THEN 1 ELSE 0)
      BY <1>3, <2>1 DEF NetInv, QueueInv
    <3>2. rx_count + (IF net = "woken" THEN 1 ELSE 0) = Len(rx_queue)
      BY DEF NetInv, QueueInv, UnitsMatchPackets
    <3>3. Len(rx_queue') \in Nat
      BY <2>2
    <3>4. rx_count' = Len(rx_queue')
      BY <2>2, <3>1, <3>2, <3>3
    <3>5. UnitsMatchPackets'
      BY <2>1, <3>1, <3>4 DEF UnitsMatchPackets
    <3> QED BY <2>2, <3>1, <3>5 DEF QueueInv
  <2> QED BY <2>3, <2>4, <2>5, <2>6, <2>7 DEF NetInv
<1>4. net \in {"woken", "ready"}
  BY DEF e1000_receive_packet
<1> QED BY <1>2, <1>3, <1>4

\* Of the handlers only the one of ARP learns an address, and one that a frame has.
LEMMA HandleFacts ==
  ASSUME NEW mac \in Macs \cup {NULL}, NEW f \in Frames
  PROVE  net_handle(mac, f).mac \in Macs \cup {NULL}
<1>1. CASE f.type = "arp"
  <2>1. net_handle(mac, f) = net_handle_arp(mac, f)
    BY <1>1 DEF net_handle
  <2>2. f.srchw \in Macs
    BY <1>1 DEF Macs
  <2> HIDE DEF Macs
  <2> QED BY <2>1, <2>2 DEF net_handle_arp, Outcome
<1>2. CASE f.type # "arp"
  <2>1. net_handle_tcp(mac, f).mac = mac
    BY DEF net_handle_tcp, Outcome
  <2>2. net_handle_udp(mac, f).mac = mac
    BY DEF net_handle_udp, Outcome
  <2>3. net_handle_icmp(mac, f).mac = mac
    BY DEF net_handle_icmp, Outcome
  <2>4. net_handle_ipv4(mac, f).mac = mac
    BY <2>1, <2>2, <2>3 DEF net_handle_ipv4, Outcome
  <2> QED BY <1>2, <2>4 DEF net_handle, Outcome
<1> QED BY <1>1, <1>2


LEMMA KtaskStep ==
  ASSUME NetAssumption, NetInv, ktask_net
  PROVE  NetInv'
<1>1. PICK c, d : c = card /\ d = card'
  OBVIOUS
<1>2. PICK o : o = net_handle(gateway_mac, packet)
  OBVIOUS
<1>3. /\ packet # Empty /\ packet' = Empty /\ gateway_mac' = o.mac
      /\ UNCHANGED <<cpu, irq, suspended, rx_queue, rx_count, net, halted, pending>>
      /\ IF o.reply = << >> THEN UNCHANGED <<card, unsent>>
         ELSE e1000_send_packet(o.reply[1])
  BY <1>2 DEF ktask_net
<1>4. CardFields(c)
  BY <1>1 DEF NetInv
<1>5. gateway_mac' \in Macs \cup {NULL}
  <2>1. packet \in Frames /\ gateway_mac \in Macs \cup {NULL}
    BY <1>3 DEF NetInv, CpuInv, Descriptor
  <2> QED BY <1>2, <1>3, <2>1, HandleFacts
<1>6. SameRing(c, d) /\ d.cause = c.cause /\ CardFields(d) /\ TxInv'
  <2>1. CASE o.reply = << >>
    <3>1. d = c /\ unsent' = unsent
      BY <1>1, <1>3, <2>1
    <3> QED BY <1>1, <1>4, <3>1 DEF SameRing, NetInv, TxInv
  <2>2. CASE o.reply # << >>
    <3>1. PICK n, h, t, f : n = NumTx /\ h = c.txHead /\ t = c.txTail /\ f = o.reply[1]
      OBVIOUS
    <3>2. n \in Nat \ {0} /\ h \in 0..n - 1 /\ t \in 0..n - 1
      BY <1>4, <3>1 DEF CardFields, NetAssumption
    <3>3. PICK e : e = Succ(n, t)
      OBVIOUS
    <3>4. (t + 1) % n = e /\ e \in 0..n - 1
      BY <3>2, <3>3, SuccFacts
    <3>5. e1000_send_packet(f)
      BY <1>3, <2>2, <3>1
    <3>6. CASE e = h
      <4>1. /\ d = [c EXCEPT !.tx = [i \in DOMAIN @ |-> Empty], !.txTail = e]
            /\ unsent' = << >>
        BY <1>1, <3>1, <3>4, <3>5, <3>6 DEF e1000_send_packet
      <4>2. /\ d.tx = [i \in DOMAIN c.tx |-> Empty] /\ d.txHead = h /\ d.txTail = e
            /\ d.cause = c.cause /\ SameRing(c, d)
            /\ d = [rx |-> d.rx, rxHead |-> d.rxHead, rxTail |-> d.rxTail,
                    tx |-> d.tx, txHead |-> d.txHead, txTail |-> d.txTail, cause |-> d.cause]
        BY <1>4, <3>1, <4>1 DEF CardFields, SameRing
      <4>3. DOMAIN c.tx = 0..NumTx - 1
        BY <1>4 DEF CardFields
      <4>4. d.tx = [i \in 0..NumTx - 1 |-> d.tx[i]]
        BY <4>2, <4>3
      <4>5. CardFields(d)
        BY <1>4, <3>1, <3>2, <3>4, <4>2, <4>4 DEF CardFields, SameRing
      <4>6. Ring(n, d.tx, h, e) = << >>
        <5>1. Dist(n, h, e) = 0
          BY <3>2, <3>6 DEF Dist
        <5> QED BY <5>1 DEF Ring
      <4> QED BY <1>1, <3>1, <4>1, <4>2, <4>5, <4>6 DEF TxInv
    <3>7. CASE e # h
      <4>1. /\ d = [c EXCEPT !.tx[c.txTail] = f, !.txTail = e]
            /\ unsent' = Append(unsent, f)
        BY <1>1, <3>1, <3>4, <3>5, <3>7 DEF e1000_send_packet
      <4>2. /\ d.tx = Put(c.tx, t, f) /\ d.txHead = h /\ d.txTail = e
            /\ d.cause = c.cause /\ SameRing(c, d)
            /\ d = [rx |-> d.rx, rxHead |-> d.rxHead, rxTail |-> d.rxTail,
                    tx |-> d.tx, txHead |-> d.txHead, txTail |-> d.txTail, cause |-> d.cause]
        BY <1>4, <3>1, <4>1 DEF CardFields, SameRing, Put
      <4>3. d.tx = [i \in 0..NumTx - 1 |-> d.tx[i]]
        BY <1>4, <3>1, <3>2, <4>2 DEF CardFields, Put
      <4>4. CardFields(d)
        BY <1>4, <3>1, <3>2, <3>4, <4>2, <4>3 DEF CardFields, SameRing
      <4>5. Ring(n, d.tx, h, e) = Append(Ring(n, c.tx, h, t), f)
        <5>1. PICK S : c.tx \in Cells(n, S) /\ f \in S
          BY <1>4, <3>1, TxCells
        <5>2. PICK g : g = c.tx
          OBVIOUS
        <5>3. g \in Cells(n, S)
          BY <5>1, <5>2
        <5>4. Dist(n, h, t) + 1 # n
          BY <3>2, <3>3, <3>7 DEF Dist, Succ
        <5>5. Ring(n, Put(g, t, f), h, Succ(n, t)) = Append(Ring(n, g, h, t), f)
          BY <3>2, <5>1, <5>3, <5>4, RingWrite
        <5> QED BY <3>3, <4>2, <5>2, <5>5
      <4>6. unsent = Ring(n, c.tx, h, t)
        BY <1>1, <3>1 DEF NetInv, TxInv
      <4> QED BY <1>1, <3>1, <4>1, <4>2, <4>4, <4>5, <4>6 DEF TxInv
    <3> QED BY <3>6, <3>7
  <2> QED BY <2>1, <2>2
<1>7. RxInv'
  BY <1>1, <1>3, <1>6, RxKept DEF NetInv
<1>8. CpuInv'
  <2>1. First(d, suspended) = First(c, suspended)
    BY <1>6, FirstKept
  <2> QED BY <1>1, <1>3, <1>5, <1>6, <2>1 DEF NetInv, CpuInv, SameRing, Descriptor
<1>9. QueueInv'
  BY <1>3 DEF NetInv, QueueInv, UnitsMatchPackets
<1> QED BY <1>1, <1>6, <1>7, <1>8, <1>9 DEF NetInv


-----------------------------------------------------------------------------
(* The theorems.                                                            *)

LEMMA NetInit ==
  ASSUME NetAssumption, Init
  PROVE  NetInv
<1>1. NumRx \in Nat /\ NumRx > 1 /\ NumTx \in Nat /\ NumTx > 1 /\ MaxPending \in Nat
  BY DEF NetAssumption
<1>2. PICK c : c = card
  OBVIOUS
<1>3. c = [rx |-> [i \in 0..NumRx - 1 |-> Empty], rxHead |-> 0, rxTail |-> NumRx - 1,
           tx |-> [i \in 0..NumTx - 1 |-> Empty], txHead |-> 0, txTail |-> 0,
           cause |-> {}]
  BY <1>2 DEF Init, FirstRxTail
<1>4. CardFields(c)
  BY <1>1, <1>3 DEF CardFields, Cells, Descriptor
<1>5. First(c, suspended) = 0
  BY <1>1, <1>3 DEF First, Init, Succ
<1>6. Dist(NumRx, 0, 0) = 0 /\ Dist(NumTx, 0, 0) = 0
  BY <1>1 DEF Dist
<1>7. Ring(NumRx, c.rx, 0, 0) = << >> /\ Ring(NumTx, c.tx, 0, 0) = << >>
  BY <1>6 DEF Ring
<1>8. RxInv
  <2>1. OneSuspended
    BY DEF OneSuspended, Init
  <2>2. Occupied(c.rx, 0, 0)
    <3>1. ASSUME NEW i \in 0..NumRx - 1 PROVE c.rx[i] = Empty /\ ~(Dist(NumRx, 0, i) < 0)
      BY <1>1, <1>3 DEF Dist
    <3> QED BY <1>6, <3>1 DEF Occupied
  <2>3. pending = rx_queue \o << >>
    BY DEF Init
  <2>4. c.rxHead = 0
    BY <1>3
  <2> QED BY <1>2, <1>5, <1>7, <2>1, <2>2, <2>3, <2>4 DEF RxInv
<1>9. TxInv
  BY <1>2, <1>3, <1>7 DEF TxInv, Init
<1>10. CpuInv
  BY <1>2, <1>3, <1>5 DEF CpuInv, Init, Descriptor
<1>11. QueueInv
  BY <1>1 DEF QueueInv, Init, UnitsMatchPackets
<1> QED BY <1>2, <1>4, <1>8, <1>9, <1>10, <1>11 DEF NetInv

LEMMA NetStep ==
  ASSUME NetAssumption, NetInv, [Next]_netVars
  PROVE  NetInv'
<1>1. CASE Card
  BY <1>1, ReceiveStep, SendStep DEF Card
<1>2. CASE Handler
  BY <1>2, IrqEnterStep, IrqTakeStep, IrqCopyFailsStep, IrqResumeStep, IrqLeaveStep
  DEF Handler
<1>3. CASE Task
  BY <1>3, SwitchStep, ReceivePacketStep, KtaskStep DEF Task
<1>4. CASE UNCHANGED netVars
  <2>1. UNCHANGED <<card, cpu, irq, suspended, rx_queue, rx_count, net, packet,
                    gateway_mac, halted, pending, unsent>>
    BY <1>4 DEF netVars
  <2>2. /\ CardFields(card') /\ RxInv' /\ TxInv'
        /\ First(card', suspended') = First(card, suspended)
    BY <2>1, CardKept DEF NetInv
  <2>3. CpuInv' /\ QueueInv'
    BY <2>1, <2>2 DEF NetInv, CpuInv, QueueInv, UnitsMatchPackets
  <2> QED BY <2>2, <2>3 DEF NetInv
<1> QED BY <1>1, <1>2, <1>3, <1>4 DEF Next, Stopped

\* The rings, the queue and the units of rx_sem agree in every state of the
\* driver, whatever it was doing when a handler was suspended.
THEOREM NetSafe == Spec => []NetInv
<1>1. Init => NetInv
  BY NetAssumption, NetInit
<1>2. NetInv /\ [Next]_netVars => NetInv'
  BY NetAssumption, NetStep
<1> QED BY <1>1, <1>2, PTL DEF Spec

\* What InRing lists.
LEMMA InRingFacts ==
  ASSUME NetAssumption, NetInv
  PROVE  /\ InRing = Ring(NumRx, card.rx, First(card, suspended), card.rxHead)
         /\ InRing # << >> <=> card.rxHead # First(card, suspended)
         /\ InRing \in Seq(Descriptor)
         /\ Cardinality(suspended) = IF suspended = {} THEN 0 ELSE 1
<1>1. PICK n, t, h, g : n = NumRx /\ t = card.rxTail /\ h = card.rxHead /\ g = card.rx
  OBVIOUS
<1>2. /\ n \in Nat /\ n > 1 /\ t \in 0..n - 1 /\ h \in 0..n - 1
      /\ g \in Cells(n, Descriptor)
  BY <1>1 DEF NetAssumption, NetInv, CardFields
<1>3. PICK u, r : u = Cardinality(suspended) /\ r = First(card, suspended)
  OBVIOUS
<1>4. u = IF suspended = {} THEN 0 ELSE 1
  <2>1. CASE suspended = {}
    BY <1>3, <2>1, FS_EmptySet
  <2>2. CASE suspended # {}
    <3>1. PICK x : suspended = {x}
      BY <2>2 DEF NetInv, RxInv, OneSuspended
    <3> QED BY <1>3, <2>2, <3>1, FS_Singleton
  <2> QED BY <2>1, <2>2
<1>5. PICK m : m = Dist(n, Succ(n, t), h)
  OBVIOUS
<1>6. m \in 0..n - 1 /\ Filled = m
  <2>1. PICK a : a = h - t - 1
    OBVIOUS
  <2>2. a \in (-n)..(n - 1) /\ n \in Nat \ {0}
    BY <1>2, <2>1
  <2>3. a % n = IF a < 0 THEN a + n ELSE a
    BY <2>2, ModDown
  <2>4. m = (IF a < 0 THEN a + n ELSE a) /\ m \in 0..n - 1
    BY <1>2, <1>5, <2>1 DEF Dist, Succ
  <2> QED BY <1>1, <2>1, <2>3, <2>4 DEF Filled
<1>7. r \in 0..n - 1 /\ Dist(n, r, h) = m - u
  <2>1. CASE suspended = {}
    BY <1>1, <1>2, <1>3, <1>4, <1>5, <1>6, <2>1, RxNextFacts DEF First
  <2>2. CASE suspended # {}
    <3>1. r = Succ(n, Succ(n, t)) /\ h # Succ(n, t)
      BY <1>1, <1>3, <2>2 DEF First, NetInv, RxInv, OneSuspended
    <3>2. r \in 0..n - 1 /\ Dist(n, r, h) = m - 1
      BY <1>2, <1>5, <3>1 DEF Dist, Succ
    <3> QED BY <1>4, <2>2, <3>2
  <2> QED BY <2>1, <2>2
<1>8. ASSUME NEW k \in 1..(m - u) PROVE (t + u + k) % n = (r + k - 1) % n
  <2>1. PICK a, b : a = t + u + k /\ b = r + k - 1
    OBVIOUS
  <2>2. n \in Nat \ {0} /\ k \in 1..n /\ u \in 0..1 /\ k + u < n
    BY <1>2, <1>4, <1>6
  <2>3. a \in 0..(2 * n - 1) /\ b \in 0..(2 * n - 1)
    BY <1>2, <1>7, <2>1, <2>2
  <2>4. a % n = (IF a < n THEN a ELSE a - n) /\ b % n = (IF b < n THEN b ELSE b - n)
    BY <2>2, <2>3, ModUp
  <2>5. r = IF u = 0 THEN Succ(n, t) ELSE Succ(n, Succ(n, t))
    BY <1>1, <1>3, <1>4 DEF First
  <2>6. (IF a < n THEN a ELSE a - n) = (IF b < n THEN b ELSE b - n)
    BY <1>2, <2>1, <2>2, <2>5 DEF Succ
  <2> QED BY <2>1, <2>4, <2>6
<1>9. InRing = [k \in 1..(m - u) |-> g[(t + u + k) % n]]
  BY <1>1, <1>3, <1>6 DEF InRing
<1>10. InRing = Ring(n, g, r, h)
  BY <1>7, <1>8, <1>9 DEF Ring
<1>11. Lists(InRing, n, Descriptor, g, r, h)
  <2>1. n \in Nat \ {0}
    BY <1>2
  <2> QED BY <1>2, <1>7, <1>10, <2>1, RingFacts
<1>12. Dist(n, r, h) = 0 <=> h = r
  BY <1>2, <1>7 DEF Dist
<1> QED BY <1>1, <1>3, <1>4, <1>10, <1>11, <1>12 DEF Lists

\* Every frame that the card accepts reaches ktask_net() once and in order, a
\* resumed e1000_irq() moves the tail by one, and the driver's state stays
\* within its types.
THEOREM FramesReachTask == Spec => []FramesArrive
<1>1. NetInv => FramesArrive
  <2> SUFFICES ASSUME NetInv PROVE FramesArrive
    OBVIOUS
  <2>1. ReceivedInOrder
    BY NetAssumption, InRingFacts DEF ReceivedInOrder, NetInv, RxInv
  <2>2. TailAdvances
    <3>1. Cardinality(suspended) <= 1
      BY NetAssumption, InRingFacts
    <3>2. RxNext(card.rxTail) = Succ(NumRx, card.rxTail)
      BY NetAssumption, RxNextFacts DEF NetInv, CardFields
    <3> QED BY <3>1, <3>2 DEF TailAdvances, NetInv, RxInv, OneSuspended
  <2>3. rx_count \in 0..MaxPending
    <3>1. PICK p, q : p = InRing /\ q = rx_queue
      OBVIOUS
    <3>2. p \in Seq(Descriptor) /\ q \in Seq(Descriptor)
      BY <3>1, NetAssumption, InRingFacts DEF NetInv, QueueInv, Descriptor
    <3>3. pending = q \o p
      BY <2>1, <3>1 DEF ReceivedInOrder
    <3>4. Len(q) <= Len(pending)
      BY <3>2, <3>3
    <3>5. rx_count \in Nat /\ rx_count <= Len(q)
      BY <3>1 DEF NetInv, QueueInv, UnitsMatchPackets
    <3>6. Len(pending) \in Nat /\ Len(pending) <= MaxPending
      BY DEF NetInv, QueueInv
    <3>7. Len(q) \in Nat
      BY <3>2
    <3> QED BY <3>4, <3>5, <3>6, <3>7, NetAssumption DEF NetAssumption
  <2>4. \A h \in suspended : h.index \in 0..NumRx - 1 /\ h.overrun \in BOOLEAN
    <3>1. Succ(NumRx, card.rxTail) \in 0..NumRx - 1
      BY NetAssumption, RxNextFacts DEF NetInv, CardFields
    <3> QED BY <3>1 DEF NetInv, RxInv, OneSuspended
  <2>5. NetTypeOK
    BY <2>3, <2>4 DEF NetTypeOK, NetInv, CardFields, CpuInv, QueueInv, Cells, Descriptor
  <2> QED BY <2>1, <2>2, <2>5 DEF FramesArrive
<1> QED BY <1>1, NetSafe, PTL

\* No frame is forgotten: a unit of rx_sem for each in rx_queue, and a cause or
\* a handler for those in the ring.
THEOREM FramesSignalled == Spec => []FramesAnnounced
<1>1. NetInv => FramesAnnounced
  BY NetAssumption, InRingFacts
    DEF FramesAnnounced, NoForgottenPacket, NetInv, CpuInv, QueueInv
<1> QED BY <1>1, NetSafe, PTL


\* The card gets the frames to send in the order in which e1000_send_packet()
\* was called, since the last burst that overtook the head.
THEOREM FramesSentInOrder == Spec => []SentInOrder
<1>1. NetInv => SentInOrder
  <2> SUFFICES ASSUME NetInv PROVE SentInOrder
    OBVIOUS
  <2>1. PICK n, h, t : n = NumTx /\ h = card.txHead /\ t = card.txTail
    OBVIOUS
  <2>2. n \in Nat \ {0} /\ h \in 0..n - 1 /\ t \in 0..n - 1
    BY <2>1, NetAssumption DEF NetAssumption, NetInv, CardFields
  <2>3. PICK a : a = t - h
    OBVIOUS
  <2>4. a \in (-n)..(n - 1)
    BY <2>2, <2>3
  <2>5. a % n = IF a < 0 THEN a + n ELSE a
    BY <2>2, <2>4, ModDown
  <2>6. (t - h) % n = Dist(n, h, t)
    BY <2>2, <2>3, <2>5 DEF Dist
  <2> QED BY <2>1, <2>6 DEF SentInOrder, NetInv, TxInv, Ring
<1> QED BY <1>1, NetSafe, PTL

\* The card runs out of descriptors only when all but one are taken, and the
\* assertions of e1000_irq() fail for that reason or because a packet cannot be
\* copied; that of list_dequeue() never fails.
THEOREM StopsWhenFull == Spec => StopsOnlyWhenFull
<1> DEFINE Stops ==
      /\ "overrun" \in card'.cause \ card.cause => RingFull
      /\ halted' # halted =>
           \/ card.rxHead = card.rxTail \/ irq.overrun \/ "overrun" \in card.cause
           \/ AtPacket
<1>1. NetInv /\ card.rxHead = card.rxTail => RingFull
  <2> SUFFICES ASSUME NetInv, card.rxHead = card.rxTail,
                      NEW i \in DOMAIN card.rx \ {card.rxTail}, card.rx[i] = Empty
               PROVE  \E h \in suspended : h.index = i
    BY DEF RingFull
  <2>1. PICK n, t : n = NumRx /\ t = card.rxTail
    OBVIOUS
  <2>2. /\ n \in Nat /\ n > 1 /\ t \in 0..n - 1 /\ i \in 0..n - 1 /\ i # t
    BY <2>1, NetAssumption DEF NetAssumption, NetInv, CardFields, Cells
  <2>3. PICK r : r = First(card, suspended)
    OBVIOUS
  <2>4. ~(Dist(n, r, i) < Dist(n, r, t))
    BY <2>1, <2>2, <2>3 DEF NetInv, RxInv, Occupied
  <2>5. suspended # {}
    <3> SUFFICES ASSUME suspended = {} PROVE FALSE
      OBVIOUS
    <3>1. r = Succ(n, t)
      BY <2>1, <2>3 DEF First
    <3> QED BY <2>2, <2>4, <3>1 DEF Dist, Succ
  <2>6. i = Succ(n, t)
    <3>1. r = Succ(n, Succ(n, t))
      BY <2>1, <2>3, <2>5 DEF First
    <3> QED BY <2>2, <2>4, <3>1 DEF Dist, Succ
  <2>7. PICK o \in BOOLEAN : suspended = {[index |-> Succ(n, t), overrun |-> o]}
    BY <2>1, <2>5 DEF NetInv, RxInv, OneSuspended
  <2> QED BY <2>6, <2>7
<1>2. ASSUME NetInv, Next PROVE Stops
  <2>1. CardFields(card)
    BY <1>2 DEF NetInv
  <2>2. ASSUME NEW f \in Arrivals, CardReceive(f) PROVE Stops
    <3>1. CASE card.rxHead = card.rxTail
      BY <1>1, <1>2, <2>2, <3>1 DEF CardReceive
    <3>2. CASE card.rxHead # card.rxTail
      <4>1. card'.cause = card.cause \cup {"rx"} /\ halted' = halted
        BY <2>1, <2>2, <3>2 DEF CardReceive, CardFields
      <4> QED BY <4>1
    <3> QED BY <3>1, <3>2
  <2>3. CASE CardSend
    BY <2>1, <2>3 DEF CardSend, CardFields
  <2>4. CASE IrqEnter
    <3>1. card'.cause = {}
      BY <2>1, <2>4 DEF IrqEnter, CardFields
    <3>2. halted' # halted => "overrun" \in card.cause
      BY <1>2, <2>4 DEF IrqEnter, NetInv, CpuInv
    <3> QED BY <3>1, <3>2
  <2>5. CASE IrqTake
    <3>1. card'.cause = card.cause /\ halted' = halted
      BY <2>1, <2>5 DEF IrqTake, CardFields
    <3> QED BY <3>1
  <2>12. CASE IrqCopyFails
    <3>1. card' = card /\ AtPacket
      BY <2>12 DEF IrqCopyFails, AtPacket
    <3> QED BY <3>1
  <2>6. CASE IrqResume
    <3>1. card'.cause = card.cause /\ halted' = halted
      BY <2>1, <2>6 DEF IrqResume, CardFields
    <3> QED BY <3>1
  <2>7. CASE IrqLeave
    BY <1>2, <2>7 DEF IrqLeave, NetInv, CpuInv
  <2>8. CASE Switch
    BY <2>8 DEF Switch
  <2>9. CASE e1000_receive_packet
    <3>1. card' = card
      BY <2>9 DEF e1000_receive_packet
    <3>2. halted' = halted
      BY <1>2, <2>9, NetAssumption, DequeueFacts DEF e1000_receive_packet
    <3> QED BY <3>1, <3>2
  <2>10. CASE ktask_net
    <3>1. halted' = halted
      BY <2>10 DEF ktask_net
    <3>2. card'.cause = card.cause
      BY <2>1, <2>10 DEF ktask_net, e1000_send_packet, CardFields
    <3> QED BY <3>1, <3>2
  <2>11. CASE Stopped
    BY <2>11 DEF Stopped, netVars
  <2> QED BY <1>2, <2>2, <2>3, <2>4, <2>5, <2>6, <2>7, <2>8, <2>9, <2>10, <2>11, <2>12
       DEF Next, Card, Handler, Task
<1>3. NetInv /\ [Next]_netVars => [Stops]_netVars
  BY <1>2
<1> QED BY <1>3, NetSafe, PTL DEF Spec, StopsOnlyWhenFull
=============================================================================
