-------------------------------- MODULE Net --------------------------------
(***************************************************************************)
(* The network stack: the driver of the e1000 card, kernel/net/e1000.c,    *)
(* and the task that answers what it receives, kernel/net/net.c, udp.c,    *)
(* tcp.c and checksum.c.                                                   *)
(*                                                                         *)
(* The card works on its own.  Interrupts are off in the kernel, so that   *)
(* the handler starts only while the cpu idles or is in user mode; but its *)
(* semaphore_release() may switch to another task before it has given the  *)
(* descriptor back, and it goes on when the interrupted task runs again.   *)
(***************************************************************************)
EXTENDS Integers, Sequences, FiniteSets, SequencesExt

CONSTANTS
  NumRx,       \* E1000_NUM_RX_DESC, 32 in the code
  NumTx,       \* E1000_NUM_TX_DESC, 8 in the code
  Frames,      \* the frames that may arrive
  Alone,       \* those of them that arrive only when no other is on its way
  MaxPending   \* bound on the frames received and not yet taken

Empty == [type |-> "empty"]

ASSUME NetAssumption ==
  /\ NumRx \in Nat \ {0, 1} /\ NumTx \in Nat \ {0, 1}
  /\ Alone \subseteq Frames /\ Empty \notin Frames
  /\ MaxPending \in Nat

VARIABLES
  card,        \* the registers and rings of the card, see CardType
  cpu,         \* what it executes: "task", "idle", "net" or "irq"
  irq,         \* the handler that executes: what it has interrupted, what it has read
  suspended,   \* the handlers that wait for their task to run again
  rx_queue,    \* e1000->rx_queue
  rx_count,    \* e1000->rx_sem.count
  net,         \* ktask_net: "blocked", "woken" in semaphore_acquire() or "ready"
  packet,      \* the packet that ktask_net handles
  gateway_mac, \* netif->gateway_mac, NULL while it is not configured
  halted,      \* a failed assertion has stopped the machine
  \* What has happened, for the properties:
  pending,     \* the frames that the card has accepted and nobody has taken
  unsent,      \* the frames given to the card and not sent, since it lost some
  last         \* the frame that the step just taken has handled, and its outcome

netVars == <<card, cpu, irq, suspended, rx_queue, rx_count, net, packet,
             gateway_mac, halted, pending, unsent, last>>

NULL == "NULL"
Nothing == [frame |-> Empty, verdict |-> "none", reply |-> << >>]

OurIp == <<10, 0, 0, 2>>
Gateway == <<10, 20, 0, 1>>

SetOf(seq) == {seq[i] : i \in DOMAIN seq}

RxNext(i) == (i + 1) % NumRx

-----------------------------------------------------------------------------
(* checksum.c.  Data is a sequence of bytes.                                *)

Word(data, i) == data[2 * i - 1] * 256 + data[2 * i]

\* A last odd byte does not count.
SumOfWords(data) ==
  FoldLeft(LAMBDA v, i : v + Word(data, i), 0, [i \in 1..(Len(data) \div 2) |-> i])

\* Mutant: folds the carries in once.
FoldedOnce(v) == 65535 - (((v \div 65536) + (v % 65536)) % 65536)

\* Both add the carries to the low word twice and return the complement.
Folded(v) ==
  LET once == (v \div 65536) + (v % 65536)
  IN 65535 - ((once + (once \div 65536)) % 65536)

net_calc_checksum(data) == Folded(SumOfWords(data))

\* Mutant: leaves a last odd byte out.
net_calc_checksum2_even(data1, data2, checksum) ==
  Folded(SumOfWords(data1) + SumOfWords(data2) - checksum)

\* This one counts an odd byte of the second part, leaves out the checksum
\* which that part holds, and folds the sum of the first part early.
net_calc_checksum2(data1, data2, checksum) ==
  LET v == SumOfWords(data1)
      w == IF v > 65535 THEN (v \div 65536) + (v % 65536) ELSE v
      odd == IF Len(data2) % 2 = 1 THEN data2[Len(data2)] * 256 ELSE 0
  IN Folded(w + SumOfWords(data2) - checksum + odd)

Bytes(w) == <<w \div 256, w % 256>>

-----------------------------------------------------------------------------
(* Sending.  An operator here gives the frames that reach send_packet().    *)

net_send_arp_reply(f) ==
  <<[type |-> "arp", op |-> "reply", dst |-> f.src, srcpr |-> OurIp, dstpr |-> f.srcpr]>>

\* Mutant: sends to the gateway whether or not its address is known.
net_send_ipv4_blind(mac, dstmac, protocol, dstip, data) ==
  <<[type |-> "ipv4", dst |-> IF dstmac # NULL THEN dstmac ELSE mac,
     protocol |-> protocol, dstip |-> dstip, data |-> data]>>

\* Without an address it goes to the gateway, once that is configured.
net_send_ipv4(mac, dstmac, protocol, dstip, data) ==
  LET to == IF dstmac # NULL THEN dstmac ELSE mac IN
  IF to = NULL THEN << >>
  ELSE <<[type |-> "ipv4", dst |-> to, protocol |-> protocol,
          dstip |-> dstip, data |-> data]>>

\* A header of eight bytes precedes the data.
net_send_udp(mac, dstip, srcport, dstport, data) ==
  net_send_ipv4(mac, NULL, "udp", dstip,
                Bytes(srcport) \o Bytes(dstport) \o Bytes(8 + Len(data)) \o <<0, 0>> \o data)

-----------------------------------------------------------------------------
(* Handling.  The outcome of a frame is whether it was "accepted" or        *)
(* "dropped", the frames sent and the gateway's address afterwards.         *)

Outcome(verdict, reply, mac) == [verdict |-> verdict, reply |-> reply, mac |-> mac]

Hello == <<104, 105>>

net_handle_arp(mac, f) ==
  CASE f.header # "good" -> Outcome("dropped", << >>, mac)
    [] f.header = "good" /\ f.op = "request" ->
         Outcome("accepted", IF f.dstpr = OurIp THEN net_send_arp_reply(f) ELSE << >>, mac)
    [] f.header = "good" /\ f.op = "reply" /\ f.srcpr = Gateway ->
         Outcome("accepted", net_send_udp(f.srchw, Gateway, 1234, 4321, Hello), f.srchw)
    [] OTHER -> Outcome("accepted", << >>, mac)

\* The reply to an echo request: the same with another type and checksum.
EchoReply(data) ==
  LET rest == SubSeq(data, 5, Len(data))
  IN <<0, 0>> \o Bytes(net_calc_checksum(<<0, 0, 0, 0>> \o rest)) \o rest

net_handle_icmp(mac, f) ==
  LET data == f.data
      zeroed == [data EXCEPT ![3] = 0, ![4] = 0]
  IN CASE Len(data) < 4 -> Outcome("dropped", << >>, mac)
       [] Len(data) >= 4 /\ Word(data, 2) # net_calc_checksum(zeroed) ->
            Outcome("dropped", << >>, mac)
       [] Len(data) >= 8 /\ data[1] = 8 /\ Word(data, 2) = net_calc_checksum(zeroed) ->
            Outcome("accepted",
                    net_send_ipv4(mac, f.src, "icmp", f.srcip, EchoReply(data)), mac)
       [] OTHER -> Outcome("accepted", << >>, mac)

\* Only looks at the segment.
net_handle_tcp(mac, f) ==
  LET data == f.data
      data_offset == (data[13] \div 16) * 4
      reserved == (data[13] % 16) \div 2
      header == f.srcip \o OurIp \o <<0, 6>> \o Bytes(Len(data))
  IN IF /\ Len(data) >= 20
        /\ data_offset >= 20
        /\ reserved = 0
        /\ Word(data, 9) = net_calc_checksum2(header, data, Word(data, 9))
     THEN Outcome("accepted", << >>, mac)
     ELSE Outcome("dropped", << >>, mac)

\* The length that it sends back counts the header too, so that the eight
\* bytes that follow the data in the frame are sent with it.  The length field
\* is never compared with the frame; it is right in the frames modelled.
net_handle_udp(mac, f) ==
  IF Len(f.data) < 8 THEN Outcome("dropped", << >>, mac)
  ELSE LET length == Word(f.data, 3)
           after == SubSeq(f.data \o f.trailer, 9, 8 + length)
       IN Outcome("accepted",
                  net_send_udp(mac, f.srcip, Word(f.data, 2), Word(f.data, 1), after), mac)

\* Of the header only counts which check fails, if any.
net_handle_ipv4(mac, f) ==
  CASE f.header # "good" -> Outcome("dropped", << >>, mac)
    [] f.header = "good" /\ f.dstip # OurIp -> Outcome("dropped", << >>, mac)
    [] f.header = "good" /\ f.dstip = OurIp /\ f.protocol = "icmp" -> net_handle_icmp(mac, f)
    [] f.header = "good" /\ f.dstip = OurIp /\ f.protocol = "tcp" -> net_handle_tcp(mac, f)
    [] f.header = "good" /\ f.dstip = OurIp /\ f.protocol = "udp" -> net_handle_udp(mac, f)
    [] OTHER -> Outcome("dropped", << >>, mac)

\* A frame that is too short, one of IPv6 and one of another type are dropped.
net_handle(mac, f) ==
  CASE f.type = "arp" -> net_handle_arp(mac, f)
    [] f.type = "ipv4" -> net_handle_ipv4(mac, f)
    [] OTHER -> Outcome("dropped", << >>, mac)

-----------------------------------------------------------------------------
(* The card.                                                                *)

\* What the bounds allow to arrive.
Arrivals ==
  LET coming == SetOf(pending) \cup {packet} IN
  IF Len(pending) = MaxPending \/ coming \cap Alone # {} THEN {}
  ELSE IF coming = {Empty} /\ unsent = << >> THEN Frames
  ELSE Frames \ Alone

\* A frame arrives: it goes into the descriptor at the head, unless the
\* driver has given none back.
CardReceive(f) ==
  /\ ~halted
  /\ \/ /\ card.rxHead # card.rxTail
        /\ card' = [card EXCEPT !.rx[card.rxHead] = f, !.rxHead = RxNext(@),
                                !.cause = @ \cup {"rx"}]
        /\ pending' = Append(pending, f)
     \/ /\ card.rxHead = card.rxTail
        /\ card' = [card EXCEPT !.cause = @ \cup {"overrun"}]
        /\ UNCHANGED pending
  /\ UNCHANGED <<cpu, irq, suspended, rx_queue, rx_count, net, packet,
                 gateway_mac, halted, unsent>>
  /\ last' = Nothing

\* The card sends the frame at the head of its other ring.  A descriptor that
\* it is done with is modelled as empty.
CardSend ==
  /\ ~halted
  /\ card.txHead # card.txTail
  /\ card' = [card EXCEPT !.tx[card.txHead] = Empty, !.txHead = (@ + 1) % NumTx]
  /\ unsent' = IF unsent = << >> THEN << >> ELSE Tail(unsent)
  /\ UNCHANGED <<cpu, irq, suspended, rx_queue, rx_count, net, packet,
                 gateway_mac, halted, pending>>
  /\ last' = Nothing

-----------------------------------------------------------------------------
(* e1000_irq().                                                             *)

\* It reads the causes, which clears them, and acknowledges the interrupt.
\* Only a received packet leads into the loop.  The other causes, a frame sent
\* or a change of the link, it reads and ignores; they are left out.
IrqEnter ==
  /\ ~halted
  /\ cpu \in {"task", "idle"} /\ card.cause # {}
  /\ card' = [card EXCEPT !.cause = {}]
  /\ \/ /\ "rx" \in card.cause
        /\ irq' = [from |-> cpu, overrun |-> "overrun" \in card.cause]
        /\ cpu' = "irq"
        /\ UNCHANGED halted
     \/ /\ "rx" \notin card.cause
        /\ halted' = ("overrun" \in card.cause)
        /\ UNCHANGED <<cpu, irq>>
  /\ UNCHANGED <<suspended, rx_queue, rx_count, net, packet, gateway_mac,
                 pending, unsent>>
  /\ last' = Nothing

\* Mutant: does not release the semaphore.
IrqTakeUnsignalled ==
  LET index == RxNext(card.rxTail) IN
  /\ ~halted /\ cpu = "irq"
  /\ card.rxTail # card.rxHead
  /\ card.rx[index] # Empty
  /\ card' = [card EXCEPT !.rx[index] = Empty, !.rxTail = index]
  /\ rx_queue' = Append(rx_queue, card.rx[index])
  /\ UNCHANGED <<cpu, irq, suspended, net, rx_count, packet, gateway_mac, halted, pending,
                 unsent>>
  /\ last' = Nothing

\* Mutant: marks the descriptor as read only when it gives it back.
IrqTakeMarksLate ==
  LET index == RxNext(card.rxTail) IN
  /\ ~halted /\ cpu = "irq"
  /\ card.rxTail # card.rxHead
  /\ card.rx[index] # Empty
  /\ rx_queue' = Append(rx_queue, card.rx[index])
  /\ IF net = "blocked"
     THEN net' = "woken" /\ UNCHANGED rx_count
     ELSE rx_count' = rx_count + 1 /\ UNCHANGED net
  /\ IF net = "blocked" /\ irq.from = "task"
     THEN /\ suspended' = suspended \cup {[index |-> index, overrun |-> irq.overrun]}
          /\ cpu' \in {"task", "net"}
          /\ irq' = [from |-> "idle", overrun |-> FALSE]
          /\ UNCHANGED card
     ELSE /\ card' = [card EXCEPT !.rx[index] = Empty, !.rxTail = index]
          /\ UNCHANGED <<suspended, cpu, irq>>
  /\ UNCHANGED <<packet, gateway_mac, halted, pending, unsent>>
  /\ last' = Nothing

\* Mutant: the handler that goes on gives the last descriptor back again.
IrqTakeKeepsTail ==
  LET index == RxNext(card.rxTail) IN
  /\ ~halted /\ cpu = "irq"
  /\ card.rxTail # card.rxHead
  /\ card.rx[index] # Empty
  /\ rx_queue' = Append(rx_queue, card.rx[index])
  /\ IF net = "blocked"
     THEN net' = "woken" /\ UNCHANGED rx_count
     ELSE rx_count' = rx_count + 1 /\ UNCHANGED net
  /\ IF net = "blocked" /\ irq.from = "task"
     THEN /\ card' = [card EXCEPT !.rx[index] = Empty]
          /\ suspended' = suspended \cup {[index |-> card.rxTail, overrun |-> irq.overrun]}
          /\ cpu' \in {"task", "net"}
          /\ irq' = [from |-> "idle", overrun |-> FALSE]
     ELSE /\ card' = [card EXCEPT !.rx[index] = Empty, !.rxTail = index]
          /\ UNCHANGED <<suspended, cpu, irq>>
  /\ UNCHANGED <<packet, gateway_mac, halted, pending, unsent>>
  /\ last' = Nothing

\* A round of its loop that finds a packet.  The task that it wakes, or
\* another, runs first unless the cpu was idle.
IrqTake ==
  LET index == RxNext(card.rxTail) IN
  /\ ~halted /\ cpu = "irq"
  /\ card.rxTail # card.rxHead
  /\ card.rx[index] # Empty
  /\ rx_queue' = Append(rx_queue, card.rx[index])
  /\ IF net = "blocked"
     THEN net' = "woken" /\ UNCHANGED rx_count
     ELSE rx_count' = rx_count + 1 /\ UNCHANGED net
  /\ IF net = "blocked" /\ irq.from = "task"
     THEN /\ card' = [card EXCEPT !.rx[index] = Empty]
          /\ suspended' = suspended \cup {[index |-> index, overrun |-> irq.overrun]}
          /\ cpu' \in {"task", "net"}
          /\ irq' = [from |-> "idle", overrun |-> FALSE]
     ELSE /\ card' = [card EXCEPT !.rx[index] = Empty, !.rxTail = index]
          /\ UNCHANGED <<suspended, cpu, irq>>
  /\ UNCHANGED <<packet, gateway_mac, halted, pending, unsent>>
  /\ last' = Nothing

\* The assertions of that round: the length that the card has written, and
\* memory for the copy.  Everybody allocates from the same heap, so that there
\* may be none at any time.
IrqCopyFails ==
  /\ ~halted /\ cpu = "irq"
  /\ card.rxTail # card.rxHead
  /\ card.rx[RxNext(card.rxTail)] # Empty
  /\ halted' = TRUE
  /\ UNCHANGED <<card, cpu, irq, suspended, rx_queue, rx_count, net, packet,
                 gateway_mac, pending, unsent>>
  /\ last' = Nothing

\* The task that a handler has interrupted runs again, in the handler.
IrqResume ==
  /\ ~halted /\ cpu = "task"
  /\ \E h \in suspended :
       /\ card' = [card EXCEPT !.rxTail = h.index]
       /\ suspended' = suspended \ {h}
       /\ irq' = [from |-> "task", overrun |-> h.overrun]
  /\ cpu' = "irq"
  /\ UNCHANGED <<rx_queue, rx_count, net, packet, gateway_mac, halted,
                 pending, unsent>>
  /\ last' = Nothing

\* Mutant: looks at the one packet that it was called for.
IrqLeaveEarly ==
  /\ ~halted /\ cpu = "irq"
  /\ cpu' = irq.from
  /\ irq' = [from |-> "idle", overrun |-> FALSE]
  /\ UNCHANGED <<card, suspended, rx_queue, rx_count, net, packet, halted,
                 gateway_mac, pending, unsent>>
  /\ last' = Nothing

\* A round that finds none, or the failed assertion that not every descriptor
\* holds a packet; and the one on an overrun.
IrqLeave ==
  /\ ~halted /\ cpu = "irq"
  /\ \/ card.rxTail = card.rxHead /\ halted' = TRUE
     \/ /\ card.rxTail # card.rxHead
        /\ card.rx[RxNext(card.rxTail)] = Empty
        /\ halted' = irq.overrun
  /\ cpu' = irq.from
  /\ irq' = [from |-> "idle", overrun |-> FALSE]
  /\ UNCHANGED <<card, suspended, rx_queue, rx_count, net, packet,
                 gateway_mac, pending, unsent>>
  /\ last' = Nothing

-----------------------------------------------------------------------------
(* Scheduling, and the task.                                                *)

\* Another task runs, or none if no task is ready.
Switch ==
  /\ ~halted
  /\ \/ cpu \in {"task", "idle"} /\ net # "blocked" /\ cpu' = "net"
     \/ cpu \in {"idle", "net"} /\ cpu' = "task"
     \/ cpu = "task" /\ net = "blocked" /\ suspended = {} /\ cpu' = "idle"
  /\ UNCHANGED <<card, irq, suspended, rx_queue, rx_count, net, packet, gateway_mac,
                 halted, pending, unsent>>
  /\ last' = Nothing

\* list_dequeue(), which asserts that the list is not empty.
Dequeue ==
  IF rx_queue = << >>
  THEN halted' = TRUE /\ UNCHANGED <<rx_queue, packet, pending>>
  ELSE /\ packet' = Head(rx_queue)
       /\ rx_queue' = Tail(rx_queue)
       /\ pending' = Tail(pending)
       /\ UNCHANGED halted

\* Mutant: takes a unit also after it has been handed one.
e1000_receive_packet_twice ==
  /\ ~halted /\ cpu = "net" /\ packet = Empty
  /\ \/ /\ net = "woken" \/ rx_count > 0
        /\ net' = "ready"
        /\ rx_count' = rx_count - 1
        /\ Dequeue
        /\ UNCHANGED cpu
     \/ /\ net = "ready" /\ rx_count = 0
        /\ net' = "blocked" /\ cpu' = "task"
        /\ UNCHANGED <<rx_count, rx_queue, packet, pending, halted>>
  /\ last' = Nothing
  /\ UNCHANGED <<card, irq, suspended, gateway_mac, unsent>>

\* e1000_receive_packet(), in which the task may have to wait.
e1000_receive_packet ==
  /\ ~halted /\ cpu = "net" /\ packet = Empty
  /\ \/ net = "woken" /\ net' = "ready" /\ Dequeue /\ UNCHANGED <<rx_count, cpu>>
     \/ /\ net = "ready" /\ rx_count > 0
        /\ rx_count' = rx_count - 1
        /\ Dequeue
        /\ UNCHANGED <<net, cpu>>
     \/ /\ net = "ready" /\ rx_count = 0
        /\ net' = "blocked"
        /\ cpu' \in {"task"} \cup (IF suspended = {} THEN {"idle"} ELSE {})
        /\ UNCHANGED <<rx_count, rx_queue, packet, pending, halted>>
  /\ UNCHANGED <<card, irq, suspended, gateway_mac, unsent>>
  /\ last' = Nothing

\* Mutant: fills the descriptor after the tail and not the one at it.
e1000_send_packet_late(f) ==
  LET next == (card.txTail + 1) % NumTx IN
  IF next = card.txHead
  THEN /\ card' = [card EXCEPT !.tx = [i \in DOMAIN @ |-> Empty], !.txTail = next]
       /\ unsent' = << >>
  ELSE /\ card' = [card EXCEPT !.tx[next] = f, !.txTail = next]
       /\ unsent' = Append(unsent, f)

\* Fills the descriptor at the tail and advances it, wherever the head is.
\* When it reaches the head the card takes the ring for empty: all that was
\* to be sent is lost.
e1000_send_packet(f) ==
  LET next == (card.txTail + 1) % NumTx IN
  IF next = card.txHead
  THEN /\ card' = [card EXCEPT !.tx = [i \in DOMAIN @ |-> Empty], !.txTail = next]
       /\ unsent' = << >>
  ELSE /\ card' = [card EXCEPT !.tx[card.txTail] = f, !.txTail = next]
       /\ unsent' = Append(unsent, f)

\* The rest of a round of ktask_net().
ktask_net ==
  LET outcome == net_handle(gateway_mac, packet) IN
  /\ ~halted /\ cpu = "net" /\ packet # Empty
  /\ packet' = Empty
  /\ gateway_mac' = outcome.mac
  /\ last' = [frame |-> packet, verdict |-> outcome.verdict, reply |-> outcome.reply]
  /\ IF outcome.reply = << >> THEN UNCHANGED <<card, unsent>>
     ELSE e1000_send_packet(outcome.reply[1])
  /\ UNCHANGED <<cpu, irq, suspended, rx_queue, rx_count, net, halted, pending>>

-----------------------------------------------------------------------------
\* Mutant: leaves the card no descriptor at all.
FirstRxTailZero == 0

FirstRxTail == NumRx - 1

\* After e1000_device_init(): the card owns all descriptors but one, and the
\* task has been spawned.
Init ==
  /\ card = [rx |-> [i \in 0..NumRx - 1 |-> Empty], rxHead |-> 0, rxTail |-> FirstRxTail,
             tx |-> [i \in 0..NumTx - 1 |-> Empty], txHead |-> 0, txTail |-> 0,
             cause |-> {}]
  /\ cpu = "task"
  /\ irq = [from |-> "idle", overrun |-> FALSE]
  /\ suspended = {}
  /\ rx_queue = << >> /\ rx_count = 0
  /\ net = "ready" /\ packet = Empty
  /\ gateway_mac = NULL
  /\ halted = FALSE
  /\ pending = << >> /\ unsent = << >>
  /\ last = Nothing

Stopped == halted /\ UNCHANGED netVars

Card == (\E f \in Arrivals : CardReceive(f)) \/ CardSend
Handler == IrqEnter \/ IrqTake \/ IrqCopyFails \/ IrqResume \/ IrqLeave
Task == Switch \/ e1000_receive_packet \/ ktask_net

Next == Card \/ Handler \/ Task \/ Stopped

Spec == Init /\ [][Next]_netVars

-----------------------------------------------------------------------------
(* Properties.                                                              *)

Macs == {f.srchw : f \in {g \in Frames : g.type = "arp"}}

\* The state stays within its types.
NetTypeOK ==
  /\ card.rx \in [0..NumRx - 1 -> Frames \cup {Empty}]
  /\ {card.rxHead, card.rxTail} \subseteq 0..NumRx - 1
  /\ {card.txHead, card.txTail} \subseteq 0..NumTx - 1 /\ DOMAIN card.tx = 0..NumTx - 1
  /\ card.cause \subseteq {"rx", "overrun"}
  /\ cpu \in {"task", "idle", "net", "irq"}
  /\ irq \in [from : {"task", "idle"}, overrun : BOOLEAN]
  /\ \A h \in suspended : h.index \in 0..NumRx - 1 /\ h.overrun \in BOOLEAN
  /\ rx_queue \in Seq(Frames) /\ pending \in Seq(Frames)
  /\ rx_count \in 0..MaxPending
  /\ net \in {"blocked", "woken", "ready"}
  /\ packet \in Frames \cup {Empty}
  /\ gateway_mac \in Macs \cup {NULL}
  /\ halted \in BOOLEAN

\* The frames between the tail and the head of the ring that nobody has taken:
\* a suspended handler has taken the first one.
Filled == (card.rxHead - card.rxTail - 1) % NumRx
InRing ==
  LET taken == Cardinality(suspended) IN
  [k \in 1..(Filled - taken) |-> card.rx[(card.rxTail + taken + k) % NumRx]]

\* Every frame that the card has accepted reaches ktask_net() once and in the
\* order of arrival, also when e1000_irq() is suspended between emptying a
\* descriptor and giving it back and another e1000_irq() runs meanwhile.
ReceivedInOrder == pending = rx_queue \o InRing

\* The units of rx_sem are as many as the packets in rx_queue: list_dequeue()
\* in e1000_receive_packet() never finds the list empty.
UnitsMatchPackets ==
  rx_count + (IF net = "woken" THEN 1 ELSE 0) = Len(rx_queue)

\* A packet in the ring is announced by a cause that the driver has not read,
\* or a handler is still to look at it: reading the causes, taking packets
\* and leaving lose none that arrives in between.
NoForgottenPacket ==
  InRing # << >> => halted \/ "rx" \in card.cause \/ cpu = "irq" \/ suspended # {}

\* A handler that is resumed advances the tail by one and never moves it
\* back, whatever other handlers have done since.
TailAdvances ==
  /\ Cardinality(suspended) <= 1
  /\ \A h \in suspended : h.index = RxNext(card.rxTail)

\* The ring for sending holds the frames that the card has been given, in
\* order, since the last burst that was longer than the ring.
SentInOrder ==
  unsent = [k \in 1..((card.txTail - card.txHead) % NumTx) |->
              card.tx[(card.txHead + k - 1) % NumTx]]

\* Every descriptor but the one at the tail holds a packet, or a suspended
\* handler has taken it and not given it back.
RingFull ==
  \A i \in DOMAIN card.rx \ {card.rxTail} :
    card.rx[i] # Empty \/ \E h \in suspended : h.index = i

\* The handler has found a packet, which it has to copy.
AtPacket ==
  /\ cpu = "irq" /\ card.rxTail # card.rxHead
  /\ card.rx[RxNext(card.rxTail)] # Empty

\* The card runs out of descriptors only when all but one hold a packet that
\* nobody has given back, and an assertion of the driver fails only when it
\* has run out, or is about to, or cannot copy a packet: list_dequeue(), and
\* whatever e1000_irq() does after a switch, never fail one.
StopsOnlyWhenFull ==
  [][/\ "overrun" \in card'.cause \ card.cause => RingFull
     /\ halted' # halted =>
          \/ card.rxHead = card.rxTail \/ irq.overrun \/ "overrun" \in card.cause
          \/ AtPacket]_netVars

\* The reference for checksum.c: the complement of a one's complement sum, as
\* a sender computes it, and the test of a message that holds its checksum.
OnesSum(n) == IF n = 0 THEN 0 ELSE ((n - 1) % 65535) + 1
ChecksumOf(n) == 65535 - OnesSum(n)
Verifies(data) == OnesSum(SumOfWords(data)) = 65535

ForUs(f, protocol) ==
  f.type = "ipv4" /\ f.header = "good" /\ f.dstip = OurIp /\ f.protocol = protocol

\* The sum of the words of data without its i-th, which holds the checksum.
SumWithout(data, i) == SumOfWords(data) - Word(data, i)

\* net_handle_icmp() answers an echo request whose checksum is that of its
\* words, and no other message.  The answer goes to the sender, carries the
\* same data and holds its own checksum.  A last odd byte is under neither of
\* them: it is sent back as it came, damaged or not.
AnswersEcho ==
  LET f == last.frame
      n == Len(f.data)
      asked == n >= 8 /\ f.data[1] = 8 /\ Word(f.data, 2) = ChecksumOf(SumWithout(f.data, 2))
      answer == last.reply[1].data
  IN last # Nothing /\ ForUs(f, "icmp") =>
       /\ Len(last.reply) = IF asked THEN 1 ELSE 0
       /\ asked =>
            /\ last.reply[1].dst = f.src /\ last.reply[1].dstip = f.srcip
            /\ Len(answer) = n /\ answer[1] = 0
            /\ SubSeq(answer, 5, n) = SubSeq(f.data, 5, n)
            /\ Word(answer, 2) = ChecksumOf(SumWithout(answer, 2))
            /\ Verifies(answer)

\* net_handle_tcp() accepts the segments whose header is whole, has its
\* reserved bits clear and holds the checksum of the pseudo header and of the
\* segment, a last odd byte included, and no others.
JudgesSegments ==
  LET f == last.frame
      n == Len(f.data)
      padded == IF n % 2 = 1 THEN Append(f.data, 0) ELSE f.data
      pseudo == f.srcip \o OurIp \o <<0, 6>> \o Bytes(n)
  IN last # Nothing /\ ForUs(f, "tcp") =>
       (last.verdict = "accepted" <=>
          /\ n >= 20
          /\ f.data[13] >= 5 * 16 /\ f.data[13] % 16 < 2
          /\ Word(f.data, 9) = ChecksumOf(SumOfWords(pseudo) + SumWithout(padded, 9)))

\* net_handle_udp() sends a datagram back once the gateway is known, to the
\* port and address it came from and with its data first; one that is shorter
\* than its header it drops.
EchoesDatagrams ==
  LET f == last.frame
      reply == last.reply[1]
  IN last # Nothing /\ ForUs(f, "udp") =>
       /\ Len(last.reply) = IF gateway_mac = NULL \/ Len(f.data) < 8 THEN 0 ELSE 1
       /\ last.reply # << >> =>
            /\ reply.dst = gateway_mac /\ reply.dstip = f.srcip
            /\ Word(reply.data, 1) = Word(f.data, 2) /\ Word(reply.data, 2) = Word(f.data, 1)
            /\ Word(reply.data, 3) = Len(reply.data)
            /\ IsPrefix(SubSeq(f.data, 9, Len(f.data)), SubSeq(reply.data, 9, Len(reply.data)))

\* Frames pass the receive ring and rx_queue once and in order, although
\* handlers are suspended in the middle of a round.
FramesArrive == NetTypeOK /\ ReceivedInOrder /\ TailAdvances

\* Whoever has to act on a frame is told: the handler by a cause, ktask_net()
\* by a unit of rx_sem.
FramesAnnounced == UnitsMatchPackets /\ NoForgottenPacket

\* The answers of net.c, udp.c and tcp.c, with their checksums, are right.
AnswersRight == AnswersEcho /\ JudgesSegments /\ EchoesDatagrams
=============================================================================
