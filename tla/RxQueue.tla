------------------------------- MODULE RxQueue -------------------------------
(***************************************************************************)
(* The receive queue of the nRF24 transport (MyTransportNRF24.cpp with     *)
(* MY_RX_MESSAGE_BUFFER_FEATURE): the interrupt handler of the radio       *)
(* (RF24.cpp) fills a circular buffer (CircularBuffer.h) from which        *)
(* transportProcessFIFO() takes the messages.                              *)
(*                                                                         *)
(* The handler may run between any two steps of the main thread, which     *)
(* stands still until it is done; messages arrive at any time.  What runs  *)
(* in a MY_CRITICAL_SECTION is one step.  Messages are numbered in the     *)
(* order in which they arrive.                                             *)
(***************************************************************************)
EXTENDS Integers, Sequences

CONSTANTS
  Size,               \* MY_RX_MESSAGE_BUFFER_SIZE
  RadioFifo,          \* messages the radio holds
  LostMax,            \* 255, the largest value of transportLostMessageCount
  MaxMessages,        \* bound: messages that arrive
  MaxFaults           \* bound: wrong payload lengths, new initialisations

ASSUME SizeAssumption ==
  /\ Size \in Nat \ {0} /\ RadioFifo \in Nat \ {0} /\ LostMax \in Nat

ASSUME RxBoundAssumption == MaxMessages \in Nat /\ MaxFaults \in Nat

Nothing == 0          \* what a message of length 0 holds
Numbers == 0 .. MaxMessages
Slots == 0 .. Size - 1
Nowhere == -1         \* NULL

VARIABLES
  \* the radio
  fifo,               \* RX FIFO
  rxDR,               \* RX_DR in the STATUS register: the IRQ line is low
  pending,            \* the line fell, and the handler has not run since
  \* the handler
  isr,                \* where it is
  target,             \* the record it fills
  \* the queue
  slots,              \* m_buff: length and data of every record
  front,              \* m_front
  fill,               \* m_fill
  lost,               \* transportLostMessageCount
  \* the main thread
  main,               \* where it is
  source,             \* the record it reads
  msg,                \* _msg: length and data
  \* history
  arrived,            \* the number of the last message that arrived
  taken, handed,      \* what was handed over last, and the last number
  received,           \* how many were
  faults

radio == <<fifo, rxDR, pending>>
handler == <<isr, target>>
queue == <<slots, front, fill>>
reader == <<main, source, msg>>
history == <<arrived, taken, handed, received, faults>>
vars == <<fifo, rxDR, pending, isr, target, slots, front, fill, lost,
          main, source, msg, arrived, taken, handed, received, faults>>

Records == [len : Numbers, data : Numbers]

TypeOK ==
  /\ fifo \in Seq(1 .. MaxMessages) /\ Len(fifo) <= RadioFifo
  /\ rxDR \in BOOLEAN /\ pending \in BOOLEAN
  /\ isr \in {"idle", "available", "full", "getFront", "read", "status", "push"}
  /\ target \in Slots \cup {Nowhere}
  /\ slots \in [Slots -> Records]
  /\ front \in Slots /\ fill \in 0 .. Size
  /\ lost \in 0 .. LostMax
  /\ main \in {"empty", "getBack", "length", "copy", "pop"}
  /\ source \in Slots \cup {Nowhere}
  /\ msg \in Records
  /\ arrived \in Numbers /\ taken \in Records /\ handed \in Numbers
  /\ received \in Nat /\ faults \in 0 .. MaxFaults

Init ==
  /\ fifo = <<>> /\ rxDR = FALSE /\ pending = FALSE
  /\ isr = "idle" /\ target = Nowhere
  /\ slots = [i \in Slots |-> [len |-> Nothing, data |-> Nothing]]
  /\ front = 0 /\ fill = 0 /\ lost = 0
  /\ main = "empty" /\ source = Nowhere
  /\ msg = [len |-> Nothing, data |-> Nothing]
  /\ arrived = 0 /\ taken = msg /\ handed = 0 /\ received = 0 /\ faults = 0

-----------------------------------------------------------------------------
(* The radio *)

\* A message is received and acknowledged while there is room for it; RX_DR is
\* set, and the line falls unless it is low already.
Arrive ==
  /\ arrived < MaxMessages /\ Len(fifo) < RadioFifo
  /\ arrived' = arrived + 1
  /\ fifo' = Append(fifo, arrived + 1)
  /\ rxDR' = TRUE
  /\ pending' = (pending \/ ~rxDR)
  /\ UNCHANGED <<handler, queue, lost, reader, taken, handed, received, faults>>

-----------------------------------------------------------------------------
(* The circular buffer *)

Full == fill = Size

\* get(back()) plus i: the record of the message in place i
Place(i) == (front - fill + i + Size) % Size

-----------------------------------------------------------------------------
(* RF24_irqHandler and transportRxCallback *)

Interrupt ==
  /\ isr = "idle" /\ pending
  /\ pending' = FALSE /\ isr' = "available"
  /\ UNCHANGED <<fifo, rxDR, target, queue, lost, reader, history>>

\* RF24_isDataAvailable: the loop of the handler
CheckFifo ==
  /\ isr = "available"
  /\ isr' = IF fifo = <<>> THEN "idle" ELSE "full"
  /\ UNCHANGED <<radio, target, queue, lost, reader, history>>

\* A message that finds the queue full is read into no record.
TestFull ==
  /\ isr = "full"
  /\ isr' = IF Full THEN "read" ELSE "getFront"
  /\ target' = IF Full THEN Nowhere ELSE target
  /\ UNCHANGED <<radio, queue, lost, reader, history>>

GetFront ==
  /\ isr = "getFront"
  /\ target' = IF Full THEN Nowhere ELSE front
  /\ isr' = "read"
  /\ UNCHANGED <<radio, queue, lost, reader, history>>

Store(m) ==
  slots' = IF target = Nowhere THEN slots ELSE [slots EXCEPT ![target].data = m]

\* RF24_readMessage: the oldest message, or none and an empty FIFO if its
\* length is invalid
ReadPayload ==
  /\ isr = "read"
  /\ isr' = "status"
  /\ \/ fifo' = Tail(fifo) /\ Store(Head(fifo)) /\ UNCHANGED faults
     \/ /\ faults < MaxFaults /\ faults' = faults + 1
        /\ fifo' = <<>> /\ Store(Nothing)
  /\ UNCHANGED <<rxDR, pending, target, front, fill, lost, reader,
                 arrived, taken, handed, received>>

\* Mutation: the counter of lost messages starts anew.
ClearStatusWrap ==
  /\ isr = "status"
  /\ rxDR' = FALSE
  /\ IF target = Nowhere
     THEN isr' = "available" /\ lost' = 0 /\ UNCHANGED slots
     ELSE isr' = "push" /\ slots' = [slots EXCEPT ![target].len = slots[target].data]
                       /\ UNCHANGED lost
  /\ UNCHANGED <<fifo, pending, target, front, fill, reader, history>>

\* RX_DR is cleared; the length is stored, or the message is counted as lost.
ClearStatus ==
  /\ isr = "status"
  /\ rxDR' = FALSE
  /\ IF target = Nowhere
     THEN /\ isr' = "available" /\ UNCHANGED slots
          /\ lost' = IF lost < LostMax THEN lost + 1 ELSE lost
     ELSE /\ isr' = "push" /\ UNCHANGED lost
          /\ slots' = [slots EXCEPT ![target].len = slots[target].data]
  /\ UNCHANGED <<fifo, pending, target, front, fill, reader, history>>

\* Mutation: the handler handles one message.
PushOnce ==
  /\ isr = "push"
  /\ isr' = "idle" /\ target' = Nowhere
  /\ front' = (front + 1) % Size /\ fill' = fill + 1
  /\ UNCHANGED <<radio, slots, lost, reader, history>>

\* pushFront() of the record that getFront() returned
Push ==
  /\ isr = "push"
  /\ isr' = "available" /\ target' = Nowhere
  /\ IF Full THEN UNCHANGED <<front, fill>>
     ELSE front' = (front + 1) % Size /\ fill' = fill + 1
  /\ UNCHANGED <<radio, slots, lost, reader, history>>

-----------------------------------------------------------------------------
(* transportProcessFIFO: transportAvailable and transportReceive *)

TestEmpty ==
  /\ main = "empty" /\ fill > 0
  /\ main' = "getBack"
  /\ UNCHANGED <<radio, handler, queue, lost, source, msg, history>>

\* Mutation: the record is given back before it is read.
GetBackAndPop ==
  /\ main = "getBack"
  /\ source' = Place(0) /\ fill' = fill - 1
  /\ main' = "length"
  /\ UNCHANGED <<radio, handler, slots, front, lost, msg, history>>

\* Mutation: the newest message is taken first.
GetNewest ==
  /\ main = "getBack"
  /\ source' = IF fill = 0 THEN Nowhere ELSE Place(fill - 1)
  /\ main' = IF fill = 0 THEN "empty" ELSE "length"
  /\ UNCHANGED <<radio, handler, queue, lost, msg, history>>

GetBack ==
  /\ main = "getBack"
  /\ source' = IF fill = 0 THEN Nowhere ELSE Place(0)
  /\ main' = IF fill = 0 THEN "empty" ELSE "length"
  /\ UNCHANGED <<radio, handler, queue, lost, msg, history>>

CopyLength ==
  /\ main = "length"
  /\ msg' = [msg EXCEPT !.len = slots[source].len]
  /\ main' = "copy"
  /\ UNCHANGED <<radio, handler, queue, lost, source, history>>

CopyData ==
  /\ main = "copy"
  /\ msg' = [msg EXCEPT !.data = slots[source].data]
  /\ main' = "pop"
  /\ UNCHANGED <<radio, handler, queue, lost, source, history>>

\* RF24_initialize, when the transport starts anew: the radio listens no more,
\* its FIFO is flushed and RX_DR cleared; an interrupt may be pending already.
Initialize ==
  /\ main = "empty" /\ faults < MaxFaults
  /\ faults' = faults + 1
  /\ fifo' = <<>> /\ rxDR' = FALSE
  /\ UNCHANGED <<pending, handler, queue, lost, reader, arrived, taken, handed,
                 received>>

\* popBack(); the message is handed to transportProcessMessage(), which drops
\* one without length.
Pop ==
  /\ main = "pop"
  /\ main' = "empty" /\ source' = Nowhere
  /\ fill' = IF fill = 0 THEN 0 ELSE fill - 1
  /\ taken' = msg /\ received' = received + 1
  /\ handed' = IF msg.len = Nothing THEN handed ELSE msg.data
  /\ UNCHANGED <<radio, handler, slots, front, lost, msg, arrived, faults>>

-----------------------------------------------------------------------------
Handle ==
  \/ Interrupt \/ CheckFifo \/ TestFull \/ GetFront \/ ReadPayload
  \/ ClearStatus \/ Push

\* The main thread runs when the handler does not.
MainThread ==
  /\ isr = "idle"
  /\ TestEmpty \/ GetBack \/ CopyLength \/ CopyData \/ Pop \/ Initialize

Next == Arrive \/ Handle \/ MainThread

Spec == Init /\ [][Next]_vars

\* The handler runs when its line has fallen, and loop() calls _process().
FairSpec == Spec /\ WF_vars(Handle) /\ WF_vars(MainThread)

-----------------------------------------------------------------------------
(* Properties *)

\* What the main thread has copied when it gives the record back is the oldest
\* message, whole: the handler has not written to the record meanwhile.
ReceivesWhole ==
  main = "pop" => fill > 0 /\ msg = slots[Place(0)] /\ msg.len = msg.data

\* The messages handed over are newer than those before, so that none comes
\* twice or out of order.
InOrder ==
  [][received' # received /\ taken'.len # Nothing => handed' > handed]_vars

\* In the hand of the handler: a message read, and neither pushed nor counted.
InHand == IF isr \in {"status", "push"} THEN 1 ELSE 0

\* Every message that has arrived is in the FIFO, in the hand of the handler,
\* in the queue, or was handed over, unless it was counted as lost: the queue
\* was full.
NoneLostSilently ==
  faults = 0 /\ lost < LostMax =>
    arrived = Len(fifo) + InHand + fill + received + lost

\* The interrupt comes for every message: none stays in the FIFO or in the
\* queue, though RX_DR is cleared while others arrive.
NoneStuck == (fifo # <<>> \/ fill > 0) ~> (fifo = <<>> /\ fill = 0)

\* What waits in the queue, oldest first
Waiting == [i \in 1 .. fill |-> slots[Place(i - 1)]]

\* The queue keeps the promise of Mailbox: what the handler pushes is put into
\* it in one step, and popped whole, though both take many steps to fill and to
\* copy a record.
Promise == INSTANCE Mailbox
  WITH Letters <- Records, Capacity <- Size, box <- Waiting

KeepsMailboxPromise == Promise!Spec
=============================================================================
