--------------------------- MODULE RxQueue_proofs ---------------------------
(***************************************************************************)
(* Proofs about RxQueue, for every size of the queue and of the FIFO of    *)
(* the radio, and any number of messages.                                  *)
(***************************************************************************)
EXTENDS RxQueue, SequenceTheorems, TLAPS

-----------------------------------------------------------------------------
(* The inductive invariant *)

\* The messages in the queue, and the one in the record of the handler
Queued(i) == slots[Place(i)].data
Held == isr \in {"status", "push"} /\ target # Nowhere

\* The handler fills the record at the front, which nobody reads, and pushes
\* it only if there is room.
HandlerInv ==
  /\ isr \in {"idle", "available", "full", "getFront"} => target = Nowhere
  /\ isr \in {"full", "getFront", "read"} => fifo # <<>>
  /\ isr = "getFront" => fill < Size
  /\ isr \in {"read", "status", "push"} =>
       target = Nowhere \/ (target = front /\ fill < Size)
  /\ isr = "push" =>
       /\ target = front /\ fill < Size
       /\ slots[front].len = slots[front].data

\* The main thread reads the oldest record, and what it has copied is there.
ReaderInv ==
  /\ main # "empty" => fill > 0
  /\ main \in {"length", "copy", "pop"} => source = Place(0)
  /\ main \in {"copy", "pop"} => msg.len = slots[Place(0)].len
  /\ main = "pop" => msg.data = slots[Place(0)].data
  /\ \A i \in 0 .. fill - 1 : slots[Place(i)].len = slots[Place(i)].data

\* Messages are in order: handed over, queued, held, in the FIFO, arrived.
QueueInOrder ==
  \A i \in 0 .. fill - 1 : Queued(i) # Nothing =>
    /\ handed < Queued(i) /\ Queued(i) <= arrived
    /\ \A j \in 0 .. fill - 1 : i < j /\ Queued(j) # Nothing => Queued(i) < Queued(j)
    /\ Held /\ slots[target].data # Nothing => Queued(i) < slots[target].data
    /\ \A k \in 1 .. Len(fifo) : Queued(i) < fifo[k]

HeldInOrder ==
  Held /\ slots[target].data # Nothing =>
    /\ handed < slots[target].data /\ slots[target].data <= arrived
    /\ \A k \in 1 .. Len(fifo) : slots[target].data < fifo[k]

FifoInOrder ==
  \A k \in 1 .. Len(fifo) :
    /\ handed < fifo[k] /\ fifo[k] <= arrived
    /\ \A l \in 1 .. Len(fifo) : k < l => fifo[k] < fifo[l]

OrderInv == handed <= arrived /\ QueueInOrder /\ HeldInOrder /\ FifoInOrder

IInv == TypeOK /\ HandlerInv /\ ReaderInv /\ OrderInv /\ NoneLostSilently
-----------------------------------------------------------------------------
(* Records of the circular buffer *)

LEMMA ModSmall ==
  ASSUME NEW n \in Nat \ {0}, NEW x \in 0 .. n - 1
  PROVE x % n = x
  BY SMT

LEMMA ModLarge ==
  ASSUME NEW n \in Nat \ {0}, NEW x \in n .. 2 * n - 1
  PROVE x % n = x - n
  BY SMT

\* The record in place i, counted from f - n.
Around(f, n, i) == IF f - n + i < 0 THEN f - n + i + Size ELSE f - n + i

LEMMA AroundMod ==
  ASSUME NEW f \in Slots, NEW n \in 0 .. Size, NEW i \in 0 .. n - 1
  PROVE (f - n + i + Size) % Size = Around(f, n, i)
<1> DEFINE x == f - n + i + Size
<1> USE SizeAssumption
<1>1. CASE f - n + i < 0
  <2>1. x \in 0 .. Size - 1
    BY <1>1, SMT DEF Slots
  <2>2. x % Size = x
    BY <2>1, ModSmall
  <2> QED
    BY <2>2, <1>1, SMT DEF Slots, Around
<1>2. CASE ~(f - n + i < 0)
  <2>1. x \in Size .. 2 * Size - 1
    BY <1>2, SMT DEF Slots
  <2>2. x % Size = x - Size
    BY <2>1, ModLarge
  <2> QED
    BY <2>2, <1>2, SMT DEF Slots, Around
<1> QED
  BY <1>1, <1>2

\* A queued message is in a record that is not the front, if there is room.
LEMMA PlaceInSlots ==
  ASSUME TypeOK, NEW i \in 0 .. fill - 1
  PROVE Place(i) \in Slots /\ (fill < Size => Place(i) # front)
<1>1. Place(i) = Around(front, fill, i)
  BY AroundMod DEF TypeOK, Place
<1> QED
  BY <1>1, SizeAssumption, SMT DEF TypeOK, Slots, Around

\* As long as nobody pushes or pops, everything stays in its place.
LEMMA PlaceKept ==
  ASSUME UNCHANGED <<front, fill>>, NEW i
  PROVE Place(i)' = Place(i)
  BY DEF Place

\* A push leaves what is queued in its place, and puts the front behind it.
LEMMA PlacePushed ==
  ASSUME TypeOK, TypeOK', fill < Size, fill' = fill + 1, front' = (front + 1) % Size
  PROVE \A i \in 0 .. fill : Place(i)' = IF i < fill THEN Place(i) ELSE front
<1> USE SizeAssumption
<1>1. front' = IF front + 1 < Size THEN front + 1 ELSE 0
  <2>1. CASE front + 1 < Size
    <3>1. front + 1 \in 0 .. Size - 1
      BY <2>1, SMT DEF TypeOK, Slots
    <3> QED
      BY <3>1, <2>1, ModSmall
  <2>2. CASE ~(front + 1 < Size)
    <3>1. front + 1 \in Size .. 2 * Size - 1
      BY <2>2, SMT DEF TypeOK, Slots
    <3> QED
      <4>1. (front + 1) % Size = front + 1 - Size
        <5>1. \A x \in Size .. 2 * Size - 1 : x % Size = x - Size
          BY ModLarge
        <5>2. front \in Int
          BY DEF TypeOK, Slots
        <5> QED
          BY <3>1, <5>1, <5>2
      <4> QED
        BY <4>1, <2>2, SMT DEF TypeOK, Slots
  <2> QED
    BY <2>1, <2>2
<1>2. \A i \in 0 .. fill : (front' - fill' + i + Size) % Size = Around(front', fill', i)
  BY AroundMod, SMTT(20) DEF TypeOK
<1>3. \A i \in 0 .. fill - 1 : (front - fill + i + Size) % Size = Around(front, fill, i)
  BY AroundMod, SMT DEF TypeOK
<1>4. \A i \in 0 .. fill : Around(front', fill', i) =
                           IF i < fill THEN Around(front, fill, i) ELSE front
  <2> DEFINE F == front'
  <2>1. /\ front \in 0 .. Size - 1 /\ fill \in 0 .. Size - 1
        /\ F = IF front + 1 < Size THEN front + 1 ELSE 0
    BY <1>1, SMT DEF TypeOK, Slots
  <2> HIDE DEF F
  <2>2. \A i \in 0 .. fill : Around(F, fill + 1, i) =
                             IF i < fill THEN Around(front, fill, i) ELSE front
    BY <2>1, SMT DEF Around
  <2> QED
    BY <2>2 DEF F
<1> SUFFICES ASSUME NEW i \in 0 .. fill
             PROVE  Place(i)' = IF i < fill THEN Place(i) ELSE front
  OBVIOUS
<1>5. Place(i)' = Around(front', fill', i)
  BY <1>2 DEF Place
<1>6. i < fill => Place(i) = Around(front, fill, i)
  <2> SUFFICES ASSUME i < fill PROVE Place(i) = Around(front, fill, i)
    OBVIOUS
  <2>1. i \in 0 .. fill - 1
    BY SMT DEF TypeOK
  <2> QED
    BY <2>1, <1>3 DEF Place
<1> QED
  BY <1>4, <1>5, <1>6

\* A pop moves everything one place nearer.
LEMMA PlacePopped ==
  ASSUME TypeOK, fill > 0, fill' = fill - 1, front' = front, NEW i \in 0 .. fill - 2
  PROVE Place(i)' = Place(i + 1)
<1>1. front' - fill' + i + Size = front - fill + (i + 1) + Size
  BY SizeAssumption, SMT DEF TypeOK, Slots
<1> QED
  BY <1>1 DEF Place

\* A record that the queue still reads is not the one at the front.
LEMMA FrontIsFree ==
  ASSUME TypeOK, fill < Size
  PROVE \A i \in 0 .. fill - 1 : Place(i) \in Slots /\ Place(i) # front
  BY PlaceInSlots

-----------------------------------------------------------------------------
(* The order of the messages is kept by a step that leaves all of them alone *)

LEMMA OrderKept ==
  ASSUME TypeOK, OrderInv, UNCHANGED <<fifo, slots, front, fill, arrived, handed>>,
         Held' => Held /\ target' = target
  PROVE OrderInv'
<1>1. \A i : Place(i)' = Place(i)
  BY PlaceKept
<1> QED
  BY <1>1, SMT DEF OrderInv, QueueInOrder, HeldInOrder, FifoInOrder, Queued

-----------------------------------------------------------------------------
(* Every step keeps the types *)

LEMMA RecordsAre == Records = [len : Numbers, data : Numbers] /\ Numbers = 0 .. MaxMessages
  BY DEF Records, Numbers

\* The record that a variable points to
LEMMA SlotTypes ==
  ASSUME TypeOK, NEW t \in Slots
  PROVE slots[t] \in Records /\ slots[t].len \in Numbers /\ slots[t].data \in Numbers
  BY SMT DEF TypeOK, Records

LEMMA StoreTyped ==
  ASSUME TypeOK, NEW m \in Numbers, Store(m)
  PROVE slots' \in [Slots -> Records]
<1>1. CASE target = Nowhere
  BY <1>1, SMT DEF TypeOK, Store
<1>2. CASE target # Nowhere
  BY <1>2, SMT DEF TypeOK, Store, Records
<1> QED
  BY <1>1, <1>2

LEMMA TypePreserved ==
  ASSUME IInv, [Next]_vars
  PROVE TypeOK'
<1> USE SizeAssumption, RxBoundAssumption
<1>t. TypeOK /\ HandlerInv /\ ReaderInv
  BY DEF IInv
<1>1. CASE UNCHANGED vars
  BY <1>t, <1>1, SMT DEF TypeOK, vars
<1>2. CASE Arrive
  <2>1. arrived + 1 \in 1 .. MaxMessages
    BY <1>t, <1>2, SMT DEF TypeOK, Arrive, Numbers
  <2>2. fifo' \in Seq(1 .. MaxMessages) /\ Len(fifo') <= RadioFifo
    BY <2>1, <1>t, <1>2, SMT DEF TypeOK, Arrive
  <2> QED
    BY <2>1, <2>2, <1>t, <1>2, SMT DEF TypeOK, Arrive, handler, queue, reader, Numbers
<1>3. CASE Interrupt
  <2>1. rxDR' \in BOOLEAN /\ pending' \in BOOLEAN
    BY <1>t, <1>3 DEF TypeOK, Interrupt
  <2> QED
    BY <2>1, <1>t, <1>3, SMT DEF TypeOK, Interrupt, queue, reader, history
<1>4. CASE CheckFifo
  BY <1>t, <1>4, SMT DEF TypeOK, CheckFifo, radio, queue, reader, history
<1>5. CASE TestFull
  BY <1>t, <1>5, SMT DEF TypeOK, TestFull, radio, queue, reader, history
<1>6. CASE GetFront
  <2>1. target' \in Slots \cup {Nowhere}
    BY <1>t, <1>6 DEF TypeOK, GetFront
  <2> QED
    BY <2>1, <1>t, <1>6, SMT DEF TypeOK, GetFront, radio, queue, reader, history
<1>7. CASE ReadPayload
  <2>1. fifo # <<>>
    BY <1>t, <1>7 DEF ReadPayload, HandlerInv
  <2>2. Head(fifo) \in Numbers /\ Nothing \in Numbers /\ Tail(fifo) \in Seq(1 .. MaxMessages)
        /\ Len(Tail(fifo)) <= RadioFifo
    BY <2>1, <1>t, SMT DEF TypeOK, Numbers, Nothing
  <2>3. slots' \in [Slots -> Records]
    BY <2>2, <1>t, <1>7, StoreTyped DEF ReadPayload
  <2>4. <<>> \in Seq(1 .. MaxMessages) /\ Len(<<>>) <= RadioFifo
    BY SMT
  <2>5. fifo' = Tail(fifo) \/ fifo' = <<>>
    BY <1>7 DEF ReadPayload
  <2>6. fifo' \in Seq(1 .. MaxMessages) /\ Len(fifo') <= RadioFifo
    BY <2>2, <2>4, <2>5
  <2>7. faults' \in 0 .. MaxFaults
    BY <1>t, <1>7, SMT DEF ReadPayload, TypeOK
  <2> QED
    BY <2>3, <2>6, <2>7, <1>t, <1>7, SMT DEF TypeOK, ReadPayload, reader
<1>8. CASE ClearStatus
  <2>b. rxDR' \in BOOLEAN /\ pending' \in BOOLEAN
    BY <1>t, <1>8 DEF TypeOK, ClearStatus
  <2>1. CASE target = Nowhere
    <3>1. lost' \in 0 .. LostMax
      BY <2>1, <1>t, <1>8, SMT DEF TypeOK, ClearStatus
    <3> QED
      BY <3>1, <2>1, <2>b, <1>t, <1>8, SMT DEF TypeOK, ClearStatus, reader, history
  <2>2. CASE target # Nowhere
    <3>1. slots' \in [Slots -> Records]
      BY <2>2, <1>t, <1>8, SMT DEF TypeOK, ClearStatus, Records
    <3> QED
      BY <3>1, <2>2, <2>b, <1>t, <1>8, SMT DEF TypeOK, ClearStatus, reader, history
  <2> QED
    BY <2>1, <2>2
<1>9. CASE Push
  <2>1. fill < Size /\ ~Full
    BY <1>t, <1>9, SMT DEF Push, HandlerInv, Full, TypeOK
  <2>2. (front + 1) % Size \in Slots
    BY <1>t, SMT DEF TypeOK, Slots
  <2> QED
    BY <2>1, <2>2, <1>t, <1>9, SMT DEF TypeOK, Push, radio, reader, history
<1>10. CASE TestEmpty
  BY <1>t, <1>10, SMT DEF TypeOK, TestEmpty, radio, handler, queue, history
<1>11. CASE GetBack
  <2>1. fill > 0 => Place(0) \in Slots
    <3> SUFFICES ASSUME fill > 0 PROVE Place(0) \in Slots
      OBVIOUS
    <3>1. 0 \in 0 .. fill - 1
      BY <1>t, SMT DEF TypeOK
    <3> QED
      BY <3>1, <1>t, PlaceInSlots
  <2> QED
    BY <2>1, <1>t, <1>11, SMT DEF TypeOK, GetBack, radio, handler, queue, history
<1>a. main \in {"length", "copy"} => source \in Slots
  <2> SUFFICES ASSUME main \in {"length", "copy"} PROVE source \in Slots
    OBVIOUS
  <2>1. 0 \in 0 .. fill - 1 /\ source = Place(0)
    BY <1>t, SMT DEF TypeOK, ReaderInv
  <2> QED
    BY <2>1, <1>t, PlaceInSlots
<1>12. CASE CopyLength
  <2>1. slots[source].len \in Numbers
    BY <1>a, <1>t, <1>12, SlotTypes DEF CopyLength
  <2>2. msg' \in Records
    BY <2>1, <1>t, <1>12, SMT DEF TypeOK, CopyLength, Records
  <2> QED
    BY <2>2, <1>t, <1>12, SMT DEF TypeOK, CopyLength, radio, handler, queue, history
<1>13. CASE CopyData
  <2>1. slots[source].data \in Numbers
    BY <1>a, <1>t, <1>13, SlotTypes DEF CopyData
  <2>2. msg' \in Records
    BY <2>1, <1>t, <1>13, SMT DEF TypeOK, CopyData, Records
  <2> QED
    BY <2>2, <1>t, <1>13, SMT DEF TypeOK, CopyData, radio, handler, queue, history
<1>14. CASE Pop
  <2>1. msg \in Records /\ msg.data \in Numbers
    BY <1>t, SMT DEF TypeOK, Records
  <2>2. fill' \in 0 .. Size /\ received' \in Nat
    BY <1>t, <1>14, SMT DEF TypeOK, Pop
  <2> QED
    BY <2>1, <2>2, <1>t, <1>14, SMT DEF TypeOK, Pop, radio, handler
<1>15. CASE Initialize
  <2>1. rxDR' \in BOOLEAN /\ pending' \in BOOLEAN
    BY <1>t, <1>15 DEF TypeOK, Initialize
  <2>2. fifo' \in Seq(1 .. MaxMessages) /\ Len(fifo') <= RadioFifo /\ faults' \in 0 .. MaxFaults
    BY <1>t, <1>15, SMT DEF TypeOK, Initialize
  <2> QED
    BY <2>1, <2>2, <1>t, <1>15, SMT DEF TypeOK, Initialize, handler, queue, reader
<1> QED
  BY <1>1, <1>2, <1>3, <1>4, <1>5, <1>6, <1>7, <1>8, <1>9, <1>10, <1>11, <1>12,
     <1>13, <1>14, <1>15 DEF Next, Handle, MainThread

-----------------------------------------------------------------------------
(* Every step keeps the record of the handler its own *)

LEMMA HandlerPreserved ==
  ASSUME IInv, [Next]_vars
  PROVE HandlerInv'
<1>t. TypeOK /\ HandlerInv
  BY DEF IInv
<1>1. CASE UNCHANGED vars
  BY <1>t, <1>1, SMT DEF HandlerInv, vars
<1>2. CASE Arrive
  <2>1. fifo' # <<>>
    BY <1>t, <1>2, SMT DEF TypeOK, Arrive, Numbers
  <2> QED
    BY <2>1, <1>t, <1>2, SMT DEF HandlerInv, Arrive, handler, queue
<1>3. CASE Interrupt \/ CheckFifo
  BY <1>t, <1>3, SMT DEF HandlerInv, Interrupt, CheckFifo, radio, queue, Nowhere
<1>4. CASE TestFull
  <2>1. ~Full => fill < Size
    BY <1>t, SizeAssumption, SMT DEF TypeOK, Full
  <2> QED
    BY <2>1, <1>t, <1>4, SMT DEF HandlerInv, TestFull, radio, queue
<1>5. CASE GetFront
  BY <1>t, <1>5, SMT DEF HandlerInv, GetFront, radio, queue
<1>6. CASE ReadPayload
  BY <1>t, <1>6, SMT DEF HandlerInv, ReadPayload
<1>7. CASE ClearStatus
  <2>1. CASE target = Nowhere
    BY <2>1, <1>t, <1>7, SMT DEF HandlerInv, ClearStatus
  <2>2. CASE target # Nowhere
    <3>1. target = front /\ fill < Size /\ target \in Slots
      BY <2>2, <1>t, <1>7, SMT DEF HandlerInv, ClearStatus, TypeOK
    <3>2. slots'[front].len = slots'[front].data
      BY <2>2, <3>1, <1>t, <1>7, SMT DEF TypeOK, ClearStatus, Records
    <3> QED
      BY <2>2, <3>1, <3>2, <1>t, <1>7, SMT DEF HandlerInv, ClearStatus
  <2> QED
    BY <2>1, <2>2
<1>8. CASE Push
  BY <1>t, <1>8, SMT DEF HandlerInv, Push
<1>9. CASE MainThread
  <2>1. isr' = "idle" /\ target' = target /\ isr = "idle"
    BY <1>9 DEF MainThread, TestEmpty, GetBack, CopyLength, CopyData, Pop, Initialize, handler
  <2> QED
    BY <2>1, <1>t, SMT DEF HandlerInv
<1> QED
  BY <1>1, <1>2, <1>3, <1>4, <1>5, <1>6, <1>7, <1>8, <1>9 DEF Next, Handle

-----------------------------------------------------------------------------
(* Every step leaves the reader what it reads *)

\* A step that changes neither the records in the queue nor their places, nor
\* the reader
LEMMA ReaderKept ==
  ASSUME TypeOK, ReaderInv, UNCHANGED <<reader, fill>>,
         \A i \in 0 .. fill - 1 : Place(i)' = Place(i) /\ slots'[Place(i)] = slots[Place(i)]
  PROVE ReaderInv'
<1>1. main # "empty" => 0 \in 0 .. fill - 1
  BY SMT DEF TypeOK, ReaderInv
<1> QED
  BY <1>1, SMT DEF ReaderInv, reader

LEMMA ReaderPreserved ==
  ASSUME IInv, [Next]_vars, TypeOK'
  PROVE ReaderInv'
<1>t. TypeOK /\ HandlerInv /\ ReaderInv
  BY DEF IInv
<1>p. UNCHANGED <<front, fill>> => \A i : Place(i)' = Place(i)
  BY PlaceKept
<1>1. CASE UNCHANGED vars
  BY <1>t, <1>1, <1>p, ReaderKept DEF vars, reader
<1>2. CASE Arrive \/ Interrupt \/ CheckFifo \/ TestFull \/ GetFront \/ Initialize
  BY <1>t, <1>2, <1>p, ReaderKept
     DEF Arrive, Interrupt, CheckFifo, TestFull, GetFront, Initialize, queue
<1>3. CASE ReadPayload \/ ClearStatus
  <2>1. \A i \in 0 .. fill - 1 : slots'[Place(i)] = slots[Place(i)]
    <3>1. CASE target = Nowhere
      BY <3>1, <1>3 DEF ReadPayload, ClearStatus, Store
    <3>2. CASE target # Nowhere
      <4>1. target = front /\ fill < Size
        BY <3>2, <1>t, <1>3 DEF HandlerInv, ReadPayload, ClearStatus
      <4>2. \A i \in 0 .. fill - 1 : Place(i) \in Slots /\ Place(i) # target
        BY <4>1, <1>t, FrontIsFree
      <4> QED
        BY <4>2, <3>2, <1>3, <1>t, SMT DEF TypeOK, ReadPayload, ClearStatus, Store
    <3> QED
      BY <3>1, <3>2
  <2>2. UNCHANGED <<front, fill, reader>>
    BY <1>3 DEF ReadPayload, ClearStatus
  <2> QED
    BY <2>1, <2>2, <1>t, <1>p, ReaderKept
<1>4. CASE Push
  <2>1. /\ fill < Size /\ fill' = fill + 1 /\ front' = (front + 1) % Size
        /\ slots[front].len = slots[front].data /\ UNCHANGED <<slots, reader>>
    BY <1>t, <1>4, SMT DEF HandlerInv, Push, Full, TypeOK
  <2>2. \A i \in 0 .. fill : Place(i)' = IF i < fill THEN Place(i) ELSE front
    BY <2>1, <1>t, PlacePushed
  <2>3. main # "empty" => Place(0)' = Place(0)
    BY <2>2, <1>t, SMT DEF ReaderInv, TypeOK
  <2>4. \A i \in 0 .. fill' - 1 : slots'[Place(i)'].len = slots'[Place(i)'].data
    BY <2>1, <2>2, <1>t, SMT DEF ReaderInv, TypeOK
  <2> QED
    BY <2>1, <2>3, <2>4, <1>t, SMT DEF ReaderInv, TypeOK, reader
<1>5. CASE TestEmpty
  <2>1. UNCHANGED <<front, fill, slots>>
    BY <1>5 DEF TestEmpty, queue
  <2> QED
    BY <2>1, <1>p, <1>t, <1>5, SMT DEF ReaderInv, TestEmpty
<1>6. CASE GetBack
  <2>1. UNCHANGED <<front, fill, slots>>
    BY <1>6 DEF GetBack, queue
  <2> QED
    BY <2>1, <1>p, <1>t, <1>6, SMT DEF ReaderInv, GetBack, TypeOK
<1>7. CASE CopyLength
  <2>1. UNCHANGED <<front, fill, slots>>
    BY <1>7 DEF CopyLength, queue
  <2>2. msg'.len = slots[Place(0)].len
    BY <1>7, <1>t, SMT DEF CopyLength, ReaderInv, TypeOK, Records
  <2> QED
    BY <2>1, <2>2, <1>p, <1>t, <1>7, SMT DEF ReaderInv, CopyLength
<1>8. CASE CopyData
  <2>1. UNCHANGED <<front, fill, slots>>
    BY <1>8 DEF CopyData, queue
  <2>2. msg'.len = slots[Place(0)].len /\ msg'.data = slots[Place(0)].data
    BY <1>8, <1>t, SMT DEF CopyData, ReaderInv, TypeOK, Records
  <2> QED
    BY <2>1, <2>2, <1>p, <1>t, <1>8, SMT DEF ReaderInv, CopyData
<1>9. CASE Pop
  <2>1. fill > 0 /\ fill' = fill - 1 /\ UNCHANGED <<front, slots>> /\ main' = "empty"
    BY <1>9, <1>t, SMT DEF Pop, ReaderInv, TypeOK
  <2>2. \A i \in 0 .. fill - 2 : Place(i)' = Place(i + 1)
    BY <2>1, <1>t, PlacePopped
  <2>3. ASSUME NEW i \in 0 .. fill' - 1
        PROVE slots'[Place(i)'].len = slots'[Place(i)'].data
    <3>1. i \in 0 .. fill - 2 /\ i + 1 \in 0 .. fill - 1
      BY <2>1, <1>t, SMT DEF TypeOK
    <3>2. slots[Place(i + 1)].len = slots[Place(i + 1)].data
      BY <3>1, <1>t DEF ReaderInv
    <3> QED
      BY <3>1, <3>2, <2>1, <2>2
  <2> QED
    BY <2>1, <2>3, SMT DEF ReaderInv
<1> QED
  BY <1>1, <1>2, <1>3, <1>4, <1>5, <1>6, <1>7, <1>8, <1>9 DEF Next, Handle, MainThread

-----------------------------------------------------------------------------
(* Every step keeps the messages in order *)

LEMMA OrderPreserved ==
  ASSUME IInv, [Next]_vars, TypeOK'
  PROVE OrderInv'
<1>t. TypeOK /\ HandlerInv /\ ReaderInv /\ OrderInv
  BY DEF IInv
<1>p. UNCHANGED <<front, fill>> => \A i : Place(i)' = Place(i)
  BY PlaceKept
<1>1. CASE UNCHANGED vars
  BY <1>t, <1>1, OrderKept DEF vars, Held
<1>2. CASE Interrupt \/ CheckFifo \/ TestFull \/ GetFront
  <2>1. ~Held' /\ UNCHANGED <<fifo, slots, front, fill, arrived, handed>>
    BY <1>2 DEF Interrupt, CheckFifo, TestFull, GetFront, Held, radio, queue, history
  <2> QED
    BY <2>1, <1>t, OrderKept
<1>3. CASE TestEmpty \/ GetBack \/ CopyLength \/ CopyData
  <2>1. UNCHANGED <<fifo, slots, front, fill, arrived, handed, isr, target>>
    BY <1>3 DEF TestEmpty, GetBack, CopyLength, CopyData, radio, queue, history, handler
  <2> QED
    BY <2>1, <1>t, OrderKept DEF Held
<1>4. CASE Arrive
  <2>1. UNCHANGED <<slots, front, fill, handed, isr, target>> /\ arrived' = arrived + 1
        /\ fifo' = Append(fifo, arrived + 1)
    BY <1>4 DEF Arrive, queue, handler
  <2>2. Len(fifo') = Len(fifo) + 1
        /\ \A k \in 1 .. Len(fifo) + 1 : fifo'[k] = IF k <= Len(fifo) THEN fifo[k] ELSE arrived + 1
    BY <2>1, <1>t, SMT DEF TypeOK
  <2>3. \A i : Queued(i)' = Queued(i)
    BY <2>1, <1>p DEF Queued
  <2>4. /\ arrived \in Nat /\ handed \in Nat
        /\ \A k \in 1 .. Len(fifo) : fifo[k] \in Nat
        /\ \A i \in 0 .. fill - 1 : Queued(i) \in Nat
        /\ (target # Nowhere => slots[target].data \in Nat)
    <3>1. \A i \in 0 .. fill - 1 : Queued(i) \in Numbers
      BY <1>t, PlaceInSlots, SlotTypes DEF Queued
    <3>2. target # Nowhere => slots[target].data \in Numbers
      BY <1>t, SlotTypes DEF TypeOK
    <3>3. arrived \in Numbers /\ handed \in Numbers /\ \A n \in Numbers : n \in Nat
      BY <1>t, RxBoundAssumption, SMT DEF TypeOK, Numbers
    <3>4. \A k \in 1 .. Len(fifo) : fifo[k] \in Nat
      <4>1. fifo \in Seq(1 .. MaxMessages) /\ 1 .. MaxMessages \subseteq Nat
        BY <1>t, SMT DEF TypeOK
      <4> QED
        BY <4>1, ElementOfSeq
    <3> QED
      BY <3>1, <3>2, <3>3, <3>4
  <2>5. ASSUME NEW x \in Nat, x <= arrived, \A k \in 1 .. Len(fifo) : x < fifo[k]
        PROVE x <= arrived' /\ \A k \in 1 .. Len(fifo') : x < fifo'[k]
    BY <2>1, <2>2, <2>4, <2>5, <1>t, SMT DEF TypeOK
  <2>6. handed' <= arrived'
    BY <2>1, <2>4, <1>t, SMT DEF OrderInv
  <2>7. HeldInOrder'
    <3> SUFFICES ASSUME Held, slots[target].data # Nothing
                 PROVE  HeldInOrder'
      BY <2>1 DEF Held, HeldInOrder
    <3>0. slots[target].data \in Nat
      BY <2>4 DEF Held
    <3>1. slots[target].data <= arrived
          /\ \A k \in 1 .. Len(fifo) : slots[target].data < fifo[k]
      BY <1>t, Zenon DEF OrderInv, HeldInOrder
    <3>2. slots[target].data <= arrived' /\ \A k \in 1 .. Len(fifo') : slots[target].data < fifo'[k]
      BY <3>0, <3>1, <2>5, Zenon
    <3> QED
      BY <3>2, <2>1, <1>t DEF OrderInv, HeldInOrder, Held
  <2>8. QueueInOrder'
    <3>1. \A i \in 0 .. fill - 1 : Queued(i) # Nothing =>
            Queued(i) <= arrived' /\ \A k \in 1 .. Len(fifo') : Queued(i) < fifo'[k]
      BY <2>4, <2>5, <1>t, Zenon DEF OrderInv, QueueInOrder
    <3> QED
      BY <3>1, <2>1, <2>3, <1>t DEF OrderInv, QueueInOrder, Held
  <2>9. FifoInOrder'
    <3>1. \A k \in 1 .. Len(fifo) : handed < fifo[k] /\ fifo[k] <= arrived
      BY <1>t DEF OrderInv, FifoInOrder
    <3>2. \A k \in 1 .. Len(fifo') : handed' < fifo'[k] /\ fifo'[k] <= arrived'
      BY <3>1, <2>1, <2>2, <2>4, <1>t, SMTT(20) DEF OrderInv, TypeOK
    <3>3. ASSUME NEW k \in 1 .. Len(fifo'), NEW l \in 1 .. Len(fifo'), k < l
          PROVE fifo'[k] < fifo'[l]
      <4>n. Len(fifo) \in Nat
        BY <1>t, SMT DEF TypeOK
      <4>0. k \in 1 .. Len(fifo) /\ k \in 1 .. Len(fifo) + 1 /\ k <= Len(fifo)
        BY <4>n, <3>3, <2>2, SMT
      <4>1. k \in 1 .. Len(fifo) /\ fifo'[k] = fifo[k] /\ fifo[k] \in Nat
        BY <4>0, <2>2, <2>4
      <4>2. CASE l <= Len(fifo)
        <5>1. l \in 1 .. Len(fifo) /\ fifo'[l] = fifo[l]
          BY <4>2, <2>2, <1>t, SMT DEF TypeOK
        <5> QED
          BY <5>1, <4>1, <3>3, <1>t DEF OrderInv, FifoInOrder
      <4>3. CASE ~(l <= Len(fifo))
        <5>1. fifo'[l] = arrived + 1
          BY <4>3, <2>2
        <5> QED
          BY <5>1, <4>1, <3>1, <2>4, SMT
      <4> QED
        BY <4>2, <4>3
    <3> QED
      BY <3>2, <3>3 DEF FifoInOrder
  <2> QED
    BY <2>6, <2>7, <2>8, <2>9 DEF OrderInv
<1>5. CASE ClearStatus
  <2>1. UNCHANGED <<fifo, front, fill, arrived, handed, target>> /\ (Held' => Held)
    BY <1>5 DEF ClearStatus, Held, history
  <2>2. \A t \in Slots : slots'[t].data = slots[t].data
    BY <1>5, <1>t, SMT DEF ClearStatus, TypeOK, Records
  <2>3. \A i \in 0 .. fill - 1 : Queued(i)' = Queued(i)
    BY <2>1, <2>2, <1>p, <1>t, PlaceInSlots DEF Queued
  <2>4. Held => slots'[target].data = slots[target].data
    BY <2>2, <1>t DEF Held, TypeOK
  <2> QED
    BY <2>1, <2>3, <2>4, <1>t, SMT DEF OrderInv, QueueInOrder, HeldInOrder, FifoInOrder
<1>6. CASE Initialize
  <2>1. UNCHANGED <<slots, front, fill, arrived, handed, isr, target>> /\ fifo' = <<>>
    BY <1>6 DEF Initialize, queue, handler
  <2>2. \A i : Queued(i)' = Queued(i)
    BY <2>1, <1>p DEF Queued
  <2> QED
    BY <2>1, <2>2, <1>t, SMT DEF OrderInv, QueueInOrder, HeldInOrder, FifoInOrder, Held
<1>7. CASE Push
  <2>1. /\ fill < Size /\ fill' = fill + 1 /\ front' = (front + 1) % Size
        /\ target = front /\ Held /\ ~Held'
        /\ UNCHANGED <<fifo, slots, arrived, handed>>
    <3>1. target = front /\ fill < Size /\ isr = "push" /\ ~Full /\ front # Nowhere
      BY <1>t, <1>7, SMT DEF HandlerInv, Push, Full, TypeOK, Slots, Nowhere
    <3> QED
      BY <3>1, <1>7 DEF Push, Held, radio, history
  <2>2. \A i \in 0 .. fill : Place(i)' = IF i < fill THEN Place(i) ELSE front
    BY <2>1, <1>t, PlacePushed
  <2>3. \A i \in 0 .. fill : Queued(i)' = IF i < fill THEN Queued(i) ELSE slots[target].data
    BY <2>1, <2>2 DEF Queued
  <2>4. handed' <= arrived' /\ HeldInOrder' /\ FifoInOrder'
    BY <2>1, <1>t DEF OrderInv, HeldInOrder, FifoInOrder
  <2>5. fill \in Nat
    BY <1>t DEF TypeOK
  <2>6. \A i \in 0 .. fill' - 1 : i \in 0 .. fill /\ (i < fill => i \in 0 .. fill - 1)
    BY <2>1, <2>5, SMT
  <2>7. \A i \in 0 .. fill' - 1 : Queued(i)' # Nothing =>
          /\ handed' < Queued(i)' /\ Queued(i)' <= arrived'
          /\ \A k \in 1 .. Len(fifo') : Queued(i)' < fifo'[k]
    BY <2>1, <2>3, <2>6, <1>t DEF OrderInv, QueueInOrder, HeldInOrder
  <2>8. \A i, j \in 0 .. fill' - 1 : i < j =>
          i \in 0 .. fill - 1 /\ (j < fill => j \in 0 .. fill - 1)
    BY <2>1, <2>5, SMT
  <2>9. \A i, j \in 0 .. fill' - 1 :
          i < j /\ Queued(i)' # Nothing /\ Queued(j)' # Nothing => Queued(i)' < Queued(j)'
    <3> SUFFICES ASSUME NEW i \in 0 .. fill' - 1, NEW j \in 0 .. fill' - 1, i < j,
                        Queued(i)' # Nothing, Queued(j)' # Nothing
                 PROVE  Queued(i)' < Queued(j)'
      OBVIOUS
    <3>1. i \in 0 .. fill - 1 /\ i < fill /\ Queued(i)' = Queued(i)
      BY <2>3, <2>5, <2>6, <2>8, SMT
    <3>2. Queued(j)' = IF j < fill THEN Queued(j) ELSE slots[target].data
      BY <2>3, <2>6
    <3> QED
      BY <3>1, <3>2, <2>1, <2>8, <1>t DEF OrderInv, QueueInOrder
  <2> QED
    BY <2>1, <2>4, <2>7, <2>9 DEF OrderInv, QueueInOrder
<1>8. CASE Pop
  <2>1. fill > 0 /\ fill' = fill - 1 /\ msg.len = msg.data /\ msg.data = Queued(0)
        /\ UNCHANGED <<front, slots, fifo, isr, target, arrived>>
    <3>1. main = "pop" /\ fill > 0
      BY <1>8, <1>t DEF Pop, ReaderInv
    <3>2. 0 \in 0 .. fill - 1 /\ fill # 0
      BY <3>1, <1>t, SMT DEF TypeOK
    <3>3. slots[Place(0)].len = slots[Place(0)].data
      BY <3>2, <1>t DEF ReaderInv
    <3> QED
      BY <3>1, <3>2, <3>3, <1>8, <1>t DEF Pop, ReaderInv, radio, handler, Queued
  <2>2. \A i \in 0 .. fill - 2 : Place(i)' = Place(i + 1)
    BY <2>1, <1>t, PlacePopped
  <2>3. \A i \in 0 .. fill - 2 : Queued(i)' = Queued(i + 1)
    BY <2>1, <2>2 DEF Queued
  <2>4. handed' = IF Queued(0) = Nothing THEN handed ELSE Queued(0)
    BY <2>1, <1>8 DEF Pop
  <2> QED
    BY <2>1, <2>3, <2>4, <1>t, SMTT(20) DEF OrderInv, QueueInOrder, HeldInOrder, FifoInOrder, TypeOK, Held
<1>9. CASE ReadPayload
  <2>1. UNCHANGED <<front, fill, arrived, handed, target>> /\ isr' = "status" /\ ~Held
        /\ fifo # <<>> /\ (target = Nowhere \/ (target = front /\ fill < Size))
    BY <1>9, <1>t DEF ReadPayload, Held, HandlerInv
  <2>2. \A i \in 0 .. fill - 1 : Queued(i)' = Queued(i)
    <3>1. \A i \in 0 .. fill - 1 : slots'[Place(i)] = slots[Place(i)]
      <4>1. CASE target = Nowhere
        BY <4>1, <1>9 DEF ReadPayload, Store
      <4>2. CASE target # Nowhere
        <5>1. \A i \in 0 .. fill - 1 : Place(i) \in Slots /\ Place(i) # target
          BY <4>2, <2>1, <1>t, FrontIsFree
        <5> QED
          BY <5>1, <4>2, <1>9, <1>t, SMT DEF TypeOK, ReadPayload, Store
      <4> QED
        BY <4>1, <4>2
    <3> QED
      BY <3>1, <2>1, <1>p DEF Queued
  <2>3. CASE fifo' = Tail(fifo) /\ Store(Head(fifo))
    <3>1. target # Nowhere => slots'[target].data = fifo[1]
      BY <2>3, <2>1, <1>t, SMT DEF Store, TypeOK, Records
    <3>2. Len(fifo') = Len(fifo) - 1 /\ \A k \in 1 .. Len(fifo) - 1 : fifo'[k] = fifo[k + 1]
      BY <2>3, <2>1, <1>t, SMT DEF TypeOK
    <3>3. Len(fifo) \in Nat \ {0}
      BY <2>1, <1>t, SMT DEF TypeOK
    <3>5. handed' <= arrived'
      BY <2>1, <1>t DEF OrderInv
    <3>6. HeldInOrder'
      BY <3>1, <3>2, <3>3, <2>1, <1>t, SMT DEF OrderInv, HeldInOrder, FifoInOrder, Held
    <3>7. QueueInOrder'
      BY <3>1, <3>2, <3>3, <2>1, <2>2, <1>t, SMT DEF OrderInv, QueueInOrder, Held
    <3>8. FifoInOrder'
      <4>1. \A k \in 1 .. Len(fifo') : k + 1 \in 1 .. Len(fifo) /\ fifo'[k] = fifo[k + 1]
        BY <3>2, <3>3, SMT
      <4>2. \A k \in 1 .. Len(fifo') : handed' < fifo'[k] /\ fifo'[k] <= arrived'
        BY <4>1, <2>1, <1>t DEF OrderInv, FifoInOrder
      <4>3. \A k, l \in 1 .. Len(fifo') : k < l => k + 1 < l + 1
        BY <3>2, <3>3, SMT
      <4>4. \A k, l \in 1 .. Len(fifo') : k < l => fifo'[k] < fifo'[l]
        BY <4>1, <4>3, <1>t DEF OrderInv, FifoInOrder
      <4> QED
        BY <4>2, <4>4 DEF FifoInOrder
    <3> QED
      BY <3>5, <3>6, <3>7, <3>8 DEF OrderInv
  <2>4. CASE fifo' = <<>> /\ Store(Nothing)
    <3>1. target # Nowhere => slots'[target].data = Nothing
      BY <2>4, <2>1, <1>t, SMT DEF Store, TypeOK, Records
    <3> QED
      BY <3>1, <2>1, <2>2, <2>4, <1>t, SMT DEF OrderInv, QueueInOrder, HeldInOrder, FifoInOrder, TypeOK, Held
  <2> QED
    BY <2>3, <2>4, <1>9 DEF ReadPayload
<1> QED
  BY <1>1, <1>2, <1>3, <1>4, <1>5, <1>6, <1>7, <1>8, <1>9 DEF Next, Handle, MainThread

-----------------------------------------------------------------------------
(* Every step keeps the count *)

LEMMA CountPreserved ==
  ASSUME IInv, [Next]_vars, TypeOK'
  PROVE NoneLostSilently'
<1> USE DEF NoneLostSilently, InHand
<1>t. TypeOK /\ HandlerInv /\ ReaderInv /\ NoneLostSilently
  BY DEF IInv
<1>n. Len(fifo) \in Nat /\ fill \in Nat /\ received \in Nat /\ lost \in Nat /\ faults \in Nat
  BY <1>t, SMT DEF TypeOK
<1>1. CASE UNCHANGED vars
  BY <1>t, <1>1 DEF vars
<1>2. CASE Arrive
  <2>1. Len(fifo') = Len(fifo) + 1
    BY <1>2, <1>t, SMT DEF Arrive, TypeOK, Numbers
  <2> QED
    BY <2>1, <1>n, <1>t, <1>2, SMT DEF Arrive, handler, queue
<1>3. CASE Interrupt \/ CheckFifo \/ TestFull \/ GetFront
  <2>1. /\ isr \notin {"status", "push"} /\ isr' \notin {"status", "push"}
        /\ UNCHANGED <<fifo, fill, arrived, received, lost, faults>>
    BY <1>3 DEF Interrupt, CheckFifo, TestFull, GetFront, radio, queue, history
  <2> QED
    BY <2>1, <1>t
<1>4. CASE TestEmpty \/ GetBack \/ CopyLength \/ CopyData
  <2>1. UNCHANGED <<isr, fifo, fill, arrived, received, lost, faults>>
    BY <1>4 DEF TestEmpty, GetBack, CopyLength, CopyData, radio, queue, history, handler
  <2> QED
    BY <2>1, <1>t
<1>5. CASE ReadPayload
  <2>1. CASE fifo' = Tail(fifo) /\ UNCHANGED faults
    <3>1. Len(fifo') = Len(fifo) - 1
      BY <2>1, <1>5, <1>t, SMT DEF TypeOK, HandlerInv, ReadPayload
    <3> QED
      BY <3>1, <2>1, <1>n, <1>t, <1>5, SMT DEF ReadPayload
  <2>2. CASE faults' = faults + 1
    BY <2>2, <1>n, SMT
  <2> QED
    BY <2>1, <2>2, <1>5 DEF ReadPayload
<1>6. CASE ClearStatus
  <2>1. isr' = "available" => lost' = IF lost < LostMax THEN lost + 1 ELSE lost
    BY <1>6 DEF ClearStatus
  <2>2. isr' # "available" => isr' = "push" /\ lost' = lost
    BY <1>6 DEF ClearStatus
  <2>3. isr = "status" /\ UNCHANGED <<fifo, fill, arrived, received, faults>>
    BY <1>6 DEF ClearStatus, history
  <2>4. LostMax \in Nat
    BY SizeAssumption
  <2> QED
    BY <2>1, <2>2, <2>3, <2>4, <1>n, <1>t, SMT
<1>7. CASE Push
  <2>1. /\ isr = "push" /\ isr' = "available" /\ fill' = fill + 1
        /\ UNCHANGED <<fifo, lost, arrived, received, faults>>
    BY <1>7, <1>t, SMT DEF Push, Full, HandlerInv, TypeOK, radio, history
  <2> QED
    BY <2>1, <1>n, <1>t, SMT
<1>8. CASE Pop
  <2>1. /\ fill' = fill - 1 /\ received' = received + 1
        /\ UNCHANGED <<isr, fifo, lost, arrived, faults>>
    BY <1>8, <1>t, <1>n, SMT DEF Pop, ReaderInv, radio, handler
  <2>2. faults = 0 /\ lost < LostMax => arrived = Len(fifo) + InHand + fill + received + lost
    BY <1>t
  <2>3. \A a, b, c, d, e \in Int : a + b + c + d + e = a + b + (c - 1) + (d + 1) + e
    BY SMT
  <2>4. InHand' = InHand
    BY <2>1
  <2> QED
    <3>1. InHand \in Int /\ Len(fifo) \in Int /\ fill \in Int /\ received \in Int /\ lost \in Int
      BY <1>n, SMT
    <3> HIDE DEF InHand
    <3>2. Len(fifo) + InHand + fill + received + lost =
          Len(fifo) + InHand + (fill - 1) + (received + 1) + lost
      BY <3>1, <2>3
    <3> QED
      BY <3>2, <2>1, <2>2, <2>4, Zenon
<1>9. CASE Initialize
  <2>1. faults' = faults + 1
    BY <1>9 DEF Initialize
  <2> QED
    BY <2>1, <1>n, SMT
<1> QED
  BY <1>1, <1>2, <1>3, <1>4, <1>5, <1>6, <1>7, <1>8, <1>9 DEF Next, Handle, MainThread

-----------------------------------------------------------------------------
(* The theorems *)

LEMMA InitInv ==
  ASSUME Init
  PROVE IInv
<1> USE SizeAssumption, RxBoundAssumption
<1>1. slots \in [Slots -> Records] /\ msg \in Records
  BY SMT DEF Init, Records, Numbers, Nothing
<1>2. TypeOK
  <2>1. fifo \in Seq(1 .. MaxMessages) /\ Len(fifo) <= RadioFifo
    BY SMT DEF Init
  <2>2. front \in Slots /\ fill \in 0 .. Size /\ lost \in 0 .. LostMax /\ faults \in 0 .. MaxFaults
        /\ arrived \in Numbers /\ handed \in Numbers /\ received \in Nat
    BY SMT DEF Init, Slots, Numbers
  <2>3. rxDR \in BOOLEAN /\ pending \in BOOLEAN /\ taken \in Records
    BY <1>1 DEF Init
  <2>4. /\ isr \in {"idle", "available", "full", "getFront", "read", "status", "push"}
        /\ main \in {"empty", "getBack", "length", "copy", "pop"}
        /\ target \in Slots \cup {Nowhere} /\ source \in Slots \cup {Nowhere}
    BY DEF Init
  <2> QED
    BY <2>1, <2>2, <2>3, <2>4, <1>1 DEF TypeOK
<1>3. fill = 0 /\ fifo = <<>> /\ Len(fifo) = 0
  BY DEF Init
<1>4. HandlerInv
  BY DEF Init, HandlerInv
<1>5. ReaderInv
  BY <1>3, SMT DEF Init, ReaderInv
<1>6. OrderInv
  BY <1>3, SMT DEF Init, OrderInv, QueueInOrder, HeldInOrder, FifoInOrder, Held
<1>7. NoneLostSilently
  BY <1>3, SMT DEF Init, NoneLostSilently, InHand
<1> QED
  BY <1>2, <1>4, <1>5, <1>6, <1>7 DEF IInv

\* The handler and the main thread keep out of each other's record, and the
\* messages stay in order and are all accounted for.
THEOREM Invariant == Spec => []IInv
<1>1. Init => IInv
  BY InitInv
<1>2. IInv /\ [Next]_vars => IInv'
  BY TypePreserved, HandlerPreserved, ReaderPreserved, OrderPreserved, CountPreserved DEF IInv
<1> QED
  BY <1>1, <1>2, PTL DEF Spec

\* The queue never holds more than Size messages, and its pointers stay in it.
THEOREM TypeCorrect == Spec => []TypeOK
<1>1. IInv => TypeOK
  BY DEF IInv
<1> QED
  BY <1>1, Invariant, PTL

\* The interrupt handler never writes to the record that the main thread copies.
THEOREM MessageIsWhole == Spec => []ReceivesWhole
<1>1. IInv => ReceivesWhole
  <2> SUFFICES ASSUME IInv, main = "pop" PROVE fill > 0 /\ msg = slots[Place(0)] /\ msg.len = msg.data
    BY DEF ReceivesWhole
  <2>1. 0 \in 0 .. fill - 1 /\ fill > 0
    BY SMT DEF IInv, TypeOK, ReaderInv
  <2>2. Place(0) \in Slots
    BY <2>1, PlaceInSlots DEF IInv
  <2>3. /\ msg.len = slots[Place(0)].len /\ msg.data = slots[Place(0)].data
        /\ slots[Place(0)].len = slots[Place(0)].data
    BY <2>1 DEF IInv, ReaderInv
  <2>4. msg = slots[Place(0)]
    BY <2>2, <2>3, SMT DEF IInv, TypeOK, Records
  <2> QED
    BY <2>1, <2>3, <2>4
<1> QED
  BY <1>1, Invariant, PTL

\* While the counter of lost messages has room, every message that arrived is
\* queued, handed over or counted.
THEOREM EveryMessageCounted == Spec => []NoneLostSilently
<1>1. IInv => NoneLostSilently
  BY DEF IInv
<1> QED
  BY <1>1, Invariant, PTL

\* No message is handed over twice or after a later one.
THEOREM HandedOverInOrder == Spec => InOrder
<1>1. IInv /\ [Next]_vars => [received' # received /\ taken'.len # Nothing => handed' > handed]_vars
  <2> SUFFICES ASSUME IInv, Next, received' # received, taken'.len # Nothing
               PROVE  handed' > handed
    OBVIOUS
  <2>1. Pop
    BY DEF Next, Handle, MainThread, Arrive, Interrupt, CheckFifo, TestFull, GetFront,
       ReadPayload, ClearStatus, Push, TestEmpty, GetBack, CopyLength, CopyData,
       Initialize, history
  <2>2. /\ 0 \in 0 .. fill - 1 /\ msg.data = Queued(0) /\ msg.len = msg.data
        /\ taken' = msg /\ handed' = IF msg.len = Nothing THEN handed ELSE msg.data
    <3>1. main = "pop" /\ fill > 0
      BY <2>1 DEF Pop, IInv, ReaderInv
    <3>2. 0 \in 0 .. fill - 1
      BY <3>1, SMT DEF IInv, TypeOK
    <3>3. slots[Place(0)].len = slots[Place(0)].data
      BY <3>2 DEF IInv, ReaderInv
    <3> QED
      BY <3>1, <3>2, <3>3, <2>1 DEF Pop, IInv, ReaderInv, Queued
  <2>3. handed < Queued(0)
    BY <2>2 DEF IInv, OrderInv, QueueInOrder
  <2>4. handed \in Int /\ Queued(0) \in Int
    <3>1. Queued(0) \in Numbers
      BY <2>2, PlaceInSlots, SlotTypes DEF IInv, Queued
    <3> QED
      BY <3>1, SMT DEF IInv, TypeOK, Numbers
  <2> QED
    BY <2>2, <2>3, <2>4, SMT
<1> QED
  BY <1>1, Invariant, PTL DEF Spec, InOrder

-----------------------------------------------------------------------------
(* The queue implements Mailbox *)

WaitingOK ==
  /\ Waiting \in Seq(Records) /\ Len(Waiting) = fill /\ fill \in Nat
  /\ \A i \in 1 .. fill : Waiting[i] = slots[Place(i - 1)]

LEMMA WaitingIsSeq == TypeOK => WaitingOK
<1> SUFFICES ASSUME TypeOK PROVE WaitingOK
  OBVIOUS
<1>1. fill \in Nat
  BY DEF TypeOK
<1>2. \A i \in 1 .. fill : slots[Place(i - 1)] \in Records
  <2> SUFFICES ASSUME NEW i \in 1 .. fill PROVE slots[Place(i - 1)] \in Records
    OBVIOUS
  <2>1. i - 1 \in 0 .. fill - 1
    BY <1>1, SMT
  <2> QED
    BY <2>1, PlaceInSlots, SlotTypes
<1>3. [i \in 1 .. fill |-> slots[Place(i - 1)]] \in Seq(Records)
  BY <1>1, <1>2, SMT
<1> QED
  BY <1>1, <1>3, SMT DEF Waiting, WaitingOK

\* A step that leaves the queue alone is invisible in the mailbox.
LEMMA WaitingKept ==
  ASSUME fill' = fill,
         \A i \in 0 .. fill - 1 : Place(i)' = Place(i) /\ slots'[Place(i)] = slots[Place(i)],
         TypeOK
  PROVE Waiting' = Waiting
<1>1. \A i \in 1 .. fill : i - 1 \in 0 .. fill - 1
  BY SMT DEF TypeOK
<1>2. \A i \in 1 .. fill : slots'[Place(i - 1)'] = slots[Place(i - 1)]
  BY <1>1
<1> QED
  BY <1>2 DEF Waiting

LEMMA PushPuts ==
  ASSUME TypeOK, TypeOK', HandlerInv, Push
  PROVE Promise!Put(slots[front])
<1>1. /\ fill < Size /\ fill' = fill + 1 /\ front' = (front + 1) % Size
      /\ UNCHANGED <<slots, taken>>
  BY SMT DEF HandlerInv, Push, Full, TypeOK, history
<1>2. \A i \in 0 .. fill : Place(i)' = IF i < fill THEN Place(i) ELSE front
  BY <1>1, PlacePushed
<1> DEFINE m == slots[front]  W == Waiting'
<1>3. /\ Waiting \in Seq(Records) /\ Len(Waiting) = fill /\ fill \in Nat /\ m \in Records
      /\ \A i \in 1 .. fill : Waiting[i] = slots[Place(i - 1)]
  BY WaitingIsSeq, SlotTypes DEF TypeOK, WaitingOK
<1>4. /\ W \in Seq(Records) /\ Len(W) = fill + 1
      /\ \A i \in 1 .. fill + 1 : W[i] = slots[Place(i - 1)']
  <2>1. /\ Waiting' \in Seq(Records) /\ Len(Waiting') = fill'
        /\ \A i \in 1 .. fill' : Waiting'[i] = slots'[Place(i - 1)']
    <3>1. WaitingOK'
      BY WaitingIsSeq, PTL
    <3> QED
      BY <3>1 DEF WaitingOK
  <2> QED
    BY <2>1, <1>1
<1>5. \A i \in 1 .. fill + 1 : W[i] = IF i <= fill THEN Waiting[i] ELSE m
  <2> SUFFICES ASSUME NEW i \in 1 .. fill + 1
               PROVE  W[i] = IF i <= fill THEN Waiting[i] ELSE m
    OBVIOUS
  <2>1. i - 1 \in 0 .. fill /\ (i <= fill => i \in 1 .. fill) /\ (i - 1 < fill <=> i <= fill)
    BY <1>3, SMT
  <2> QED
    BY <2>1, <1>2, <1>3, <1>4
<1> HIDE DEF m, W
<1>6. /\ Append(Waiting, m) \in Seq(Records) /\ Len(Append(Waiting, m)) = fill + 1
      /\ \A i \in 1 .. fill + 1 :
           Append(Waiting, m)[i] = IF i <= fill THEN Waiting[i] ELSE m
  BY <1>3, SMT
<1>7. W = Append(Waiting, m)
  BY <1>4, <1>5, <1>6, SeqEqual
<1> QED
  BY <1>1, <1>3, <1>7 DEF Promise!Put, m, W

LEMMA PopTakes ==
  ASSUME TypeOK, TypeOK', ReaderInv, Pop
  PROVE Promise!Take
<1>1. /\ fill > 0 /\ fill' = fill - 1 /\ UNCHANGED <<front, slots>>
      /\ main = "pop" /\ taken' = msg
  BY SMT DEF ReaderInv, Pop, TypeOK
<1>2. \A i \in 0 .. fill - 2 : Place(i)' = Place(i + 1)
  BY <1>1, PlacePopped
<1> DEFINE W == Waiting'
<1>3. /\ Waiting \in Seq(Records) /\ Len(Waiting) = fill /\ fill \in Nat
      /\ \A i \in 1 .. fill : Waiting[i] = slots[Place(i - 1)]
  BY WaitingIsSeq DEF WaitingOK
<1>4. /\ W \in Seq(Records) /\ Len(W) = fill - 1
      /\ \A i \in 1 .. fill - 1 : W[i] = slots[Place(i - 1)']
  <2>1. /\ Waiting' \in Seq(Records) /\ Len(Waiting') = fill'
        /\ \A i \in 1 .. fill' : Waiting'[i] = slots'[Place(i - 1)']
    <3>1. WaitingOK'
      BY WaitingIsSeq, PTL
    <3> QED
      BY <3>1 DEF WaitingOK
  <2> QED
    BY <2>1, <1>1
<1>5. \A i \in 1 .. fill - 1 : W[i] = Waiting[i + 1]
  <2> SUFFICES ASSUME NEW i \in 1 .. fill - 1 PROVE W[i] = Waiting[i + 1]
    OBVIOUS
  <2>1. i - 1 \in 0 .. fill - 2 /\ (i - 1) + 1 = (i + 1) - 1 /\ i + 1 \in 1 .. fill
    BY <1>3, SMT
  <2> QED
    BY <2>1, <1>2, <1>3, <1>4
<1> HIDE DEF W
<1>6. Waiting # <<>>
  BY <1>1, <1>3, EmptySeq
<1>7. W = Tail(Waiting)
  <2>1. /\ Tail(Waiting) \in Seq(Records) /\ Len(Tail(Waiting)) = fill - 1
        /\ \A i \in 1 .. fill - 1 : Tail(Waiting)[i] = Waiting[i + 1]
    BY <1>3, <1>6, HeadTailProperties
  <2> QED
    BY <2>1, <1>4, <1>5, SeqEqual
<1>8. Head(Waiting) = slots[Place(0)]
  <2>1. 1 \in 1 .. fill /\ 1 - 1 = 0
    BY <1>1, <1>3, SMT
  <2>2. Waiting[1] = slots[Place(0)]
    BY <2>1, <1>3
  <2> QED
    BY <2>2, <1>3, <1>6, SMT
<1>9. msg = slots[Place(0)]
  <2>1. 0 \in 0 .. fill - 1
    BY <1>1, <1>3, SMT
  <2>2. slots[Place(0)] \in Records /\ msg \in Records
    BY <2>1, PlaceInSlots, SlotTypes DEF TypeOK
  <2>3. msg.len = slots[Place(0)].len /\ msg.data = slots[Place(0)].data
    BY <1>1 DEF ReaderInv
  <2> QED
    BY <2>2, <2>3, SMT DEF Records
<1> QED
  BY <1>1, <1>6, <1>7, <1>8, <1>9 DEF Promise!Take, W

LEMMA StepOfMailbox ==
  ASSUME IInv, [Next]_vars, TypeOK'
  PROVE [Promise!Next]_<<Waiting, taken>>
<1>t. TypeOK /\ HandlerInv /\ ReaderInv
  BY DEF IInv
<1>1. CASE Push
  <2>1. slots[front] \in Records
    BY <1>t, SlotTypes DEF TypeOK
  <2> QED
    BY <2>1, <1>1, <1>t, PushPuts DEF Promise!Next
<1>2. CASE Pop
  BY <1>2, <1>t, PopTakes DEF Promise!Next
<1>3. CASE ReadPayload \/ ClearStatus
  <2>1. UNCHANGED <<front, fill, taken>>
    BY <1>3 DEF ReadPayload, ClearStatus, history
  <2>2. \A i \in 0 .. fill - 1 : Place(i)' = Place(i)
    BY <2>1, PlaceKept
  <2>3. \A i \in 0 .. fill - 1 : slots'[Place(i)] = slots[Place(i)]
    <3>1. CASE target = Nowhere
      BY <3>1, <1>3 DEF ReadPayload, ClearStatus, Store
    <3>2. CASE target # Nowhere
      <4>1. target = front /\ fill < Size
        BY <3>2, <1>t, <1>3 DEF HandlerInv, ReadPayload, ClearStatus
      <4>2. \A i \in 0 .. fill - 1 : Place(i) \in Slots /\ Place(i) # target
        BY <4>1, <1>t, FrontIsFree
      <4> QED
        BY <4>2, <3>2, <1>3, <1>t, SMT DEF TypeOK, ReadPayload, ClearStatus, Store
    <3> QED
      BY <3>1, <3>2
  <2> QED
    BY <2>1, <2>2, <2>3, <1>t, WaitingKept
<1>4. CASE UNCHANGED <<front, fill, slots, taken>>
  <2>1. \A i : Place(i)' = Place(i)
    BY <1>4, PlaceKept
  <2> QED
    BY <2>1, <1>4, <1>t, WaitingKept
<1>5. CASE Arrive \/ Interrupt \/ CheckFifo \/ TestFull \/ GetFront \/ TestEmpty \/ GetBack
           \/ CopyLength \/ CopyData \/ Initialize \/ UNCHANGED vars
  <2>1. UNCHANGED <<front, fill, slots, taken>>
    BY <1>5 DEF Arrive, Interrupt, CheckFifo, TestFull, GetFront, TestEmpty, GetBack,
       CopyLength, CopyData, Initialize, vars, queue, history
  <2> QED
    BY <2>1, <1>4
<1> QED
  BY <1>1, <1>2, <1>3, <1>5 DEF Next, Handle, MainThread

\* Filled by the interrupt handler and emptied by the main thread in many small
\* steps, the queue behaves as one into which whole messages are put and from
\* which they are taken, in order.
THEOREM QueueKeepsPromise == Spec => KeepsMailboxPromise
<1>1. Init => Promise!Init
  <2> SUFFICES ASSUME Init PROVE Promise!Init
    OBVIOUS
  <2>1. TypeOK /\ fill = 0 /\ taken \in Records
    BY InitInv DEF IInv, Init, TypeOK
  <2>2. Waiting = <<>>
    BY <2>1, WaitingIsSeq, EmptySeq DEF WaitingOK
  <2> QED
    BY <2>1, <2>2 DEF Promise!Init
<1>2. IInv /\ TypeOK' /\ [Next]_vars => [Promise!Next]_<<Waiting, taken>>
  BY StepOfMailbox
<1> QED
  BY <1>1, <1>2, Invariant, TypeCorrect, PTL DEF Spec, KeepsMailboxPromise, Promise!Spec

-----------------------------------------------------------------------------
(* No message is left to an interrupt that does not come *)

\* RX_DR is set only while a message waits, except just before the handler
\* clears it; and between two runs of the handler a message that waits has an
\* interrupt under way.
WakeInv ==
  /\ isr # "status" /\ rxDR => fifo # <<>>
  /\ isr = "idle" /\ fifo # <<>> => pending

LEMMA WakeNext == TypeOK /\ WakeInv /\ [Next]_vars => WakeInv'
<1> SUFFICES ASSUME TypeOK, WakeInv, [Next]_vars PROVE WakeInv'
  OBVIOUS
<1> USE DEF WakeInv, radio, handler, queue, reader, history
<1>1. CASE Arrive
  <2>1. arrived + 1 \in 1 .. MaxMessages /\ fifo \in Seq(1 .. MaxMessages)
    BY <1>1, RxBoundAssumption, SMT DEF Arrive, TypeOK, Numbers
  <2>2. fifo' # <<>> /\ rxDR' = TRUE /\ isr' = isr /\ pending' = (pending \/ ~ rxDR)
    BY <1>1, <2>1, AppendProperties DEF Arrive
  <2> QED
    BY <2>2
<1>2. CASE Interrupt \/ CheckFifo \/ TestFull \/ GetFront \/ Push
  BY <1>2 DEF Interrupt, CheckFifo, TestFull, GetFront, Push
<1>3. CASE ReadPayload \/ ClearStatus
  BY <1>3 DEF ReadPayload, ClearStatus
<1>4. CASE MainThread
  BY <1>4 DEF MainThread, TestEmpty, GetBack, CopyLength, CopyData, Pop, Initialize
<1>5. CASE UNCHANGED vars
  BY <1>5 DEF vars
<1> QED
  BY <1>1, <1>2, <1>3, <1>4, <1>5 DEF Next, Handle

\* RF24_irqHandler: whatever arrives while it reads the FIFO, before or after
\* it clears RX_DR, it leaves no message behind for which the line would not
\* fall again - the part of NoneStuck that does not need fairness.
MessageWakes == fifo # <<>> => isr # "idle" \/ pending

THEOREM NoInterruptMissed == Spec => []MessageWakes
<1>1. Init => WakeInv
  BY DEF Init, WakeInv
<1>2. WakeInv => MessageWakes
  BY DEF WakeInv, MessageWakes
<1> QED
  BY <1>1, <1>2, WakeNext, TypeCorrect, PTL DEF Spec

=============================================================================
