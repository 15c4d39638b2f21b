-------------------------- MODULE ClockAlarm_proofs --------------------------
(***************************************************************************)
(* Proofs about the alarm clock: types, the slot and the display, the      *)
(* silence after an alarm and the agreement with the controller, for every *)
(* day, every number of slots and any number of keys, messages and losses. *)
(***************************************************************************)
EXTENDS ClockAlarm, SequenceTheorems, TLAPS

IInv == TypeOK /\ SlotMatchesDisplay

-----------------------------------------------------------------------------
(* Remainders *)

\* Products are monotonic.
LEMMA ProductGrows ==
  ASSUME NEW d \in Nat \ {0}, NEW a \in Int, NEW b \in Int, a > b
  PROVE  d * a >= d * b + d
<1>1. \A q, k \in Int : d * (q + 1 + k) = d * q + d + d * k
  BY SMT
<1>2. PICK k \in Nat : a = b + 1 + k
  <2>1. a - b - 1 \in Nat
    OBVIOUS
  <2>. QED  BY <2>1
<1>3. d * k >= 0
  BY SMT
<1>4. d * a = d * b + d + d * k
  BY <1>1, <1>2
<1>. QED  BY <1>3, <1>4

\* A number has one quotient and one remainder.
LEMMA RemainderUnique ==
  ASSUME NEW d \in Nat \ {0}, NEW p \in Int, NEW q \in Int,
         NEW r \in 0 .. d - 1, NEW s \in 0 .. d - 1, d * p + r = d * q + s
  PROVE  r = s
<1>1. d * p \in Int /\ d * q \in Int
  OBVIOUS
<1>2. CASE p > q
  BY <1>1, <1>2, ProductGrows
<1>3. CASE q > p
  BY <1>1, <1>3, ProductGrows
<1>. QED  BY <1>1, <1>2, <1>3

\* Division with remainder.
LEMMA Division ==
  ASSUME NEW d \in Nat \ {0}, NEW x \in Int
  PROVE  x % d \in 0 .. d - 1 /\ \E q \in Int : x = d * q + (x % d)
<1>1. /\ x \div d \in Int /\ x % d \in 0 .. d - 1
      /\ x = d * (x \div d) + (x % d)
  BY SMT
<1>. QED  BY <1>1

\* A remainder may be taken before or after an addition.
LEMMA RemainderOfSum ==
  ASSUME NEW d \in Nat \ {0}, NEW x \in Int, NEW y \in Int
  PROVE  ((x % d) + y) % d = (x + y) % d
<1>. DEFINE r == x % d  s == (r + y) % d  t == (x + y) % d
<1>1. r \in 0 .. d - 1
  BY Division
<1>2. r + y \in Int /\ x + y \in Int
  BY <1>1
<1>3. s \in 0 .. d - 1 /\ t \in 0 .. d - 1
  <2>1. \A z \in Int : z % d \in 0 .. d - 1
    BY Division
  <2>. QED  BY <1>2, <2>1
<1>4. PICK a \in Int : x = d * a + r
  BY Division
<1>5. PICK b \in Int : r + y = d * b + s
  <2>. HIDE DEF r
  <2>. QED  BY <1>2, Division
<1>6. PICK c \in Int : x + y = d * c + t
  BY <1>2, Division
<1>7. \A u, v \in Int : d * (u + v) = d * u + d * v
  BY SMT
<1>. HIDE DEF r, s, t
<1>8. d * (a + b) + s = d * c + t
  <2>1. d * a \in Int /\ d * b \in Int /\ d * c \in Int
    OBVIOUS
  <2>2. d * a + d * b + s = d * c + t
    BY <1>1, <1>3, <1>4, <1>5, <1>6, <2>1
  <2>. QED  BY <1>7, <2>2
<1>9. s = t
  <2>1. a + b \in Int /\ c \in Int
    OBVIOUS
  <2>. QED  BY <1>3, <1>8, <2>1, RemainderUnique
<1>. QED  BY <1>9 DEF r, s, t

\* A day has at least one minute.
LEMMA DayPositive == Day \in Nat \ {0}
<1>1. \A a, b \in Nat \ {0} : a * b \in Nat \ {0}
  BY SMT
<1>. QED  BY <1>1, ClockAssumption DEF Day

\* A whole day changes no time of day.
LEMMA DayLater == ASSUME NEW x \in Int PROVE (x + Day) % Day = x % Day
<1>. DEFINE r == x % Day  s == (x + Day) % Day
<1>1. Day \in Nat \ {0} /\ x + Day \in Int
  BY DayPositive
<1>2. PICK p \in Int : x = Day * p + r
  BY <1>1, Division
<1>3. PICK q \in Int : x + Day = Day * q + s
  BY <1>1, Division
<1>4. r \in 0 .. Day - 1 /\ s \in 0 .. Day - 1
  BY <1>1, Division
<1>. HIDE DEF r, s
<1>5. \A d \in Int : d * (p + 1) = d * p + d
  BY SMT
<1>6. Day * (p + 1) + r = Day * q + s
  <2>1. Day * p \in Int /\ Day * q \in Int /\ Day * (p + 1) = Day * p + Day
    BY <1>1, <1>5
  <2>. QED  BY <1>1, <1>2, <1>3, <1>4, <2>1
<1>7. r = s
  <2>1. p + 1 \in Int /\ q \in Int
    OBVIOUS
  <2>. QED  BY <1>1, <1>4, <1>6, <2>1, RemainderUnique
<1>. QED  BY <1>7 DEF r, s

-----------------------------------------------------------------------------
(* The operations *)

\* An alarm time is a number of minutes.
LEMMA ValueType == ASSUME NEW t \in AlarmTimes PROVE Value(t) \in Nat
<1>1. t[1] \in Nat /\ t[2] \in Nat
  BY ClockAssumption DEF AlarmTimes, LocalTimes, Hours, Minutes
<1>2. \A a, b, c \in Nat : a * b + c \in Nat
  BY SMT
<1>. QED  BY <1>1, <1>2, ClockAssumption DEF Value

\* Midnight is a time the keypad can show.
LEMMA MidnightLocal == Midnight \in LocalTimes
  BY ClockAssumption DEF Midnight, LocalTimes, Hours, Minutes

SlotType == [value : 0 .. Day, left : Int] \cup {Unallocated}

\* An armed slot is no free one.
LEMMA ArmedType ==
  ASSUME TypeOK, NEW v \in 0 .. Day
  PROVE  Armed(v) \in [value : 0 .. Day, left : Int] /\ Armed(v) # Unallocated
<1>1. tod \in Int /\ v \in Int /\ Day \in Nat
  BY DayPositive DEF TypeOK
<1>2. NextTrigger(v) \in Int
  BY <1>1 DEF NextTrigger
<1>3. Armed(v) \in [value : Int, left : Int]
  BY <1>1, <1>2 DEF Armed
<1>. QED  BY <1>2, <1>3, ClockAssumption DEF Armed

\* An armed slot triggers at its time of day.
LEMMA ArmedOnTime ==
  ASSUME TypeOK, NEW v \in 0 .. Day
  PROVE  (tod + Armed(v).left) % Day = v % Day
<1>1. tod \in Int /\ v \in Int /\ Day \in Nat
  BY DayPositive DEF TypeOK
<1>2. tod + (v - tod) = v /\ tod + (v + Day - tod) = v + Day
  BY <1>1
<1>. QED  BY <1>1, <1>2, DayLater DEF Armed, NextTrigger

\* After ChangeAlarm1 at most the slot of Alarm1 is in use: with the new time,
\* armed for it.
LEMMA AfterSetAlarm ==
  ASSUME IInv, NEW t \in AlarmTimes, SetAlarm(t)
  PROVE  /\ time' = t /\ enabled' = TRUE
         /\ slots' \in [Slots -> SlotType]
         /\ alarm1' \in Slots \cup {Nowhere}
         /\ \A i \in Slots : slots'[i] # Unallocated =>
              i = alarm1' /\ Value(t) \in 0 .. Day /\ slots'[i] = Armed(Value(t))
<1>1. Freed = [i \in Slots |-> Unallocated]
  BY DEF IInv, SlotMatchesDisplay, Freed, TypeOK
<1>2. CASE alarm1' = Nowhere /\ slots' = Freed
  BY <1>1, <1>2 DEF SetAlarm, SlotType
<1>3. CASE /\ alarm1' \in Creatable(Value(t), Freed)
           /\ slots' = [Freed EXCEPT ![alarm1'] = Armed(Value(t))]
  <2>1. alarm1' \in Slots /\ Value(t) \in 0 .. Day
    BY <1>3, ValueType, DayPositive DEF Creatable
  <2>2. Armed(Value(t)) \in SlotType
    BY <2>1, ArmedType DEF SlotType, IInv
  <2>. QED  BY <1>1, <1>3, <2>1, <2>2 DEF SetAlarm, SlotType
<1>. QED  BY <1>2, <1>3 DEF SetAlarm

\* ChangeAlarm1 keeps the invariant and arms the alarm for its time.
LEMMA SetAlarmKeeps ==
  ASSUME IInv, NEW t \in AlarmTimes, SetAlarm(t)
  PROVE  /\ time' \in AlarmTimes /\ enabled' \in BOOLEAN
         /\ slots' \in [Slots -> SlotType]
         /\ alarm1' \in Slots \cup {Nowhere}
         /\ SlotMatchesDisplay'
         /\ tod' = tod => ArmedForItsTime'
<1>1. \A i \in Slots : slots'[i] # Unallocated =>
        /\ i = alarm1' /\ slots'[i].value = Value(t) /\ Value(t) \in 0 .. Day
        /\ slots'[i].left = Armed(Value(t)).left
  <2>1. \A i \in Slots : slots'[i] # Unallocated =>
          i = alarm1' /\ Value(t) \in 0 .. Day /\ slots'[i] = Armed(Value(t))
    BY AfterSetAlarm
  <2>2. Armed(Value(t)).value = Value(t)
    BY DEF Armed
  <2>. QED  BY <2>1, <2>2
<1>2. time' = t
  BY AfterSetAlarm
<1>3. SlotMatchesDisplay'
  BY <1>1, <1>2 DEF SlotMatchesDisplay, Value
<1>4. tod' = tod => ArmedForItsTime'
  BY <1>1, ArmedOnTime DEF ArmedForItsTime, IInv
<1>. QED  BY <1>3, <1>4, AfterSetAlarm

\* What the steps that do not set the alarm keep of it.
SlotsKept ==
  /\ slots' \in [Slots -> SlotType]
  /\ \A i \in Slots : slots'[i] # Unallocated =>
       slots[i] # Unallocated /\ slots'[i].value = slots[i].value

\* Passing time, serving alarms and setting the clock move triggers only, and
\* move them with the clock.
LEMMA SlotsMove ==
  ASSUME IInv, ArmedForItsTime,
         Tick \/ ServiceAlarms \/ \E d \in Int : ReceiveTime(d)
  PROVE  SlotsKept /\ tod' \in 0 .. Day - 1 /\ ArmedForItsTime'
<1>. DEFINE Left(i) == slots[i].left
<1>1. \A i \in Slots : slots[i] # Unallocated =>
        /\ slots[i] \in [value : 0 .. Day, left : Int]
        /\ (tod + slots[i].left) % Day = slots[i].value % Day
  BY DEF IInv, TypeOK, ArmedForItsTime
<1>2. tod \in 0 .. Day - 1 /\ Day \in Nat \ {0} /\ slots \in [Slots -> SlotType]
  BY DayPositive DEF IInv, TypeOK, SlotType
<1>3. ASSUME NEW d \in Int, tod' = (tod + d) % Day, slots' = Moved(d)
      PROVE  SlotsKept /\ tod' \in 0 .. Day - 1 /\ ArmedForItsTime'
  <2>1. SlotsKept
    BY <1>1, <1>2, <1>3, ClockAssumption DEF Moved, SlotsKept, SlotType
  <2>2. tod' \in 0 .. Day - 1
    BY <1>2, <1>3, Division
  <2>3. ASSUME NEW i \in Slots, slots'[i] # Unallocated
        PROVE  (tod' + slots'[i].left) % Day = slots'[i].value % Day
    <3>1. /\ slots[i].left \in Int /\ slots'[i].left = slots[i].left - d
          /\ slots'[i].value = slots[i].value
          /\ (tod + slots[i].left) % Day = slots[i].value % Day
      BY <1>1, <1>3, <2>3 DEF Moved
    <3>2. (((tod + d) % Day) + (slots[i].left - d)) % Day
            = ((tod + d) + (slots[i].left - d)) % Day
      <4>1. \A a, b \in Int : ((a % Day) + b) % Day = (a + b) % Day
        BY <1>2, RemainderOfSum
      <4>2. tod + d \in Int /\ slots[i].left - d \in Int
        BY <1>2, <3>1
      <4>. QED  BY <4>1, <4>2
    <3>3. (tod + d) + (slots[i].left - d) = tod + slots[i].left
      BY <1>2, <3>1
    <3>. QED  BY <1>3, <3>1, <3>2, <3>3
  <2>. QED  BY <2>1, <2>2, <2>3 DEF ArmedForItsTime
<1>4. CASE Tick
  <2>1. slots' = Moved(1)
    BY <1>1, <1>4 DEF Tick, Due, Moved
  <2>. QED  BY <1>3, <1>4, <2>1 DEF Tick
<1>5. CASE ServiceAlarms
  <2>1. \A i \in Slots : slots'[i] = IF Due(i) THEN Armed(slots[i].value) ELSE slots[i]
    BY <1>5 DEF ServiceAlarms
  <2>2. tod' = tod
    BY <1>5 DEF ServiceAlarms, clock
  <2>3. \A i \in Slots : Due(i) =>
          /\ slots[i] # Unallocated /\ slots[i].value \in 0 .. Day
          /\ Armed(slots[i].value) \in [value : 0 .. Day, left : Int]
          /\ Armed(slots[i].value).value = slots[i].value
          /\ (tod + Armed(slots[i].value).left) % Day = slots[i].value % Day
    <3>1. ASSUME NEW i \in Slots, Due(i)
          PROVE  slots[i] # Unallocated /\ slots[i].value \in 0 .. Day
      BY <1>1, <3>1 DEF Due
    <3>. QED  BY <3>1, ArmedType, ArmedOnTime DEF IInv, Armed
  <2>4. SlotsKept
    <3>1. slots' \in [Slots -> SlotType]
      BY <1>2, <1>5, <2>3 DEF ServiceAlarms, SlotType
    <3>. QED  BY <2>1, <2>3, <3>1 DEF SlotsKept
  <2>5. ArmedForItsTime'
    BY <1>1, <2>1, <2>2, <2>3 DEF ArmedForItsTime
  <2>. QED  BY <1>2, <2>2, <2>4, <2>5
<1>6. ASSUME NEW d \in Int, ReceiveTime(d)
      PROVE  SlotsKept /\ tod' \in 0 .. Day - 1 /\ ArmedForItsTime'
  BY <1>3, <1>6 DEF ReceiveTime
<1>. QED  BY <1>4, <1>5, <1>6

-----------------------------------------------------------------------------
(* The invariant *)

LEMMA InitInv == Init => IInv /\ ArmedForItsTime
<1>. SUFFICES ASSUME Init PROVE IInv /\ ArmedForItsTime
  OBVIOUS
<1>1. TypeOK
  BY DayPositive, MidnightLocal, ClockAssumption, ClockBoundAssumption
     DEF Init, TypeOK, AlarmTimes, Slots
<1>. QED  BY <1>1 DEF Init, IInv, SlotMatchesDisplay, ArmedForItsTime

\* Slots that only moved still match the display.
LEMMA KeptMatches ==
  ASSUME IInv, SlotsKept, time' = time, alarm1' = alarm1, change' = change
  PROVE  SlotMatchesDisplay'
<1>1. \A i \in Slots : slots'[i] # Unallocated =>
        i = alarm1 /\ (change \/ slots'[i].value = Value(time))
  BY DEF IInv, SlotMatchesDisplay, SlotsKept
<1>. QED  BY <1>1 DEF SlotMatchesDisplay, Value

\* The keypad stays on the times it can show.
LEMMA KeypadTimes ==
  ASSUME TypeOK
  PROVE  /\ <<HourUp(localTime[1]), localTime[2]>> \in LocalTimes
         /\ <<HourUp(localTime[1]), 0>> \in LocalTimes
         /\ localTime[2] # MinutesPerHour - 1 =>
              <<localTime[1], localTime[2] + 1>> \in LocalTimes
<1>1. localTime[1] \in 0 .. HoursPerDay /\ localTime[2] \in 0 .. MinutesPerHour - 1
  BY DEF TypeOK, LocalTimes, Hours, Minutes
<1>2. HourUp(localTime[1]) \in 0 .. HoursPerDay
  BY <1>1, ClockAssumption DEF HourUp
<1>. QED  BY <1>1, <1>2, ClockAssumption DEF LocalTimes, Hours, Minutes

\* An adjustment by the keypad.
LEMMA AdjustInv ==
  ASSUME IInv, ArmedForItsTime, NEW t \in LocalTimes, Adjust(t)
  PROVE  IInv' /\ ArmedForItsTime'
<1>. USE DEF IInv, Adjust, clock, light, controller
<1>1. TypeOK'
  <2>1. changes' \in 0 .. MaxChanges
    BY ClockBoundAssumption DEF TypeOK
  <2>. QED  BY <2>1 DEF TypeOK, AlarmTimes
<1>2. SlotMatchesDisplay' /\ ArmedForItsTime'
  BY DEF SlotMatchesDisplay, ArmedForItsTime
<1>. QED  BY <1>1, <1>2

\* Every step keeps the invariant.
LEMMA StepInv == IInv /\ ArmedForItsTime /\ [Next]_vars => IInv' /\ ArmedForItsTime'
<1>. SUFFICES ASSUME IInv, ArmedForItsTime, [Next]_vars
              PROVE  IInv' /\ ArmedForItsTime'
  OBVIOUS
<1>. USE DEF clock, light, controller, setting, alarm
<1>a. TypeOK
  BY DEF IInv
<1>b. /\ slots' = slots /\ tod' = tod => ArmedForItsTime'
      /\ slots' = slots /\ alarm1' = alarm1 /\ time' = time /\ change' = change
           => SlotMatchesDisplay'
  BY DEF IInv, ArmedForItsTime, SlotMatchesDisplay, Value
<1>1. CASE Tick
  <2>1. SlotsKept /\ tod' \in 0 .. Day - 1 /\ ArmedForItsTime'
    BY <1>1, SlotsMove
  <2>2. TypeOK'
    BY <1>a, <1>1, <2>1 DEF Tick, TypeOK, SlotsKept, SlotType
  <2>3. SlotMatchesDisplay'
    BY <1>1, <2>1, KeptMatches DEF Tick
  <2>. QED  BY <2>1, <2>2, <2>3 DEF IInv
<1>2. CASE ServiceAlarms
  <2>1. SlotsKept /\ tod' \in 0 .. Day - 1 /\ ArmedForItsTime'
    BY <1>2, SlotsMove
  <2>2. TypeOK'
    BY <1>a, <1>2, <2>1 DEF ServiceAlarms, TypeOK, SlotsKept, SlotType
  <2>3. SlotMatchesDisplay'
    BY <1>2, <2>1, KeptMatches DEF ServiceAlarms
  <2>. QED  BY <2>1, <2>2, <2>3 DEF IInv
<1>3. ASSUME NEW d \in -MaxJump .. MaxJump, ReceiveTime(d)
      PROVE  IInv' /\ ArmedForItsTime'
  <2>0. d \in Int
    BY ClockBoundAssumption
  <2>1. SlotsKept /\ tod' \in 0 .. Day - 1 /\ ArmedForItsTime'
    BY <1>3, <2>0, SlotsMove
  <2>2. TypeOK'
    BY <1>a, <1>3, <2>1, ClockBoundAssumption DEF ReceiveTime, TypeOK, SlotsKept, SlotType
  <2>3. SlotMatchesDisplay'
    BY <1>3, <2>1, KeptMatches DEF ReceiveTime
  <2>. QED  BY <2>1, <2>2, <2>3 DEF IInv
<1>4. CASE UpdateSunrise
  <2>1. TypeOK'
    BY <1>a, <1>4, ClockBoundAssumption DEF UpdateSunrise, TypeOK
  <2>. QED  BY <1>b, <1>4, <2>1 DEF UpdateSunrise, IInv
<1>5. CASE CheckLocalAlarmChange
  <2>1. PICK t \in AlarmTimes : SetAlarm(t)
    BY <1>a, <1>5 DEF CheckLocalAlarmChange, TypeOK, AlarmTimes
  <2>2. /\ time' \in AlarmTimes /\ enabled' \in BOOLEAN
        /\ slots' \in [Slots -> SlotType]
        /\ alarm1' \in Slots \cup {Nowhere} /\ SlotMatchesDisplay'
        /\ tod' = tod => ArmedForItsTime'
    BY <2>1, SetAlarmKeeps
  <2>3. stored' \in AlarmTimes \cup {Off} /\ toNode' \in Seq(AlarmTimes \cup {Off})
        /\ losses' \in 0 .. MaxLosses /\ unconfirmed' \in BOOLEAN
    <3>1. localTime \in AlarmTimes /\ localTime \in AlarmTimes \cup {Off}
      BY <1>a DEF TypeOK, AlarmTimes
    <3>2. CASE losses < MaxLosses /\ losses' = losses + 1 /\ unconfirmed' = TRUE
               /\ UNCHANGED <<stored, toNode>>
      BY <1>a, <3>2, ClockBoundAssumption DEF TypeOK
    <3>3. CASE stored' = localTime /\ toNode' = Append(toNode, localTime)
               /\ unconfirmed' = FALSE /\ UNCHANGED losses
      <4>1. Append(toNode, localTime) \in Seq(AlarmTimes \cup {Off})
        BY <1>a, <3>1 DEF TypeOK
      <4>2. losses' \in 0 .. MaxLosses
        BY <1>a, <3>3 DEF TypeOK
      <4>. QED  BY <3>1, <3>3, <4>1, <4>2
    <3>. QED  BY <1>5, <3>2, <3>3 DEF CheckLocalAlarmChange
  <2>4. TypeOK'
    BY <1>a, <1>5, <2>2, <2>3 DEF CheckLocalAlarmChange, TypeOK, SlotType
  <2>. QED  BY <1>5, <2>2, <2>4 DEF CheckLocalAlarmChange, IInv
<1>6. CASE RequestAlarm
  <2>1. TypeOK'
    BY <1>a, <1>6 DEF RequestAlarm, TypeOK
  <2>. QED  BY <1>b, <1>6, <2>1 DEF RequestAlarm, IInv
<1>7. CASE RecvOff
  <2>1. TypeOK'
    <3>1. toNode' \in Seq(AlarmTimes \cup {Off})
      BY <1>a, <1>7 DEF RecvOff, TypeOK
    <3>2. enabled' \in BOOLEAN /\ remoteTime' \in AlarmTimes
      BY <1>a, <1>7, MidnightLocal DEF RecvOff, TypeOK, AlarmTimes
    <3>. QED  BY <1>a, <1>7, <3>1, <3>2 DEF RecvOff, TypeOK
  <2>. QED  BY <1>b, <1>7, <2>1 DEF RecvOff, IInv
<1>8. CASE RecvTime
  <2>1. /\ Head(toNode) \in AlarmTimes /\ toNode' \in Seq(AlarmTimes \cup {Off})
        /\ setBy' \in {"nobody", "keypad", "controller"}
        /\ unconfirmed' \in BOOLEAN
    BY <1>a, <1>8 DEF RecvTime, TypeOK
  <2>2. CASE Head(toNode) # remoteTime
    <3>1. remoteTime' \in AlarmTimes /\ SetAlarm(remoteTime')
      BY <1>8, <2>1, <2>2 DEF RecvTime
    <3>2. PICK t \in AlarmTimes : t = remoteTime' /\ SetAlarm(t)
      BY <3>1
    <3>3. /\ time' \in AlarmTimes /\ enabled' \in BOOLEAN
          /\ slots' \in [Slots -> SlotType]
          /\ alarm1' \in Slots \cup {Nowhere} /\ SlotMatchesDisplay'
          /\ tod' = tod => ArmedForItsTime'
      BY <3>2, SetAlarmKeeps
    <3>4. TypeOK'
      BY <1>a, <1>8, <2>1, <3>1, <3>3 DEF RecvTime, TypeOK, SlotType
    <3>. QED  BY <1>8, <3>3, <3>4 DEF RecvTime, IInv
  <2>3. CASE Head(toNode) = remoteTime
    <3>1. UNCHANGED <<remoteTime, slots, alarm1, time, enabled>>
      BY <1>8, <2>3 DEF RecvTime
    <3>2. TypeOK'
      BY <1>a, <1>8, <2>1, <3>1 DEF RecvTime, TypeOK
    <3>. QED  BY <1>b, <1>8, <3>1, <3>2 DEF RecvTime, IInv
  <2>. QED  BY <2>2, <2>3
<1>9. CASE RecvStop
  <2>1. TypeOK'
    <3>1. changes' \in 0 .. MaxChanges /\ 0 \in 0 .. FullBrightness
      BY <1>a, <1>9, ClockBoundAssumption DEF RecvStop, TypeOK
    <3>. QED  BY <1>a, <1>9, <3>1 DEF RecvStop, StopAlarm, TypeOK
  <2>. QED  BY <1>b, <1>9, <2>1 DEF RecvStop, IInv
<1>10. CASE Keypad
  <2>1. CASE KeyHour
    BY <1>a, <2>1, KeypadTimes, AdjustInv DEF KeyHour
  <2>2. CASE KeyMinute
    BY <1>a, <2>2, KeypadTimes, AdjustInv DEF KeyMinute
  <2>3. CASE KeyOnOff
    <3>1. TypeOK'
      <4>1. changes' \in 0 .. MaxChanges /\ 0 \in 0 .. FullBrightness
        BY <1>a, <2>3, ClockBoundAssumption DEF KeyOnOff, TypeOK
      <4>2. alarming' \in BOOLEAN /\ brightness' \in 0 .. FullBrightness
            /\ playing' \in BOOLEAN /\ enabled' \in BOOLEAN
        BY <1>a, <2>3, <4>1 DEF KeyOnOff, StopAlarm, TypeOK
      <4>. QED  BY <1>a, <2>3, <4>1, <4>2 DEF KeyOnOff, TypeOK
    <3>. QED  BY <1>b, <2>3, <3>1 DEF KeyOnOff, IInv
  <2>. QED  BY <1>10, <2>1, <2>2, <2>3 DEF Keypad
<1>11. CASE Lose
  <2>1. TypeOK'
    BY <1>a, <1>11, ClockBoundAssumption DEF Lose, TypeOK
  <2>. QED  BY <1>b, <1>11, <2>1 DEF Lose, IInv
<1>12. ASSUME NEW v \in RemoteTimes \cup {Off}, ControllerSet(v)
       PROVE  IInv' /\ ArmedForItsTime'
  <2>1. TypeOK'
    BY <1>a, <1>12, ClockBoundAssumption DEF ControllerSet, TypeOK, AlarmTimes
  <2>. QED  BY <1>b, <1>12, <2>1 DEF ControllerSet, IInv
<1>13. CASE UNCHANGED vars
  <2>1. TypeOK'
    BY <1>a, <1>13 DEF vars, TypeOK
  <2>. QED  BY <1>b, <1>13, <2>1 DEF vars, IInv
<1>. QED  BY <1>1, <1>2, <1>3, <1>4, <1>5, <1>6, <1>7, <1>8, <1>9, <1>10, <1>11,
             <1>12, <1>13 DEF Next, Loop, Receive

-----------------------------------------------------------------------------
(* The theorems *)

LEMMA Invariant == Spec => [](IInv /\ ArmedForItsTime)
  BY InitInv, StepInv, PTL DEF Spec

\* Times stay times the clock can show or the controller can send, and the
\* slots hold times within a day: TimeAlarms.cpp and ClockRebuild.ino keep
\* their types for every length of the day and of the queues.
THEOREM TypeCorrect == Spec => []TypeOK
<1>1. IInv => TypeOK
  BY DEF IInv
<1>. QED  BY <1>1, Invariant, PTL

\* ChangeAlarm1 never leaks a slot, and what is armed is what is displayed.
THEOREM SlotHasDisplayedTime == Spec => []SlotMatchesDisplay
<1>1. IInv => SlotMatchesDisplay
  BY DEF IInv
<1>. QED  BY <1>1, Invariant, PTL

\* updateNextTrigger keeps the alarm at its time of day, for every length of
\* the day and every correction of the clock.
THEOREM AlarmIsOnTime == Spec => []ArmedForItsTime
  BY Invariant, PTL

\* Speaker and light are off whenever the alarm is: Stop_Alarm runs on every
\* path that ends an alarm.
THEOREM StoppedIsSilent == Spec => []SilentWhenStopped
<1>1. Init => SilentWhenStopped
  BY DEF Init, SilentWhenStopped
<1>2. SilentWhenStopped /\ [Next]_vars => SilentWhenStopped'
  <2>. SUFFICES ASSUME SilentWhenStopped, [Next]_vars PROVE SilentWhenStopped'
    OBVIOUS
  <2>1. CASE UpdateSunrise
    BY <2>1 DEF UpdateSunrise, SilentWhenStopped
  <2>2. CASE RecvStop \/ KeyOnOff
    BY <2>2 DEF RecvStop, KeyOnOff, StopAlarm, SilentWhenStopped, light
  <2>3. CASE ServiceAlarms
    BY <2>3 DEF ServiceAlarms, SilentWhenStopped, light
  <2>4. CASE UNCHANGED <<alarming, brightness, playing>>
    BY <2>4 DEF SilentWhenStopped
  <2>. QED
    BY <2>1, <2>2, <2>3, <2>4
    DEF Next, Loop, Receive, Keypad, Tick, CheckLocalAlarmChange, RequestAlarm,
        RecvOff, RecvTime, KeyHour, KeyMinute, Adjust, Lose, ReceiveTime,
        ControllerSet, light, vars
<1>. QED  BY <1>1, <1>2, PTL DEF Spec

-----------------------------------------------------------------------------
(* Agreement with the controller *)

\* An echo of the local time, or the same time from the user, is under way.
Echoed == \E i \in 1 .. Len(toNode) : toNode[i] = localTime

\* Unless the alarm was switched off by the controller, the display has the
\* time of one of the two; and if it is not the controller's, then because of
\* a change that is still to be reported, answered or known to be lost.
SourceInv == remoteTime # Midnight => time \in {localTime, remoteTime}

AnswerInv ==
  ~ change /\ ~ unconfirmed /\ remoteTime # Midnight =>
    time = remoteTime \/ Echoed

\* What arrives behind other messages leaves them as they are.
LEMMA EchoAppended ==
  ASSUME TypeOK, NEW v \in AlarmTimes \cup {Off}, toNode' = Append(toNode, v),
         localTime' = localTime
  PROVE  (Echoed => Echoed') /\ (v = localTime => Echoed')
<1>1. /\ Len(toNode) \in Nat /\ Len(toNode') = Len(toNode) + 1
      /\ \A i \in 1 .. Len(toNode) : toNode'[i] = toNode[i]
      /\ toNode'[Len(toNode) + 1] = v
  BY AppendProperties, LenProperties DEF TypeOK
<1>. QED  BY <1>1 DEF Echoed

\* The next message is taken from the front.
LEMMA EchoTaken ==
  ASSUME TypeOK, toNode # <<>>, toNode' = Tail(toNode), localTime' = localTime
  PROVE  /\ Head(toNode) \in AlarmTimes \cup {Off}
         /\ Echoed => Echoed' \/ Head(toNode) = localTime
<1>1. /\ toNode \in Seq(AlarmTimes \cup {Off})
      /\ Len(toNode) \in Nat \ {0} /\ Head(toNode) = toNode[1]
      /\ Head(toNode) \in AlarmTimes \cup {Off}
  BY EmptySeq, HeadTailProperties DEF TypeOK
<1>2. /\ Len(toNode') = Len(toNode) - 1
      /\ \A i \in 1 .. Len(toNode') : toNode'[i] = toNode[i + 1]
  BY <1>1, HeadTailProperties
<1>3. ASSUME Echoed, Head(toNode) # localTime PROVE Echoed'
  <2>1. PICK i \in 1 .. Len(toNode) : toNode[i] = localTime
    BY <1>3 DEF Echoed
  <2>2. i # 1
    BY <1>1, <1>3, <2>1
  <2>3. i - 1 \in 1 .. Len(toNode') /\ toNode'[i - 1] = localTime
    BY <1>1, <1>2, <2>1, <2>2
  <2>. QED  BY <2>3 DEF Echoed
<1>. QED  BY <1>1, <1>3

LEMMA AnswerNext ==
  TypeOK /\ SourceInv /\ AnswerInv /\ [Next]_vars => SourceInv' /\ AnswerInv'
<1>. SUFFICES ASSUME TypeOK, SourceInv, AnswerInv, [Next]_vars
              PROVE  SourceInv' /\ AnswerInv'
  OBVIOUS
<1>. USE DEF clock, light, controller, setting, alarm
<1>1. ASSUME UNCHANGED <<time, localTime, remoteTime>>,
             change' = change /\ unconfirmed' = unconfirmed, Echoed => Echoed'
      PROVE  SourceInv' /\ AnswerInv'
  BY <1>1 DEF SourceInv, AnswerInv
<1>2. CASE \/ Tick \/ ServiceAlarms \/ UpdateSunrise \/ RecvStop \/ KeyOnOff
           \/ (\E d \in -MaxJump .. MaxJump : ReceiveTime(d)) \/ UNCHANGED vars
  <2>1. UNCHANGED <<time, localTime, remoteTime, change, unconfirmed, toNode>>
    BY <1>2 DEF Tick, ServiceAlarms, UpdateSunrise, RecvStop, KeyOnOff, ReceiveTime, vars
  <2>. QED  BY <1>1, <2>1 DEF Echoed
<1>3. ASSUME NEW t, Adjust(t) PROVE SourceInv' /\ AnswerInv'
  BY <1>3 DEF Adjust, SourceInv, AnswerInv
<1>4. CASE CheckLocalAlarmChange
  <2>1. /\ UNCHANGED <<localTime, remoteTime>>
        /\ time' \in {localTime, remoteTime}
    BY <1>4 DEF CheckLocalAlarmChange, SetAlarm
  <2>2. unconfirmed' = TRUE \/ toNode' = Append(toNode, localTime)
    BY <1>4 DEF CheckLocalAlarmChange
  <2>3. localTime \in AlarmTimes \cup {Off}
    BY DEF TypeOK, AlarmTimes
  <2>4. unconfirmed' = TRUE \/ Echoed'
    BY <2>1, <2>2, <2>3, EchoAppended
  <2>. QED  BY <2>1, <2>4 DEF SourceInv, AnswerInv
<1>5. CASE RequestAlarm
  <2>1. ~ Echoed
    BY <1>5 DEF RequestAlarm, Echoed
  <2>2. UNCHANGED <<time, localTime, remoteTime, change, unconfirmed>>
    BY <1>5 DEF RequestAlarm
  <2>. QED  BY <1>1, <2>1, <2>2
<1>6. ASSUME NEW v \in RemoteTimes \cup {Off}, ControllerSet(v)
      PROVE  SourceInv' /\ AnswerInv'
  <2>1. UNCHANGED <<time, localTime, remoteTime, change, unconfirmed>>
        /\ toNode' = Append(toNode, v)
    BY <1>6 DEF ControllerSet
  <2>2. Echoed => Echoed'
    BY <2>1, EchoAppended DEF AlarmTimes
  <2>. QED  BY <1>1, <2>1, <2>2
<1>7. CASE Lose
  <2>1. UNCHANGED <<time, localTime, remoteTime, change>>
        /\ unconfirmed' = (unconfirmed \/ Head(toNode) = localTime)
    BY <1>7 DEF Lose
  <2>2. Echoed => Echoed' \/ Head(toNode) = localTime
    BY <1>7, EchoTaken DEF Lose
  <2>. QED  BY <2>1, <2>2 DEF SourceInv, AnswerInv
<1>8. CASE RecvOff
  <2>1. UNCHANGED <<time, localTime, change, unconfirmed>>
        /\ (remoteTime' = remoteTime \/ remoteTime' = Midnight)
    BY <1>8 DEF RecvOff
  <2>2. Head(toNode) # localTime
    BY <1>8, ClockAssumption DEF RecvOff, TypeOK
  <2>3. Echoed => Echoed'
    BY <1>8, <2>2, EchoTaken DEF RecvOff
  <2>. QED  BY <2>1, <2>3 DEF SourceInv, AnswerInv
<1>9. CASE RecvTime
  <2>1. CASE Head(toNode) # remoteTime
    <3>1. time' = remoteTime'
      BY <1>9, <2>1 DEF RecvTime, SetAlarm
    <3>. QED  BY <3>1 DEF SourceInv, AnswerInv
  <2>2. CASE Head(toNode) = remoteTime
    <3>1. UNCHANGED <<time, localTime, remoteTime, change>>
          /\ unconfirmed' = unconfirmed
      BY <1>9, <2>2 DEF RecvTime, TypeOK
    <3>2. Echoed => Echoed' \/ remoteTime = localTime
      BY <1>9, <2>2, EchoTaken DEF RecvTime
    <3>. QED  BY <3>1, <3>2 DEF SourceInv, AnswerInv
  <2>. QED  BY <2>1, <2>2
<1>. QED  BY <1>2, <1>3, <1>4, <1>5, <1>6, <1>7, <1>8, <1>9
          DEF Next, Loop, Receive, Keypad, KeyHour, KeyMinute

\* Update_Alarm1_From_Controller and receive(): receive() ignores an answer
\* that repeats the last time it had from the controller.  Whenever nothing is
\* under way, no change waits and the last report was confirmed, the answer to
\* the next request is either one that receive() takes, or the clock has that
\* time already - it never stays deaf to a time that it does not show.  It is
\* the part of AgreesWithController that does not need fairness.
NotDeafToController ==
  /\ toNode = <<>> /\ ~ change /\ ~ unconfirmed
  /\ stored \in AlarmTimes \ {Midnight}
  => time = stored \/ remoteTime # stored

THEOREM ClockHearsController == Spec => []NotDeafToController
<1>1. Init => SourceInv /\ AnswerInv
  BY DEF Init, SourceInv, AnswerInv
<1>2. TypeOK /\ AnswerInv => NotDeafToController
  <2>1. toNode = <<>> => ~ Echoed
    BY DEF Echoed
  <2>. QED  BY <2>1 DEF AnswerInv, NotDeafToController
<1>. QED  BY <1>1, <1>2, AnswerNext, TypeCorrect, PTL DEF Spec

=============================================================================
