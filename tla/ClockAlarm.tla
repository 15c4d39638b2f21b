----------------------------- MODULE ClockAlarm -----------------------------
(***************************************************************************)
(* The alarm of the wake-up clock (ClockRebuild.ino) with the slots of     *)
(* TimeAlarms.cpp.  The alarm time is changed with the keypad and by the   *)
(* controller; a local change is applied and reported 3 s after the last   *)
(* key, a remote one at once.  receive() runs between two rounds of        *)
(* loop(), and every part of loop() is an action.                          *)
(*                                                                         *)
(* The controller is external: it keeps the last alarm time it was given,  *)
(* sends it when the user changes it and when the clock asks for it, and   *)
(* acknowledges a report with an echo, which receive() cannot tell from an *)
(* answer.  A unit of time is a minute of an alarm; loop() is faster.      *)
(***************************************************************************)
EXTENDS Integers, Sequences

CONSTANTS
  HoursPerDay, MinutesPerHour,
  SlotCount,          \* dtNBR_ALARMS
  InitialTime,        \* Alarm1_Time at start
  RemoteTimes,        \* the alarm times the controller may be given
  Off, Unallocated, Nowhere,
  FullBrightness,     \* steps of LED_Brightness up to 255
  MaxJump,            \* bound: how far setting the clock moves it
  MaxChanges,         \* bound: keys, settings at the controller and of the clock
  MaxLosses,          \* bound: messages the radio loses
  MaxInFlight         \* bound: messages on their way to the clock

Hours == 0 .. HoursPerDay
Minutes == 0 .. MinutesPerHour - 1
Day == HoursPerDay * MinutesPerHour
LocalTimes == Hours \X Minutes
Midnight == <<0, 0>>

ASSUME ClockAssumption ==
  /\ HoursPerDay \in Nat \ {0} /\ MinutesPerHour \in Nat \ {0}
  /\ SlotCount \in Nat \ {0}
  /\ RemoteTimes \subseteq Nat \X Nat
  /\ InitialTime \in LocalTimes
  /\ Off \notin RemoteTimes \cup LocalTimes
  /\ Nowhere \notin Int /\ Unallocated \notin [value : Int, left : Int]

ASSUME ClockBoundAssumption ==
  /\ FullBrightness \in Nat \ {0}
  /\ MaxJump \in Nat /\ MaxChanges \in Nat
  /\ MaxLosses \in Nat /\ MaxInFlight \in Nat

AlarmTimes == LocalTimes \cup RemoteTimes
Slots == 0 .. SlotCount - 1

VARIABLES
  tod,                \* time of day
  clockSet,           \* now() is at least a year after 1970
  slots,              \* value and time left until nextTrigger, or Unallocated
  alarm1,             \* Alarm1, Nowhere: dtINVALID_ALARM_ID
  enabled,            \* Alarm1_Enabled
  alarming,           \* Alarm1_ALARMING
  time,               \* Alarm1_Time, what the display shows
  localTime,          \* Alarm1_Time_Local
  remoteTime,         \* Alarm1_Time_Remote
  setBy,              \* Alarm1_Set_Locally, Alarm1_Set_Remotely
  change,             \* Alarm1_Local_Change
  brightness,         \* LED_Brightness
  playing,            \* LED_Sunrise, LED_Flash and Speaker_Playing
  stored,             \* the controller's alarm time
  toNode,             \* alarm times on their way to the clock
  unconfirmed,        \* the last report, or every answer to it so far, was lost
  changes, losses

clock == <<tod, clockSet>>
alarm == <<slots, alarm1, time>>
light == <<brightness, playing>>
setting == <<localTime, remoteTime, setBy, change>>
controller == <<stored, toNode, unconfirmed, losses>>
vars == <<tod, clockSet, slots, alarm1, enabled, alarming, time, localTime,
           remoteTime, setBy, change, brightness, playing, stored, toNode,
           unconfirmed, changes, losses>>

Value(t) == t[1] * MinutesPerHour + t[2]

TypeOK ==
  /\ tod \in 0 .. Day - 1
  /\ clockSet \in BOOLEAN
  /\ slots \in [Slots -> [value : 0 .. Day, left : Int] \cup {Unallocated}]
  /\ alarm1 \in Slots \cup {Nowhere}
  /\ enabled \in BOOLEAN /\ alarming \in BOOLEAN
  /\ time \in AlarmTimes
  /\ localTime \in LocalTimes
  /\ remoteTime \in AlarmTimes
  /\ setBy \in {"nobody", "keypad", "controller"}
  /\ change \in BOOLEAN
  /\ brightness \in 0 .. FullBrightness
  /\ playing \in BOOLEAN
  /\ stored \in AlarmTimes \cup {Off}
  /\ toNode \in Seq(AlarmTimes \cup {Off})
  /\ unconfirmed \in BOOLEAN
  /\ changes \in 0 .. MaxChanges
  /\ losses \in 0 .. MaxLosses

-----------------------------------------------------------------------------
(* The slots *)

\* Mutation: the first trigger is a day after the alarm was set.
TriggerTomorrow(v) == Day

\* updateNextTrigger of a daily alarm: today if its time is still to come.
NextTrigger(v) == IF v > tod THEN v - tod ELSE v + Day - tod

Armed(v) == [value |-> v, left |-> NextTrigger(v)]

\* Mutation: the slot in use is not freed.
FreedNot == slots

\* free
Freed ==
  [i \in Slots |-> IF i = alarm1 THEN Unallocated ELSE slots[i]]

\* create, called by alarmRepeat: the first free slot, if the clock was set.
Creatable(v, s) ==
  IF v <= Day /\ clockSet
  THEN {i \in Slots : /\ s[i] = Unallocated
                      /\ \A j \in 0 .. i - 1 : s[j] # Unallocated}
  ELSE {}

\* ChangeAlarm1
SetAlarm(t) ==
  LET v == Value(t)
      new == Creatable(v, Freed)
  IN  /\ time' = t
      /\ enabled' = TRUE
      /\ \/ /\ new = {}
            /\ alarm1' = Nowhere
            /\ slots' = Freed
         \/ /\ alarm1' \in new
            /\ slots' = [Freed EXCEPT ![alarm1'] = Armed(v)]

\* Mutation: a trigger that was jumped over never comes.
DueExactly(i) == slots[i] # Unallocated /\ slots[i].left = 0

Due(i) == slots[i] # Unallocated /\ slots[i].left <= 0

\* The slots after now() has moved by d.
Moved(d) ==
  [i \in Slots |-> IF slots[i] = Unallocated THEN Unallocated
                   ELSE [value |-> slots[i].value, left |-> slots[i].left - d]]

-----------------------------------------------------------------------------
Init ==
  /\ tod \in 0 .. Day - 1 /\ clockSet \in BOOLEAN
  /\ slots = [i \in Slots |-> Unallocated] /\ alarm1 = 0
  /\ enabled = FALSE /\ alarming = FALSE
  /\ time = InitialTime /\ localTime = Midnight /\ remoteTime = Midnight
  /\ setBy = "nobody" /\ change = FALSE
  /\ brightness = 0 /\ playing = FALSE
  /\ stored \in RemoteTimes \cup {Off} /\ toNode = <<>> /\ unconfirmed = FALSE
  /\ changes = 0 /\ losses = 0

\* A minute passes: serviceAlarms() is called every second.
Tick ==
  /\ \A i \in Slots : ~Due(i)
  /\ tod' = (tod + 1) % Day
  /\ slots' = [i \in Slots |->
                 IF slots[i] = Unallocated \/ slots[i].left <= 0 THEN slots[i]
                 ELSE [value |-> slots[i].value, left |-> slots[i].left - 1]]
  /\ UNCHANGED <<clockSet, alarm1, enabled, alarming, time, setting, light,
                 controller, changes>>

\* serviceAlarms and MorningAlarm
ServiceAlarms ==
  /\ \E i \in Slots : Due(i)
  /\ slots' = [i \in Slots |->
                 IF Due(i) THEN Armed(slots[i].value) ELSE slots[i]]
  /\ alarming' = (alarming \/ enabled)
  /\ UNCHANGED <<clock, alarm1, time, enabled, setting, light, controller, changes>>

\* receiveTime: the clock is set, for the first time or d minutes off.
ReceiveTime(d) ==
  /\ changes < MaxChanges
  /\ clockSet' = TRUE
  /\ tod' = (tod + d) % Day
  /\ slots' = Moved(d)
  /\ changes' = changes + 1
  /\ UNCHANGED <<alarm1, enabled, alarming, time, setting, light, controller>>

\* Update_LED_Sunrise: the speaker starts when the light is at its full.
UpdateSunrise ==
  /\ alarming /\ brightness < FullBrightness
  /\ brightness' = brightness + 1
  /\ playing' = (brightness' = FullBrightness)
  /\ UNCHANGED <<clock, alarm, enabled, alarming, setting, controller, changes>>

\* Stop_Alarm
StopAlarm == alarming' = FALSE /\ brightness' = 0 /\ playing' = FALSE

-----------------------------------------------------------------------------
(* The keypad *)

HourUp(h) == IF h = HoursPerDay THEN 1 ELSE h + 1

\* Check_KeyPad, keys 2 and 3
Adjust(t) ==
  /\ changes < MaxChanges
  /\ localTime' = t /\ time' = t
  /\ setBy' = "keypad" /\ change' = TRUE
  /\ changes' = changes + 1
  /\ UNCHANGED <<clock, slots, alarm1, enabled, alarming, remoteTime, light,
                 controller>>

KeyHour == Adjust(<<HourUp(localTime[1]), localTime[2]>>)

KeyMinute ==
  Adjust(IF localTime[2] = MinutesPerHour - 1
         THEN <<HourUp(localTime[1]), 0>>
         ELSE <<localTime[1], localTime[2] + 1>>)

\* Mutation: the alarm is silenced without Stop_Alarm.
KeyOnOffAbrupt ==
  /\ changes < MaxChanges
  /\ enabled' = ~enabled
  /\ alarming' = (alarming /\ ~enabled)
  /\ changes' = changes + 1
  /\ UNCHANGED <<clock, alarm, setting, light, controller>>

\* Check_KeyPad, key 4
KeyOnOff ==
  /\ changes < MaxChanges
  /\ enabled' = ~enabled
  /\ IF enabled /\ alarming THEN StopAlarm ELSE UNCHANGED <<alarming, light>>
  /\ changes' = changes + 1
  /\ UNCHANGED <<clock, alarm, setting, controller>>

\* Check_Local_Alarm_Change: the alarm is set, for the time of whoever set it
\* last, and the local time is reported.  The report is lost, or stored by
\* the controller and acknowledged.
CheckLocalAlarmChange ==
  /\ change
  /\ SetAlarm(IF setBy = "controller" THEN remoteTime ELSE localTime)
  /\ change' = FALSE
  /\ \/ /\ losses < MaxLosses
        /\ losses' = losses + 1
        /\ unconfirmed' = TRUE
        /\ UNCHANGED <<stored, toNode>>
     \/ /\ Len(toNode) < MaxInFlight
        /\ stored' = localTime
        /\ toNode' = Append(toNode, localTime)
        /\ unconfirmed' = FALSE
        /\ UNCHANGED losses
  /\ UNCHANGED <<clock, alarming, localTime, remoteTime, setBy, light, changes>>

-----------------------------------------------------------------------------
(* Messages *)

\* The user gives the controller another alarm time, or none.
ControllerSet(v) ==
  /\ changes < MaxChanges /\ Len(toNode) < MaxInFlight
  /\ stored # v
  /\ stored' = v
  /\ toNode' = Append(toNode, v)
  /\ changes' = changes + 1
  /\ UNCHANGED <<clock, alarm, enabled, alarming, setting, light, unconfirmed, losses>>

\* Update_Alarm1_From_Controller, and the answer.
RequestAlarm ==
  /\ toNode = <<>> /\ MaxInFlight > 0
  /\ toNode' = <<stored>>
  /\ UNCHANGED <<clock, alarm, enabled, alarming, setting, light, stored,
                 unconfirmed, changes, losses>>

Lose ==
  /\ toNode # <<>> /\ losses < MaxLosses
  /\ toNode' = Tail(toNode)
  /\ unconfirmed' = (unconfirmed \/ Head(toNode) = localTime)
  /\ losses' = losses + 1
  /\ UNCHANGED <<clock, alarm, enabled, alarming, setting, light, stored, changes>>

\* receive(), V_TEXT "off"
RecvOff ==
  /\ toNode # <<>> /\ Head(toNode) = Off
  /\ toNode' = Tail(toNode)
  /\ IF remoteTime # Midnight
     THEN enabled' = FALSE /\ remoteTime' = Midnight
     ELSE UNCHANGED <<enabled, remoteTime>>
  /\ UNCHANGED <<clock, alarm, alarming, localTime, setBy, change, light, stored,
                 unconfirmed, changes, losses>>

\* Mutation: the flags stay as they were.
RecvTimeFlagsKept ==
  /\ toNode # <<>> /\ Head(toNode) # Off
  /\ toNode' = Tail(toNode)
  /\ unconfirmed' = (unconfirmed /\ Head(toNode) = remoteTime)
  /\ IF Head(toNode) # remoteTime
     THEN /\ remoteTime' = Head(toNode)
          /\ SetAlarm(IF setBy = "keypad" THEN localTime ELSE remoteTime')
     ELSE UNCHANGED <<remoteTime, alarm, enabled>>
  /\ UNCHANGED <<clock, alarming, setBy, localTime, change, light, stored,
                 changes, losses>>

\* receive(), V_TEXT "hour.minute"
RecvTime ==
  /\ toNode # <<>> /\ Head(toNode) # Off
  /\ toNode' = Tail(toNode)
  /\ unconfirmed' = (unconfirmed /\ Head(toNode) = remoteTime)
  /\ setBy' = IF Head(toNode) # remoteTime \/ {localTime, remoteTime} = {Midnight}
              THEN "controller" ELSE setBy
  /\ IF Head(toNode) # remoteTime
     THEN remoteTime' = Head(toNode) /\ SetAlarm(remoteTime')
     ELSE UNCHANGED <<remoteTime, alarm, enabled>>
  /\ UNCHANGED <<clock, alarming, localTime, change, light, stored,
                 changes, losses>>

\* receive(), V_LIGHT or V_DIMMER 0 for the alarm
RecvStop ==
  /\ changes < MaxChanges
  /\ alarming /\ StopAlarm
  /\ changes' = changes + 1
  /\ UNCHANGED <<clock, alarm, enabled, setting, controller>>

-----------------------------------------------------------------------------
Keypad == KeyHour \/ KeyMinute \/ KeyOnOff
Receive == RecvOff \/ RecvTime
Loop == ServiceAlarms \/ UpdateSunrise \/ CheckLocalAlarmChange \/ RequestAlarm

Next ==
  \/ Tick \/ Loop \/ Receive \/ RecvStop \/ Keypad \/ Lose
  \/ \E d \in -MaxJump .. MaxJump : ReceiveTime(d)
  \/ \E v \in RemoteTimes \cup {Off} : ControllerSet(v)

Spec == Init /\ [][Next]_vars

\* Time passes, loop() runs, and what is not lost arrives.
FairSpec ==
  /\ Spec
  /\ WF_vars(Tick)
  /\ WF_vars(ServiceAlarms) /\ WF_vars(UpdateSunrise)
  /\ WF_vars(CheckLocalAlarmChange) /\ WF_vars(RequestAlarm)
  /\ WF_vars(Receive)

-----------------------------------------------------------------------------
(* Properties *)

\* Only Alarm1 uses a slot, and unless a change waits for its 3 s the slot has
\* the time on the display: ChangeAlarm1 frees before it creates, from the
\* keypad as well as from receive().
SlotMatchesDisplay ==
  \A i \in Slots : slots[i] # Unallocated =>
    /\ i = alarm1
    /\ change \/ slots[i].value = Value(time)

\* The alarm is armed for its time of day, however often it rang and was set,
\* and whichever way the clock was set meanwhile.
ArmedForItsTime ==
  \A i \in Slots : slots[i] # Unallocated =>
    (tod + slots[i].left) % Day = slots[i].value % Day

\* Whoever stops the alarm, the keypad or the controller, stops the speaker
\* and darkens the light, so that the next alarm starts with a sunrise.
SilentWhenStopped == ~alarming => brightness = 0 /\ ~playing

\* Clock and controller agree in the end, whoever changed the time last, unless
\* a local change was never confirmed: its report was lost, or the answers to
\* it were, and the controller went back to the time the clock last had from
\* it, which receive() then ignores.  So it does a first midnight.
AgreesWithController ==
  <>[](stored \in AlarmTimes \ {Midnight} /\ ~unconfirmed => time = stored)

\* An alarm that is set and switched on rings, or is switched off or replaced.
SetAlarmRings ==
  \A i \in Slots : (enabled /\ slots[i] # Unallocated)
                     ~> (alarming \/ ~enabled \/ slots[i] = Unallocated)
=============================================================================
