----------------------------- MODULE SensorNode -----------------------------
(***************************************************************************)
(* A sensor node from power-on to its reports: the start of the core with  *)
(* presentation and registration (MySensorsCore.cpp), the debouncer        *)
(* (Bounce2.cpp), and the loop() of a sketch that reports its sensors      *)
(* (DoorAlarm.ino, WindowAlarm.ino, Bathroom.ino).                         *)
(*                                                                         *)
(* A sensor is reported when its value changes, at every round, or when it *)
(* changes and every so often anyway.  Each has a child ID at the          *)
(* controller; Child names the one whose message object the sketch sends   *)
(* it with.  Gateway and controller are external: they answer requests,    *)
(* keep the last value of every child, and may ask for the presentation.   *)
(***************************************************************************)
EXTENDS Integers, Sequences, SequencesExt, FiniteSets

CONSTANTS
  Order,              \* the sensors, in the order of loop()
  Child,              \* the child ID a sensor is sent with
  Always,             \* sensors sent at every round
  Forced,             \* sensors also sent after ForceUpdate rounds
  Debounced,          \* sensors read through the debouncer
  Values, Unknown,
  FirstValue,         \* what the sketch starts with as reported
  ForceUpdate,        \* FORCE_UPDATE_N_READS
  Interval,           \* interval() of the debouncer
  Retries,            \* MY_REGISTRATION_RETRIES
  RegisteredByDefault,  \* MY_REGISTRATION_DEFAULT
  Answers,            \* what the gateway answers to a registration
  FirstReadings,      \* bound: what the pins may read at the start
  MaxChanges,         \* bound: changes of the readings
  MaxLosses,          \* bound: presentations and reports the radio loses
  MaxInFlight,        \* bound: messages on their way to the node
  MaxAsked,           \* bound: times the controller asks for a presentation
  MaxResets           \* bound: resets of the node

Sensors == ToSet(Order)

ASSUME SensorAssumption ==
  /\ Order \in Seq(Sensors) /\ Child \in [Sensors -> Sensors]
  /\ Always \cup Forced \cup Debounced \subseteq Sensors
  /\ Unknown \notin Values
  /\ FirstValue \in [Sensors -> Values \cup {Unknown}]
  /\ FirstReadings \subseteq [Sensors -> Values]
  /\ ForceUpdate \in Nat /\ Interval \in Nat /\ Retries \in Nat
  /\ RegisteredByDefault \in BOOLEAN /\ Answers \subseteq BOOLEAN

ASSUME SensorBoundAssumption ==
  {MaxChanges, MaxLosses, MaxInFlight, MaxAsked, MaxResets} \subseteq Nat

VARIABLES
  reading,            \* the pins
  debounced, unstable, age,   \* Bounce: its two states, and time since the last;
                              \* Unknown before attach()
  reported,           \* oldValue, lastLightLevel, lastTemp: sent as far as known
  noUpdates,          \* nNoUpdatesTemp
  phase,              \* before the transport is ready, in _begin(), in loop()
  waits,              \* the calls of wait() that run, innermost last
  tries,              \* counter of _registerNode()
  msg,                \* the type of _msg, as far as a wait() looks at it
  registered,         \* nodeRegistered
  toNode,             \* answers and requests on their way
  shown,              \* the controller's value of every child
  presented,          \* what the controller knows of the node
  fate,               \* of the last report of every sensor
  changes, losses, asked, resets

pins == <<reading, changes>>
bounce == <<debounced, unstable, age>>
sketch == <<reported, noUpdates>>
core == <<phase, waits, tries, msg, registered>>
controller == <<shown, fate>>
vars == <<reading, debounced, unstable, age, reported, noUpdates, phase, waits,
          tries, msg, registered, toNode, shown, presented, fate, changes,
          losses, asked, resets>>

Stages == {"signing", "config", "registration"}
\* boot: the wait is part of _callbackTransportReady, not of I_PRESENTATION.
Waits == [stage : Stages, boot : BOOLEAN]
Messages == [type : Stages \cup {"presentation"}, ok : BOOLEAN]

TypeOK ==
  /\ reading \in [Sensors -> Values]
  /\ debounced \in [Debounced -> Values \cup {Unknown}]
  /\ unstable \in [Debounced -> Values \cup {Unknown}]
  /\ age \in [Debounced -> 0 .. Interval]
  /\ reported \in [Sensors -> Values \cup {Unknown}]
  /\ noUpdates \in [Forced -> 0 .. ForceUpdate]
  /\ phase \in {"off", "starting", "running"}
  /\ waits \in Seq(Waits)
  /\ tries \in 0 .. Retries
  /\ msg \in Stages \cup {"presentation", "none"}
  /\ registered \in BOOLEAN
  /\ toNode \in Seq(Messages) /\ Len(toNode) <= MaxInFlight
  /\ shown \in [Sensors -> Values \cup {Unknown}]
  /\ presented \subseteq {"node", "children"}
  /\ fate \in [Sensors -> {"unsent", "arrived", "missed"}]
  /\ changes \in 0 .. MaxChanges /\ losses \in 0 .. MaxLosses
  /\ asked \in 0 .. MaxAsked /\ resets \in 0 .. MaxResets

Init ==
  /\ reading \in FirstReadings
  /\ debounced = [s \in Debounced |-> Unknown] /\ unstable = debounced
  /\ age = [s \in Debounced |-> 0]
  /\ reported = FirstValue /\ noUpdates = [s \in Forced |-> 0]
  /\ phase = "off" /\ waits = <<>> /\ tries = 0 /\ msg = "none"
  /\ registered = FALSE
  /\ toNode = <<>>
  /\ shown = [s \in Sensors |-> Unknown] /\ presented = {}
  /\ fate = [s \in Sensors |-> "unsent"]
  /\ changes = 0 /\ losses = 0 /\ asked = 0 /\ resets = 0

-----------------------------------------------------------------------------
(* The start: presentNode() and _registerNode() *)

Innermost == Last(waits)

\* A presentation of part of the node and a request are sent, and _msg.type is
\* invalidated.  The presentation is lost or arrives; the request is answered,
\* or not: it is lost, gateway or controller do not answer, or the queue of
\* the node is full.
Ask(stage, part) ==
  /\ msg' = "none"
  /\ \/ presented' = presented \cup part /\ UNCHANGED losses
     \/ part # {} /\ losses < MaxLosses /\ losses' = losses + 1 /\ UNCHANGED presented
  /\ \/ UNCHANGED toNode
     \/ /\ Len(toNode) < MaxInFlight
        /\ \E a \in IF stage = "registration" THEN Answers ELSE {TRUE} :
             toNode' = Append(toNode, [type |-> stage, ok |-> a])

\* _callbackTransportReady: presentNode, signerPresentation
TransportReady ==
  /\ phase = "off"
  /\ phase' = "starting"
  /\ waits' = <<[stage |-> "signing", boot |-> TRUE]>>
  /\ Ask("signing", {})
  /\ UNCHANGED <<pins, bounce, sketch, tries, registered, controller, asked, resets>>

\* The innermost call goes on to its next wait(), when _msg is what it waits
\* for at the time it looks, or after two seconds: only _registerNode() cares.
NextStage(stage) ==
  waits' = [waits EXCEPT ![Len(waits)] = [stage |-> stage, boot |-> Innermost.boot]]

\* Mutation: the node presents itself only if the gateway has answered.
SigningAnswered ==
  /\ waits # <<>> /\ Innermost.stage = "signing"
  /\ NextStage("config")
  /\ Ask("config", IF msg = "signing" THEN {"node"} ELSE {})
  /\ UNCHANGED <<pins, bounce, sketch, phase, tries, registered, controller, asked, resets>>

\* presentNode() goes on: present(NODE_SENSOR_ID), and the I_CONFIG request
SigningWaited ==
  /\ waits # <<>> /\ Innermost.stage = "signing"
  /\ NextStage("config")
  /\ Ask("config", {"node"})
  /\ UNCHANGED <<pins, bounce, sketch, phase, tries, registered, controller, asked, resets>>

\* presentNode() ends with presentation(), called from _processInternalMessages.
PresentedAgain ==
  /\ waits # <<>> /\ Innermost.stage = "config" /\ ~Innermost.boot
  /\ waits' = Front(waits)
  /\ msg' = IF waits' = <<>> THEN "none" ELSE msg
  /\ \/ presented' = presented \cup {"children"} /\ UNCHANGED losses
     \/ losses < MaxLosses /\ losses' = losses + 1 /\ UNCHANGED presented
  /\ UNCHANGED <<pins, bounce, sketch, phase, tries, registered, toNode,
                 controller, asked, resets>>

\* presentNode() ends with presentation(), and _registerNode() follows.
Register ==
  /\ waits # <<>> /\ Innermost.stage = "config" /\ Innermost.boot
  /\ NextStage("registration")
  /\ registered' = RegisteredByDefault
  /\ tries' = Retries
  /\ Ask("registration", {"children"})
  /\ UNCHANGED <<pins, bounce, sketch, phase, controller, asked, resets>>

\* Mutation: the counter is not looked at.
RetryForever ==
  /\ waits # <<>> /\ Innermost.stage = "registration" /\ msg # "registration"
  /\ tries' = IF tries > 0 THEN tries - 1 ELSE Retries
  /\ Ask("registration", {})
  /\ UNCHANGED <<pins, bounce, sketch, phase, waits, registered, controller, asked, resets>>

\* _registerNode: no answer yet, ask again
RetryRegistration ==
  /\ waits # <<>> /\ Innermost.stage = "registration" /\ msg # "registration"
  /\ tries > 0
  /\ tries' = tries - 1
  /\ Ask("registration", {})
  /\ UNCHANGED <<pins, bounce, sketch, phase, waits, registered, controller, asked, resets>>

\* _begin() ends with setup(), which attaches the debouncer.
Begun ==
  /\ waits # <<>> /\ Innermost.stage = "registration"
  /\ msg = "registration" \/ tries = 0
  /\ waits' = <<>> /\ phase' = "running" /\ tries' = 0 /\ msg' = "none"
  /\ debounced' = [s \in Debounced |-> reading[s]] /\ unstable' = debounced'
  /\ age' = [s \in Debounced |-> 0]
  /\ UNCHANGED <<pins, sketch, registered, toNode, controller, presented,
                 losses, asked, resets>>

WaitEnds ==
  SigningWaited \/ PresentedAgain \/ Register \/ RetryRegistration \/ Begun

\* Power is lost, or I_REBOOT: the node forgets all, the controller nothing.
Reset ==
  /\ resets < MaxResets /\ phase # "off"
  /\ resets' = resets + 1
  /\ phase' = "off" /\ waits' = <<>> /\ tries' = 0 /\ msg' = "none"
  /\ registered' = FALSE
  /\ toNode' = <<>>
  /\ debounced' = [s \in Debounced |-> Unknown] /\ unstable' = debounced'
  /\ age' = [s \in Debounced |-> 0]
  /\ reported' = FirstValue /\ noUpdates' = [s \in Forced |-> 0]
  /\ UNCHANGED <<pins, controller, presented, losses, asked>>

-----------------------------------------------------------------------------
(* Messages from the gateway *)

\* _process() outside loop() and in every wait(): I_REGISTRATION_RESPONSE is
\* taken at any time, I_CONFIG and I_SIGNING_PRESENTATION end a wait.
RecvAnswer ==
  /\ phase # "off" /\ toNode # <<>> /\ Head(toNode).type # "presentation"
  /\ toNode' = Tail(toNode)
  /\ msg' = IF waits = <<>> THEN "none" ELSE Head(toNode).type
  /\ registered' = IF Head(toNode).type = "registration" THEN Head(toNode).ok ELSE registered
  /\ UNCHANGED <<pins, bounce, sketch, phase, waits, tries, controller, presented,
                 losses, asked, resets>>

\* I_PRESENTATION: presentNode() within whatever waits.
RecvPresentation ==
  /\ phase # "off" /\ toNode # <<>> /\ Head(toNode).type = "presentation"
  /\ waits' = Append(waits, [stage |-> "signing", boot |-> FALSE])
  /\ msg' = "none"
  /\ \/ toNode' = Tail(toNode)
     \/ toNode' = Append(Tail(toNode), [type |-> "signing", ok |-> TRUE])
  /\ UNCHANGED <<pins, bounce, sketch, phase, tries, registered, controller,
                 presented, losses, asked, resets>>

\* The controller asks for the presentation.
AskPresentation ==
  /\ phase # "off" /\ asked < MaxAsked /\ Len(toNode) < MaxInFlight
  /\ asked' = asked + 1
  /\ toNode' = Append(toNode, [type |-> "presentation", ok |-> TRUE])
  /\ UNCHANGED <<pins, bounce, sketch, core, controller, presented, losses, resets>>

-----------------------------------------------------------------------------
(* The sketch *)

Change(s, v) ==
  /\ changes < MaxChanges /\ reading[s] # v
  /\ reading' = [reading EXCEPT ![s] = v]
  /\ changes' = changes + 1
  /\ UNCHANGED <<bounce, sketch, core, toNode, controller, presented, losses,
                 asked, resets>>

Tick ==
  /\ phase = "running" /\ \E s \in Debounced : age[s] < Interval
  /\ age' = [s \in Debounced |-> IF age[s] < Interval THEN age[s] + 1 ELSE Interval]
  /\ UNCHANGED <<pins, debounced, unstable, sketch, core, toNode, controller,
                 presented, losses, asked, resets>>

\* Mutation: the time of the last state counts for the new one.
UpdateTooSoon ==
  /\ unstable' = [s \in Debounced |-> reading[s]]
  /\ debounced' = [s \in Debounced |->
       IF reading[s] # unstable[s] /\ age[s] >= Interval THEN reading[s] ELSE debounced[s]]
  /\ age' = [s \in Debounced |-> IF reading[s] # unstable[s] THEN 0 ELSE age[s]]

\* Bounce::update
Update ==
  LET settles(s) == /\ reading[s] = unstable[s] /\ age[s] >= Interval
                    /\ reading[s] # debounced[s]
  IN  /\ unstable' = [s \in Debounced |-> reading[s]]
      /\ debounced' = [s \in Debounced |-> IF settles(s) THEN reading[s] ELSE debounced[s]]
      /\ age' = [s \in Debounced |->
                   IF settles(s) \/ reading[s] # unstable[s] THEN 0 ELSE age[s]]

Fresh(s) == IF s \in Debounced THEN debounced'[s] ELSE reading[s]

Due(s) ==
  \/ s \in Always \/ Fresh(s) # reported[s]
  \/ s \in Forced /\ noUpdates[s] = ForceUpdate

\* Mutation: a value is not sent twice in a row.
ShowChanged(arrived) ==
  shown' = [c \in Sensors |->
    LET from == {i \in DOMAIN Order : /\ Order[i] \in arrived /\ Child[Order[i]] = c
                                     /\ Fresh(Order[i]) # reported[Order[i]]}
    IN  IF from = {} THEN shown[c]
        ELSE Fresh(Order[CHOOSE i \in from : \A j \in from : j <= i])]

\* send(): what arrives replaces the value of the child it is sent with.
Show(arrived) ==
  shown' = [c \in Sensors |->
    LET from == {i \in DOMAIN Order : Order[i] \in arrived /\ Child[Order[i]] = c}
    IN  IF from = {} THEN shown[c]
        ELSE Fresh(Order[CHOOSE i \in from : \A j \in from : j <= i])]

\* loop(): the values that are due are sent and remembered, whether send()
\* succeeds or not.  A node that is not registered sends none; others are
\* lost, and readings of the thermometer fail.
Loop ==
  /\ phase = "running" /\ waits = <<>>
  /\ Update
  /\ \E unread \in SUBSET Forced :
       LET due == {s \in Sensors \ unread : Due(s)} IN
       \E arrived \in SUBSET due :
         /\ losses' = losses + Cardinality(unread)
                        + (IF registered THEN Cardinality(due \ arrived) ELSE 0)
         /\ losses' <= MaxLosses
         /\ registered \/ arrived = {}
         /\ Show(arrived)
         /\ fate' = [s \in Sensors |-> IF s \notin due THEN fate[s]
                                       ELSE IF s \in arrived THEN "arrived" ELSE "missed"]
         /\ reported' = [s \in Sensors |-> IF s \in due THEN Fresh(s) ELSE reported[s]]
         /\ noUpdates' = [s \in Forced |-> IF s \in due THEN 0
                                           ELSE IF s \in unread THEN noUpdates[s]
                                           ELSE noUpdates[s] + 1]
  /\ UNCHANGED <<pins, core, toNode, presented, asked, resets>>

-----------------------------------------------------------------------------
Next ==
  \/ TransportReady \/ WaitEnds \/ Reset
  \/ RecvAnswer \/ RecvPresentation \/ AskPresentation
  \/ \E s \in Sensors, v \in Values : Change(s, v)
  \/ Tick \/ Loop

Spec == Init /\ [][Next]_vars

\* The node runs, waits time out, and what arrives is handled.
FairSpec ==
  /\ Spec
  /\ WF_vars(TransportReady) /\ WF_vars(WaitEnds)
  /\ WF_vars(RecvAnswer \/ RecvPresentation)
  /\ WF_vars(Tick) /\ WF_vars(Loop)

-----------------------------------------------------------------------------
(* Properties *)

\* Unless a presentation is lost, a node that runs has been presented completely, though
\* presentNode() may run within presentNode(), and answers come late.
RunsPresented ==
  phase = "running" /\ losses = 0 => presented = {"node", "children"}

\* The start ends, whatever arrives in its waits: no answer, late ones, or
\* requests that start presentNode() within them.
StartEnds == phase = "starting" ~> phase # "starting"

\* In the end the controller shows what every pin reads, unless the last
\* report was lost or refused: a change that bounces, or comes while the node
\* starts or waits in presentNode(), is reported once it is stable.
ReportedInTheEnd ==
  \A s \in Sensors : <>[](fate[s] # "missed" => shown[s] = reading[s])

\* A value that is sent again every so often is right in the end even if
\* reports were lost, as long as the node is registered.
RepeatedReportsRepair ==
  \A s \in Forced : <>[](registered /\ phase = "running" => shown[s] = reading[s])
=============================================================================
