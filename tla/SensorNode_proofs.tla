-------------------------- MODULE SensorNode_proofs --------------------------
(***************************************************************************)
(* Proofs about SensorNode, for every set of sensors, number of retries,   *)
(* answers and requests, and any depth of presentations within each other. *)
(***************************************************************************)
EXTENDS SensorNode, SequenceTheorems, FiniteSetTheorems, WellFoundedInduction,
        TLAPS

\* The first wait of a start is _begin()'s, and only _begin() registers.
StartInv ==
  /\ phase = "off" => waits = <<>>
  /\ phase = "starting" => waits # <<>>
  /\ \A i \in 1 .. Len(waits) :
       /\ waits[i].boot <=> (phase = "starting" /\ i = 1)
       /\ waits[i].stage = "registration" => waits[i].boot

\* What a call of presentNode() has sent has arrived, if nothing was lost.
PresentedInv ==
  losses = 0 =>
    /\ \A i \in 1 .. Len(waits) :
         /\ waits[i].stage \in {"config", "registration"} => "node" \in presented
         /\ waits[i].stage = "registration" => "children" \in presented
    /\ RunsPresented

IInv == TypeOK /\ StartInv /\ PresentedInv

\* No other sensor is sent with the child ID of s.
Alone(s) == \A r \in Sensors \ {s} : Child[r] # Child[s]

\* What the node remembers of a sensor is what the controller shows, when its
\* last report arrived; only a reset makes the node forget, and the controller
\* has its last value nevertheless.  Nothing is shown that was not sent.
OnRecord(s) ==
  /\ fate[s] = "unsent" => shown[Child[s]] = Unknown /\ reported[s] = FirstValue[s]
  /\ fate[s] = "arrived" =>
       /\ shown[Child[s]] \in Values
       /\ \/ shown[Child[s]] = reported[s]
          \/ resets > 0 /\ reported[s] = FirstValue[s]

ReportsOnRecord == \A s \in Sensors : Alone(s) => OnRecord(s)

\* The debouncer is attached before loop() reads it.
AttachedInv == phase = "running" => \A s \in Debounced : debounced[s] \in Values

RecordInv == AttachedInv /\ ReportsOnRecord

LEMMA Bounds ==
  /\ MaxChanges \in Nat /\ MaxLosses \in Nat /\ MaxInFlight \in Nat
  /\ MaxAsked \in Nat /\ MaxResets \in Nat
BY SensorBoundAssumption

-----------------------------------------------------------------------------
(* The calls that wait *)

\* The innermost call
LEMMA Top ==
  ASSUME TypeOK, waits # <<>>
  PROVE  /\ Len(waits) \in Nat \ {0}
         /\ Innermost = waits[Len(waits)] /\ Innermost \in Waits
         /\ \A i \in 1 .. Len(waits) : waits[i] \in Waits
<1>1. waits \in Seq(Waits)
  BY DEF TypeOK
<1>2. Len(waits) \in Nat \ {0}
  BY <1>1, LenProperties, EmptySeq
<1>3. \A i \in 1 .. Len(waits) : waits[i] \in Waits
  BY <1>1, ElementOfSeq
<1>. QED  BY <1>2, <1>3 DEF Innermost, Last

\* It goes on to another stage: the others stay.
LEMMA Advance ==
  ASSUME TypeOK, waits # <<>>, NEW stage \in Stages, NextStage(stage)
  PROVE  /\ waits' \in Seq(Waits) /\ Len(waits') = Len(waits)
         /\ waits' # <<>>
         /\ waits'[Len(waits)].stage = stage
         /\ waits'[Len(waits)].boot = Innermost.boot
         /\ \A i \in 1 .. Len(waits) - 1 : waits'[i] = waits[i]
<1>. DEFINE new == [stage |-> stage, boot |-> Innermost.boot]
<1>1. waits \in Seq(Waits) /\ Len(waits) \in Nat \ {0} /\ Innermost \in Waits
  BY Top DEF TypeOK
<1>2. new \in Waits
  BY <1>1 DEF Waits
<1>3. waits' = [waits EXCEPT ![Len(waits)] = new]
  BY DEF NextStage
<1>. HIDE DEF new
<1>4. waits' \in Seq(Waits) /\ Len(waits') = Len(waits)
  BY <1>1, <1>2, <1>3
<1>5. waits'[Len(waits)] = new /\ \A i \in 1 .. Len(waits) - 1 : waits'[i] = waits[i]
  BY <1>1, <1>3
<1>6. waits' # <<>>
  BY <1>1, <1>4, EmptySeq
<1>. QED  BY <1>4, <1>5, <1>6 DEF new

\* It returns.
LEMMA Return ==
  ASSUME TypeOK, waits # <<>>
  PROVE  /\ Front(waits) \in Seq(Waits)
         /\ Len(Front(waits)) = Len(waits) - 1
         /\ Front(waits) = <<>> <=> Len(waits) = 1
         /\ \A i \in 1 .. Len(waits) - 1 : Front(waits)[i] = waits[i]
<1>1. Len(waits) \in Nat \ {0} /\ \A i \in 1 .. Len(waits) : waits[i] \in Waits
  BY Top
<1>2. PICK k \in Nat : k = Len(waits) - 1
  BY <1>1
<1>3. Front(waits) = SubSeq(waits, 1, k)
  BY <1>2 DEF Front
<1>4. /\ SubSeq(waits, 1, k) \in Seq(Waits)
      /\ Len(SubSeq(waits, 1, k)) = IF 1 <= k THEN k - 1 + 1 ELSE 0
      /\ \A i \in 1 .. k - 1 + 1 : SubSeq(waits, 1, k)[i] = waits[1 + i - 1]
  BY <1>1, <1>2, SubSeqProperties
<1>5. Len(SubSeq(waits, 1, k)) = k /\ \A i \in 1 .. k : SubSeq(waits, 1, k)[i] = waits[i]
  BY <1>4
<1>6. Front(waits) = <<>> <=> k = 0
  BY <1>3, <1>4, <1>5, EmptySeq
<1>. QED  BY <1>2, <1>3, <1>4, <1>5, <1>6

\* Another one starts within it.
LEMMA Enter ==
  ASSUME TypeOK, NEW new \in Waits
  PROVE  /\ Append(waits, new) \in Seq(Waits)
         /\ Append(waits, new) # <<>>
         /\ Len(waits) \in Nat /\ Len(Append(waits, new)) = Len(waits) + 1
         /\ Append(waits, new)[Len(waits) + 1] = new
         /\ \A i \in 1 .. Len(waits) : Append(waits, new)[i] = waits[i]
<1>1. waits \in Seq(Waits)
  BY DEF TypeOK
<1>. QED  BY <1>1, AppendProperties, LenProperties, EmptySeq

-----------------------------------------------------------------------------
(* Types *)

LEMMA InitIInv == Init => IInv
<1>. SUFFICES ASSUME Init PROVE IInv
  OBVIOUS
<1>1. Retries \in Nat /\ Interval \in Nat /\ ForceUpdate \in Nat
  BY SensorAssumption
<1>2. waits \in Seq(Waits) /\ toNode \in Seq(Messages) /\ Len(toNode) = 0 /\ Len(waits) = 0
  BY EmptySeq DEF Init
<1>3. TypeOK
  <2>1. reading \in [Sensors -> Values] /\ reported \in [Sensors -> Values \cup {Unknown}]
    BY SensorAssumption DEF Init
  <2>2. /\ debounced \in [Debounced -> Values \cup {Unknown}]
        /\ unstable \in [Debounced -> Values \cup {Unknown}]
    BY DEF Init
  <2>3. age \in [Debounced -> 0 .. Interval] /\ noUpdates \in [Forced -> 0 .. ForceUpdate]
    BY <1>1 DEF Init
  <2>4. /\ shown \in [Sensors -> Values \cup {Unknown}]
        /\ fate \in [Sensors -> {"unsent", "arrived", "missed"}]
    BY DEF Init
  <2>5. /\ tries \in 0 .. Retries /\ changes \in 0 .. MaxChanges
        /\ losses \in 0 .. MaxLosses
        /\ asked \in 0 .. MaxAsked /\ resets \in 0 .. MaxResets
    BY <1>1, Bounds DEF Init
  <2>6. registered \in BOOLEAN
    BY Zenon DEF Init
  <2>7. /\ phase \in {"off", "starting", "running"} /\ presented \subseteq {"node", "children"}
        /\ msg \in Stages \cup {"presentation", "none"}
        /\ Len(toNode) <= MaxInFlight
    BY <1>2, Bounds DEF Init
  <2>. QED  BY <1>2, <2>1, <2>2, <2>3, <2>4, <2>5, <2>6, <2>7 DEF TypeOK
<1>4. StartInv
  BY <1>2 DEF StartInv, Init
<1>5. PresentedInv
  BY <1>2 DEF PresentedInv, RunsPresented, Init
<1>. QED  BY <1>3, <1>4, <1>5 DEF IInv

\* A presentation and a request leave everything in its range, and what was
\* presented arrives unless it is lost.
LEMMA AskType ==
  ASSUME TypeOK, NEW stage \in Stages, NEW part \in SUBSET {"node", "children"},
         Ask(stage, part)
  PROVE  /\ msg' = "none"
         /\ losses' \in 0 .. MaxLosses
         /\ presented' \subseteq {"node", "children"} /\ presented \subseteq presented'
         /\ losses' = 0 => losses = 0 /\ presented' = presented \cup part
         /\ toNode' \in Seq(Messages) /\ Len(toNode') <= MaxInFlight
<1>. USE SensorAssumption, Bounds
<1>1. toNode \in Seq(Messages) /\ Len(toNode) \in Nat
  BY LenProperties DEF TypeOK
<1>2. ASSUME NEW a \in BOOLEAN, toNode' = Append(toNode, [type |-> stage, ok |-> a])
      PROVE  toNode' \in Seq(Messages) /\ Len(toNode') = Len(toNode) + 1
  <2>1. [type |-> stage, ok |-> a] \in Messages
    BY DEF Messages
  <2>. QED  BY <1>1, <1>2, <2>1, AppendProperties
<1>3. toNode' \in Seq(Messages) /\ Len(toNode') <= MaxInFlight
  <2>1. Len(toNode) <= MaxInFlight
    BY DEF TypeOK
  <2>2. CASE toNode' = toNode
    BY <1>1, <2>1, <2>2
  <2>3. CASE Len(toNode) < MaxInFlight
             /\ \E a \in BOOLEAN : toNode' = Append(toNode, [type |-> stage, ok |-> a])
    BY <1>1, <1>2, <2>3
  <2>. QED  BY <2>2, <2>3 DEF Ask
<1>4. losses \in 0 .. MaxLosses /\ presented \subseteq {"node", "children"}
  BY DEF TypeOK
<1>5. losses' \in 0 .. MaxLosses
  BY <1>4 DEF Ask
<1>6. \/ presented' = presented \cup part
      \/ presented' = presented /\ part # {} /\ losses' = losses + 1
  BY DEF Ask
<1>7. presented' \subseteq {"node", "children"} /\ presented \subseteq presented'
  BY <1>4, <1>6
<1>8. losses' = 0 => losses = 0 /\ presented' = presented \cup part
  <2>1. losses' = losses \/ losses' = losses + 1
    BY DEF Ask
  <2>. QED  BY <1>4, <1>6, <2>1
<1>9. msg' = "none"
  BY DEF Ask
<1>. QED  BY <1>3, <1>5, <1>7, <1>8, <1>9

-----------------------------------------------------------------------------
(* The reports *)

LEMMA Greatest ==
  ASSUME NEW n \in Nat, NEW T, T \subseteq 1 .. n, T # {}
  PROVE  \E x \in T : \A y \in T : y <= x
<1>. DEFINE R == {p \in Nat \X Nat : p[1] < p[2]}
            U == {n - x : x \in T}
<1>1. IsWellFoundedOn(R, Nat)
  BY NatLessThanWellFounded DEF OpToRel
<1>2. U \subseteq Nat /\ U # {}
  <2>1. ASSUME NEW x \in T PROVE n - x \in Nat
    OBVIOUS
  <2>. QED  BY <2>1
<1>3. PICK u \in U : \A v \in U : <<v, u>> \notin R
  <2>. HIDE DEF R, U
  <2>. QED  BY <1>1, <1>2, WFMin
<1>4. PICK x \in T : u = n - x
  OBVIOUS
<1>5. ASSUME NEW y \in T PROVE y <= x
  <2>1. n - y \in U /\ n - y \in Nat /\ n - x \in Nat
    OBVIOUS
  <2>2. ~ (n - y < n - x)
    BY <1>3, <1>4, <2>1
  <2>. QED  BY <2>2
<1>. QED  BY <1>4, <1>5

LEMMA OrderType ==
  /\ Len(Order) \in Nat /\ DOMAIN Order = 1 .. Len(Order)
  /\ \A i \in 1 .. Len(Order) : Order[i] \in Sensors
BY SensorAssumption, ElementOfSeq, LenProperties

LEMMA SensorsFinite == IsFiniteSet(Sensors)
<1>1. IsFiniteSet(1 .. Len(Order))
  BY OrderType, FS_Interval
<1>2. Order \in [1 .. Len(Order) -> Sensors]
  BY OrderType, SensorAssumption, SeqDef, LenProperties
<1>3. \A s \in Sensors : \E i \in 1 .. Len(Order) : Order[i] = s
  BY OrderType DEF Sensors, ToSet
<1>4. Order \in Surjection(1 .. Len(Order), Sensors)
  BY <1>2, <1>3 DEF Surjection
<1>. QED  BY <1>1, <1>4, FS_Surjection

\* What the sketch sends for a sensor is a value.
LEMMA FreshType ==
  ASSUME TypeOK, Update, reading' = reading
  PROVE  /\ debounced' \in [Debounced -> Values \cup {Unknown}]
         /\ unstable' \in [Debounced -> Values \cup {Unknown}]
         /\ age' \in [Debounced -> 0 .. Interval]
         /\ \A s \in Sensors : Fresh(s) \in Values \cup {Unknown}
<1>1. Debounced \subseteq Sensors /\ Interval \in Nat
  BY SensorAssumption
<1>2. /\ reading \in [Sensors -> Values]
      /\ debounced \in [Debounced -> Values \cup {Unknown}]
      /\ age \in [Debounced -> 0 .. Interval]
  BY DEF TypeOK
<1>3. unstable' \in [Debounced -> Values \cup {Unknown}]
  BY <1>1, <1>2 DEF Update
<1>4. debounced' \in [Debounced -> Values \cup {Unknown}]
  BY <1>1, <1>2 DEF Update
<1>5. age' \in [Debounced -> 0 .. Interval]
  BY <1>1, <1>2 DEF Update
<1>6. \A s \in Sensors : Fresh(s) \in Values \cup {Unknown}
  BY <1>2, <1>4 DEF Fresh
<1>. QED  BY <1>3, <1>4, <1>5, <1>6

\* The controller shows the last of the values that arrived.
LEMMA ShownType ==
  ASSUME TypeOK, NEW arrived, Show(arrived),
         \A s \in Sensors : Fresh(s) \in Values \cup {Unknown}
  PROVE  shown' \in [Sensors -> Values \cup {Unknown}]
<1>. DEFINE From(c) == {i \in DOMAIN Order : Order[i] \in arrived /\ Child[Order[i]] = c}
            Latest(c) == CHOOSE i \in From(c) : \A j \in From(c) : j <= i
            Shown(c) == IF From(c) = {} THEN shown[c] ELSE Fresh(Order[Latest(c)])
<1>1. shown' = [c \in Sensors |-> Shown(c)]
  BY DEF Show
<1>2. shown \in [Sensors -> Values \cup {Unknown}]
  BY DEF TypeOK
<1>3. ASSUME NEW c \in Sensors PROVE Shown(c) \in Values \cup {Unknown}
  <2>1. CASE From(c) = {}
    BY <1>2, <2>1
  <2>2. CASE From(c) # {}
    <3>1. From(c) \subseteq 1 .. Len(Order) /\ Len(Order) \in Nat
      BY OrderType
    <3>2. \E i \in From(c) : \A j \in From(c) : j <= i
      <4>. HIDE DEF From
      <4>. QED  BY <2>2, <3>1, Greatest
    <3>3. Latest(c) \in From(c)
      <4>. HIDE DEF From
      <4>. QED  BY <3>2
    <3>4. Order[Latest(c)] \in Sensors
      <4>. HIDE DEF From, Latest
      <4>. QED  BY <3>1, <3>3, OrderType
    <3>. QED
      <4>. HIDE DEF From, Latest
      <4>. QED  BY <2>2, <3>4
  <2>. QED  BY <2>1, <2>2
<1>. HIDE DEF Shown
<1>. QED  BY <1>1, <1>3

-----------------------------------------------------------------------------
(* The steps *)

\* Most steps change neither the waits nor what they look at.
LEMMA Undisturbed ==
  ASSUME IInv, UNCHANGED <<waits, phase, presented>>, losses' = 0 => losses = 0
  PROVE  StartInv' /\ PresentedInv'
BY DEF IInv, StartInv, PresentedInv, RunsPresented

\* The innermost call goes on and asks for something else.
LEMMA AdvanceKeepsIInv ==
  ASSUME IInv, waits # <<>>,
         NEW stage \in {"config", "registration"}, NEW part \in SUBSET {"node", "children"},
         NextStage(stage), Ask(stage, part), phase' = phase,
         stage = "config" => part = {"node"},
         stage = "registration" => /\ part = {"children"} /\ Innermost.boot
                                   /\ Innermost.stage = "config"
  PROVE  StartInv' /\ PresentedInv'
<1>0. TypeOK /\ StartInv /\ PresentedInv
  BY DEF IInv
<1>. DEFINE n == Len(waits)
<1>1. stage \in Stages
  BY DEF Stages
<1>2. /\ n \in Nat \ {0} /\ Innermost = waits[n]
  BY <1>0, Top
<1>3. /\ Len(waits') = n /\ waits' # <<>>
      /\ waits'[n].stage = stage /\ waits'[n].boot = waits[n].boot
      /\ \A i \in 1 .. n - 1 : waits'[i] = waits[i]
  BY <1>0, <1>1, <1>2, Advance
<1>4. losses' = 0 => losses = 0 /\ presented' = presented \cup part
  BY <1>0, <1>1, AskType
<1>. HIDE DEF n
<1>5. \A i \in 1 .. n : waits'[i].boot = waits[i].boot
  BY <1>2, <1>3
<1>6. \A i \in 1 .. n : waits'[i].stage = "registration" => waits[i].boot
  <2>1. \A i \in 1 .. n - 1 : waits'[i].stage = "registration" => waits[i].boot
    BY <1>0, <1>2, <1>3 DEF StartInv, n
  <2>2. waits'[n].stage = "registration" => waits[n].boot
    BY <1>2, <1>3
  <2>. QED  BY <1>2, <2>1, <2>2
<1>7. StartInv'
  BY <1>0, <1>3, <1>5, <1>6 DEF StartInv, n
<1>8. ASSUME losses' = 0
      PROVE  /\ \A i \in 1 .. n :
                  /\ waits'[i].stage \in {"config", "registration"} => "node" \in presented'
                  /\ waits'[i].stage = "registration" => "children" \in presented'
             /\ RunsPresented'
  <2>1. losses = 0 /\ presented' = presented \cup part
    BY <1>4, <1>8
  <2>2. /\ \A i \in 1 .. n :
             /\ waits[i].stage \in {"config", "registration"} => "node" \in presented
             /\ waits[i].stage = "registration" => "children" \in presented
        /\ RunsPresented
    BY <1>0, <2>1 DEF PresentedInv, n
  <2>3. "node" \in presented' /\ (stage = "registration" => "children" \in presented')
    BY <1>2, <2>1, <2>2
  <2>4. \A i \in 1 .. n - 1 :
          waits'[i].stage = "registration" => "children" \in presented'
    BY <1>2, <1>3, <2>1, <2>2
  <2>5. waits'[n].stage = "registration" => "children" \in presented'
    BY <1>3, <2>3
  <2>6. \A i \in 1 .. n : waits'[i].stage = "registration" => "children" \in presented'
    BY <1>2, <2>4, <2>5
  <2>7. RunsPresented'
    <3>1. presented \subseteq {"node", "children"}
      BY <1>0 DEF TypeOK
    <3>. QED  BY <2>1, <2>2, <3>1 DEF RunsPresented
  <2>. QED  BY <2>3, <2>6, <2>7
<1>. QED  BY <1>3, <1>7, <1>8 DEF PresentedInv, n

LEMMA WaitsKeepIInv ==
  ASSUME IInv, TransportReady \/ WaitEnds
  PROVE  IInv'
<1>0. TypeOK /\ StartInv /\ PresentedInv
  BY DEF IInv
<1>1. /\ losses \in 0 .. MaxLosses /\ presented \subseteq {"node", "children"}
      /\ Retries \in Nat /\ MaxLosses \in Nat
  BY <1>0, Bounds, SensorAssumption DEF TypeOK
<1>2. CASE TransportReady
  <2>. DEFINE first == [stage |-> "signing", boot |-> TRUE]
  <2>1. /\ Ask("signing", {}) /\ waits' = <<first>> /\ phase' = "starting"
        /\ UNCHANGED <<pins, bounce, sketch, tries, registered, controller, asked, resets>>
    BY <1>2 DEF TransportReady
  <2>2. first \in Waits /\ "signing" \in Stages
    BY DEF Waits, Stages
  <2>3. /\ waits' \in Seq(Waits) /\ Len(waits') = 1 /\ waits'[1] = first
        /\ waits' # <<>>
    <3>. HIDE DEF first
    <3>. QED  BY <2>1, <2>2
  <2>4. /\ msg' = "none" /\ losses' \in 0 .. MaxLosses
        /\ presented' \subseteq {"node", "children"}
        /\ toNode' \in Seq(Messages) /\ Len(toNode') <= MaxInFlight
    BY <1>0, <2>1, <2>2, AskType
  <2>5. TypeOK'
    BY <1>0, <2>1, <2>3, <2>4 DEF TypeOK, pins, bounce, sketch, controller
  <2>6. StartInv'
    BY <2>1, <2>3 DEF StartInv
  <2>7. PresentedInv'
    BY <2>1, <2>3 DEF PresentedInv, RunsPresented
  <2>. QED  BY <2>5, <2>6, <2>7 DEF IInv
<1>3. CASE SigningWaited
  <2>1. /\ waits # <<>> /\ NextStage("config") /\ Ask("config", {"node"})
        /\ UNCHANGED <<pins, bounce, sketch, phase, tries, registered, controller, asked, resets>>
    BY <1>3 DEF SigningWaited
  <2>2. "config" \in Stages
    BY DEF Stages
  <2>3. waits' \in Seq(Waits)
    BY <1>0, <2>1, <2>2, Advance
  <2>4. /\ msg' = "none" /\ losses' \in 0 .. MaxLosses
        /\ presented' \subseteq {"node", "children"}
        /\ toNode' \in Seq(Messages) /\ Len(toNode') <= MaxInFlight
    BY <1>0, <2>1, <2>2, AskType
  <2>5. TypeOK'
    BY <1>0, <2>1, <2>3, <2>4 DEF TypeOK, pins, bounce, sketch, controller
  <2>6. StartInv' /\ PresentedInv'
    BY <2>1, AdvanceKeepsIInv
  <2>. QED  BY <2>5, <2>6 DEF IInv
<1>4. CASE PresentedAgain
  <2>1. /\ waits # <<>> /\ ~Innermost.boot /\ waits' = Front(waits)
        /\ UNCHANGED <<pins, bounce, sketch, phase, tries, registered, toNode,
                       controller, asked, resets>>
    BY <1>4 DEF PresentedAgain
  <2>2. /\ Len(waits) \in Nat \ {0} /\ Innermost = waits[Len(waits)]
        /\ waits' \in Seq(Waits) /\ Len(waits') = Len(waits) - 1
        /\ (waits' = <<>> <=> Len(waits) = 1)
        /\ \A i \in 1 .. Len(waits) - 1 : waits'[i] = waits[i]
    BY <1>0, <2>1, Top, Return
  <2>3. /\ losses' \in 0 .. MaxLosses
        /\ presented' \subseteq {"node", "children"} /\ presented \subseteq presented'
        /\ losses' = 0 => losses = 0
    <3>1. \/ presented' = presented \cup {"children"} /\ losses' = losses
          \/ losses < MaxLosses /\ losses' = losses + 1 /\ presented' = presented
      BY <1>4 DEF PresentedAgain
    <3>2. losses' \in 0 .. MaxLosses /\ (losses' = 0 => losses = 0)
      BY <1>1, <3>1
    <3>3. presented' \subseteq {"node", "children"} /\ presented \subseteq presented'
      BY <1>1, <3>1
    <3>. QED  BY <3>2, <3>3
  <2>4. msg' \in Stages \cup {"presentation", "none"}
    BY <1>0, <1>4 DEF PresentedAgain, TypeOK
  <2>5. TypeOK'
    BY <1>0, <2>1, <2>2, <2>3, <2>4 DEF TypeOK, pins, bounce, sketch, controller
  <2>6. StartInv'
    BY <1>0, <2>1, <2>2 DEF StartInv
  <2>7. PresentedInv'
    <3>1. RunsPresented => RunsPresented'
      BY <2>1, <2>3 DEF RunsPresented
    <3>2. ASSUME PresentedInv, losses' = 0, NEW i \in 1 .. Len(waits')
          PROVE  /\ waits'[i].stage \in {"config", "registration"} => "node" \in presented'
                 /\ waits'[i].stage = "registration" => "children" \in presented'
      BY <2>2, <2>3, <3>2 DEF PresentedInv
    <3>3. losses' = 0 => losses = 0 /\ RunsPresented
      BY <1>0, <2>3 DEF PresentedInv
    <3>. QED  BY <1>0, <3>1, <3>2, <3>3 DEF PresentedInv
  <2>. QED  BY <2>5, <2>6, <2>7 DEF IInv
<1>5. CASE Register
  <2>1. /\ waits # <<>> /\ Innermost.stage = "config" /\ Innermost.boot
        /\ NextStage("registration") /\ Ask("registration", {"children"})
        /\ tries' = Retries
        /\ UNCHANGED <<pins, bounce, sketch, phase, controller, asked, resets>>
    BY <1>5 DEF Register
  <2>2. "registration" \in Stages
    BY DEF Stages
  <2>3. waits' \in Seq(Waits) /\ registered' \in BOOLEAN
    BY <1>0, <1>5, <2>1, <2>2, Advance, SensorAssumption DEF Register
  <2>4. /\ msg' = "none" /\ losses' \in 0 .. MaxLosses
        /\ presented' \subseteq {"node", "children"}
        /\ toNode' \in Seq(Messages) /\ Len(toNode') <= MaxInFlight
    BY <1>0, <2>1, <2>2, AskType
  <2>5. TypeOK'
    BY <1>0, <1>1, <2>1, <2>3, <2>4 DEF TypeOK, pins, bounce, sketch, controller
  <2>6. StartInv' /\ PresentedInv'
    BY <2>1, AdvanceKeepsIInv
  <2>. QED  BY <2>5, <2>6 DEF IInv
<1>6. CASE RetryRegistration
  <2>1. /\ Ask("registration", {}) /\ tries > 0 /\ tries' = tries - 1
        /\ UNCHANGED <<pins, bounce, sketch, phase, waits, registered, controller, asked, resets>>
    BY <1>6 DEF RetryRegistration
  <2>2. "registration" \in Stages
    BY DEF Stages
  <2>3. /\ msg' = "none" /\ losses' \in 0 .. MaxLosses
        /\ presented' \subseteq {"node", "children"}
        /\ toNode' \in Seq(Messages) /\ Len(toNode') <= MaxInFlight
        /\ losses' = 0 => losses = 0 /\ presented' = presented
    <3>1. presented \cup {} = presented
      OBVIOUS
    <3>. QED  BY <1>0, <2>1, <2>2, <3>1, AskType
  <2>4. tries' \in 0 .. Retries
    BY <1>0, <1>1, <2>1 DEF TypeOK
  <2>5. TypeOK'
    BY <1>0, <2>1, <2>3, <2>4 DEF TypeOK, pins, bounce, sketch, controller
  <2>6. StartInv' /\ PresentedInv'
    BY <1>0, <2>1, <2>3 DEF StartInv, PresentedInv, RunsPresented
  <2>. QED  BY <2>5, <2>6 DEF IInv
<1>7. CASE Begun
  <2>1. /\ waits # <<>> /\ Innermost.stage = "registration"
        /\ waits' = <<>> /\ phase' = "running" /\ tries' = 0 /\ msg' = "none"
        /\ UNCHANGED <<pins, sketch, registered, toNode, controller, presented,
                       losses, asked, resets>>
    BY <1>7 DEF Begun
  <2>2. /\ debounced' \in [Debounced -> Values \cup {Unknown}]
        /\ unstable' \in [Debounced -> Values \cup {Unknown}]
        /\ age' \in [Debounced -> 0 .. Interval]
    BY <1>0, <1>7, SensorAssumption DEF Begun, TypeOK
  <2>3. waits' \in Seq(Waits) /\ Len(waits') = 0
    BY <2>1, EmptySeq
  <2>4. TypeOK'
    BY <1>0, <1>1, <2>1, <2>2, <2>3 DEF TypeOK, pins, sketch, controller
  <2>5. StartInv'
    BY <2>1, <2>3 DEF StartInv
  <2>6. losses = 0 => presented = {"node", "children"}
    <3>1. /\ Len(waits) \in 1 .. Len(waits)
          /\ waits[Len(waits)].stage = "registration"
      BY <1>0, <2>1, Top
    <3>. QED  BY <1>0, <1>1, <3>1 DEF PresentedInv
  <2>7. PresentedInv'
    BY <2>1, <2>3, <2>6 DEF PresentedInv, RunsPresented
  <2>. QED  BY <2>4, <2>5, <2>7 DEF IInv
<1>. QED  BY <1>2, <1>3, <1>4, <1>5, <1>6, <1>7 DEF WaitEnds

LEMMA MessagesKeepIInv ==
  ASSUME IInv, RecvAnswer \/ RecvPresentation \/ AskPresentation
  PROVE  IInv'
<1>0. TypeOK /\ StartInv /\ PresentedInv
  BY DEF IInv
<1>1. /\ toNode \in Seq(Messages) /\ Len(toNode) \in Nat /\ Len(toNode) <= MaxInFlight
      /\ MaxInFlight \in Nat
  BY <1>0, Bounds, LenProperties DEF TypeOK
<1>2. ASSUME toNode # <<>>
      PROVE  /\ Tail(toNode) \in Seq(Messages) /\ Len(Tail(toNode)) = Len(toNode) - 1
             /\ Head(toNode) \in Messages
  BY <1>1, <1>2, HeadTailProperties
<1>3. CASE RecvAnswer
  <2>. USE <1>3 DEF RecvAnswer
  <2>1. toNode # <<>> /\ toNode' = Tail(toNode)
    OBVIOUS
  <2>2. Head(toNode).type \in Stages \cup {"presentation"} /\ Head(toNode).ok \in BOOLEAN
    BY <1>2, <2>1 DEF Messages
  <2>3. /\ msg' \in Stages \cup {"presentation", "none"} /\ registered' \in BOOLEAN
    BY <1>0, <2>2 DEF TypeOK
  <2>4. toNode' \in Seq(Messages) /\ Len(toNode') <= MaxInFlight
    BY <1>1, <1>2, <2>1
  <2>5. TypeOK'
    BY <1>0, <2>3, <2>4 DEF TypeOK, pins, bounce, sketch, controller
  <2>6. StartInv' /\ PresentedInv'
    BY Undisturbed
  <2>. QED  BY <2>5, <2>6 DEF IInv
<1>4. CASE RecvPresentation
  <2>. DEFINE new == [stage |-> "signing", boot |-> FALSE]
  <2>1. /\ phase # "off" /\ toNode # <<>> /\ waits' = Append(waits, new) /\ msg' = "none"
        /\ UNCHANGED <<pins, bounce, sketch, phase, tries, registered, controller,
                       presented, losses, asked, resets>>
    BY <1>4 DEF RecvPresentation
  <2>2. new \in Waits
    BY DEF Waits, Stages
  <2>3. /\ waits' \in Seq(Waits) /\ waits' # <<>>
        /\ Len(waits) \in Nat /\ Len(waits') = Len(waits) + 1
        /\ waits'[Len(waits) + 1] = new
        /\ \A i \in 1 .. Len(waits) : waits'[i] = waits[i]
    <3>. HIDE DEF new
    <3>. QED  BY <1>0, <2>1, <2>2, Enter
  <2>4. toNode' \in Seq(Messages) /\ Len(toNode') <= MaxInFlight
    <3>. DEFINE m == [type |-> "signing", ok |-> TRUE]
    <3>1. m \in Messages
      BY DEF Messages, Stages
    <3>2. toNode' = Tail(toNode) \/ toNode' = Append(Tail(toNode), m)
      BY <1>4 DEF RecvPresentation
    <3>. HIDE DEF m
    <3>3. /\ Append(Tail(toNode), m) \in Seq(Messages)
          /\ Len(Append(Tail(toNode), m)) = Len(toNode)
      BY <1>1, <1>2, <2>1, <3>1, AppendProperties
    <3>4. Tail(toNode) \in Seq(Messages) /\ Len(Tail(toNode)) = Len(toNode) - 1
      BY <1>2, <2>1
    <3>. QED  BY <1>1, <3>2, <3>3, <3>4
  <2>5. TypeOK'
    BY <1>0, <2>1, <2>3, <2>4 DEF TypeOK, pins, bounce, sketch, controller
  <2>6. StartInv'
    <3>1. phase = "starting" => Len(waits) # 0
      BY <1>0, EmptySeq DEF StartInv, TypeOK
    <3>. QED  BY <1>0, <2>1, <2>3, <3>1 DEF StartInv
  <2>7. PresentedInv'
    BY <1>0, <2>1, <2>3 DEF PresentedInv, RunsPresented
  <2>. QED  BY <2>5, <2>6, <2>7 DEF IInv
<1>5. CASE AskPresentation
  <2>. USE <1>5 DEF AskPresentation
  <2>1. asked' \in 0 .. MaxAsked
    BY <1>0, Bounds DEF TypeOK
  <2>2. [type |-> "presentation", ok |-> TRUE] \in Messages
    BY DEF Messages
  <2>3. toNode' \in Seq(Messages) /\ Len(toNode') <= MaxInFlight
    BY <1>1, <2>2, AppendProperties
  <2>4. TypeOK'
    BY <1>0, <2>1, <2>3 DEF TypeOK, pins, bounce, sketch, core, controller
  <2>5. StartInv' /\ PresentedInv'
    BY Undisturbed DEF core
  <2>. QED  BY <2>4, <2>5 DEF IInv
<1>. QED  BY <1>3, <1>4, <1>5

LEMMA SketchKeepsIInv ==
  ASSUME IInv, Tick \/ Loop \/ \E s \in Sensors, v \in Values : Change(s, v)
  PROVE  IInv'
<1>0. TypeOK /\ StartInv /\ PresentedInv
  BY DEF IInv
<1>1. /\ Interval \in Nat /\ ForceUpdate \in Nat /\ MaxLosses \in Nat /\ MaxChanges \in Nat
      /\ Forced \subseteq Sensors /\ Debounced \subseteq Sensors
  BY SensorAssumption, Bounds
<1>2. CASE \E s \in Sensors, v \in Values : Change(s, v)
  <2>1. PICK s \in Sensors, v \in Values : Change(s, v)
    BY <1>2
  <2>2. reading' \in [Sensors -> Values] /\ changes' \in 0 .. MaxChanges
    BY <1>0, <1>1, <2>1 DEF Change, TypeOK
  <2>3. TypeOK'
    BY <1>0, <2>1, <2>2 DEF Change, TypeOK, bounce, sketch, core, controller
  <2>4. StartInv' /\ PresentedInv'
    BY <2>1, Undisturbed DEF Change, core
  <2>. QED  BY <2>3, <2>4 DEF IInv
<1>3. CASE Tick
  <2>1. age' \in [Debounced -> 0 .. Interval]
    BY <1>0, <1>1, <1>3 DEF Tick, TypeOK
  <2>2. TypeOK'
    BY <1>0, <1>3, <2>1 DEF Tick, TypeOK, pins, sketch, core, controller
  <2>3. StartInv' /\ PresentedInv'
    BY <1>3, Undisturbed DEF Tick, core
  <2>. QED  BY <2>2, <2>3 DEF IInv
<1>4. CASE Loop
  <2>1. /\ Update
        /\ UNCHANGED <<pins, core, toNode, presented, asked, resets>>
    BY <1>4 DEF Loop
  <2>2. PICK unread \in SUBSET Forced :
          \E arrived \in SUBSET {s \in Sensors \ unread : Due(s)} :
            /\ losses' = losses + Cardinality(unread)
                 + (IF registered
                    THEN Cardinality({s \in Sensors \ unread : Due(s)} \ arrived) ELSE 0)
            /\ losses' <= MaxLosses
            /\ Show(arrived)
            /\ fate' = [s \in Sensors |->
                          IF s \notin {t \in Sensors \ unread : Due(t)} THEN fate[s]
                          ELSE IF s \in arrived THEN "arrived" ELSE "missed"]
            /\ reported' = [s \in Sensors |->
                              IF s \in {t \in Sensors \ unread : Due(t)}
                              THEN Fresh(s) ELSE reported[s]]
            /\ noUpdates' = [s \in Forced |->
                               IF s \in {t \in Sensors \ unread : Due(t)} THEN 0
                               ELSE IF s \in unread THEN noUpdates[s]
                               ELSE noUpdates[s] + 1]
    BY <1>4 DEF Loop
  <2>. DEFINE due == {s \in Sensors \ unread : Due(s)}
  <2>3. PICK arrived \in SUBSET due :
          /\ losses' = losses + Cardinality(unread)
               + (IF registered THEN Cardinality(due \ arrived) ELSE 0)
          /\ losses' <= MaxLosses
          /\ Show(arrived)
          /\ fate' = [s \in Sensors |-> IF s \notin due THEN fate[s]
                        ELSE IF s \in arrived THEN "arrived" ELSE "missed"]
          /\ reported' = [s \in Sensors |-> IF s \in due THEN Fresh(s) ELSE reported[s]]
          /\ noUpdates' = [s \in Forced |-> IF s \in due THEN 0
                             ELSE IF s \in unread THEN noUpdates[s]
                             ELSE noUpdates[s] + 1]
    BY <2>2
  <2>4. /\ debounced' \in [Debounced -> Values \cup {Unknown}]
        /\ unstable' \in [Debounced -> Values \cup {Unknown}]
        /\ age' \in [Debounced -> 0 .. Interval]
        /\ \A s \in Sensors : Fresh(s) \in Values \cup {Unknown}
    BY <1>0, <2>1, FreshType DEF pins
  <2>5. shown' \in [Sensors -> Values \cup {Unknown}]
    BY <1>0, <2>3, <2>4, ShownType
  <2>6. due \subseteq Sensors
    OBVIOUS
  <2>7. \A s \in Forced : s \notin due /\ s \notin unread => noUpdates[s] + 1 \in 0 .. ForceUpdate
    BY <1>0, <1>1 DEF Due, TypeOK
  <2>. HIDE DEF due
  <2>8. noUpdates' \in [Forced -> 0 .. ForceUpdate]
    <3>1. noUpdates \in [Forced -> 0 .. ForceUpdate]
      BY <1>0 DEF TypeOK
    <3>. QED  BY <1>1, <2>3, <2>7, <3>1
  <2>9. reported' \in [Sensors -> Values \cup {Unknown}]
    BY <1>0, <2>3, <2>4 DEF TypeOK
  <2>10. fate' \in [Sensors -> {"unsent", "arrived", "missed"}]
    BY <1>0, <2>3 DEF TypeOK
  <2>11. losses' \in 0 .. MaxLosses /\ (losses' = 0 => losses = 0)
    <3>1. losses \in 0 .. MaxLosses
      BY <1>0 DEF TypeOK
    <3>2. IsFiniteSet(unread) /\ IsFiniteSet(due \ arrived)
      BY <1>1, <2>6, SensorsFinite, FS_Subset
    <3>3. Cardinality(unread) \in Nat /\ Cardinality(due \ arrived) \in Nat
      BY <3>2, FS_CardinalityType
    <3>. QED  BY <1>1, <2>3, <3>1, <3>3
  <2>12. TypeOK'
    BY <1>0, <2>1, <2>4, <2>5, <2>8, <2>9, <2>10, <2>11 DEF TypeOK, pins, core
  <2>13. StartInv' /\ PresentedInv'
    BY <2>1, <2>11, Undisturbed DEF core
  <2>. QED  BY <2>12, <2>13 DEF IInv
<1>. QED  BY <1>2, <1>3, <1>4

LEMMA ResetKeepsIInv ==
  ASSUME IInv, Reset
  PROVE  IInv'
<1>0. TypeOK /\ StartInv /\ PresentedInv
  BY DEF IInv
<1>1. /\ phase' = "off" /\ waits' = <<>> /\ tries' = 0 /\ msg' = "none"
      /\ registered' = FALSE /\ toNode' = <<>>
      /\ UNCHANGED <<pins, controller, presented, losses, asked>>
  BY DEF Reset
<1>2. /\ waits' \in Seq(Waits) /\ toNode' \in Seq(Messages)
      /\ Len(waits') = 0 /\ Len(toNode') <= MaxInFlight
  BY <1>1, Bounds, EmptySeq
<1>3. /\ debounced' \in [Debounced -> Values \cup {Unknown}]
      /\ unstable' \in [Debounced -> Values \cup {Unknown}]
      /\ age' \in [Debounced -> 0 .. Interval]
      /\ reported' \in [Sensors -> Values \cup {Unknown}]
      /\ noUpdates' \in [Forced -> 0 .. ForceUpdate]
  BY SensorAssumption DEF Reset
<1>4. resets' \in 0 .. MaxResets /\ tries' \in 0 .. Retries
  BY <1>0, <1>1, SensorAssumption, Bounds DEF Reset, TypeOK
<1>5. registered' \in BOOLEAN
  BY <1>1, Zenon
<1>6. TypeOK'
  BY <1>0, <1>1, <1>2, <1>3, <1>4, <1>5 DEF TypeOK, pins, controller
<1>7. StartInv'
  BY <1>1, <1>2 DEF StartInv
<1>8. PresentedInv'
  BY <1>1, <1>2 DEF PresentedInv, RunsPresented
<1>. QED  BY <1>6, <1>7, <1>8 DEF IInv

LEMMA StutterKeepsIInv == IInv /\ UNCHANGED vars => IInv'
<1>. SUFFICES ASSUME IInv, UNCHANGED vars PROVE IInv'
  OBVIOUS
<1>1. TypeOK'
  BY DEF IInv, TypeOK, vars
<1>2. StartInv' /\ PresentedInv'
  BY Undisturbed DEF vars
<1>. QED  BY <1>1, <1>2 DEF IInv

LEMMA StepKeepsIInv == IInv /\ [Next]_vars => IInv'
BY WaitsKeepIInv, MessagesKeepIInv, SketchKeepsIInv, ResetKeepsIInv, StutterKeepsIInv
DEF Next

LEMMA IInvHolds == Spec => []IInv
BY InitIInv, StepKeepsIInv, PTL DEF Spec

-----------------------------------------------------------------------------
(* What the node remembers of its reports *)

\* Where nothing of this changes, the record stays.
LEMMA RecordUndisturbed ==
  ASSUME RecordInv, UNCHANGED <<phase, debounced, shown, reported, fate, resets>>
  PROVE  RecordInv'
BY DEF RecordInv, AttachedInv, ReportsOnRecord, OnRecord

\* The debouncer gives values, once it is attached.
LEMMA FreshValue ==
  ASSUME TypeOK, Update, reading' = reading, \A s \in Debounced : debounced[s] \in Values
  PROVE  /\ \A s \in Debounced : debounced'[s] \in Values
         /\ \A s \in Sensors : Fresh(s) \in Values
<1>1. reading \in [Sensors -> Values] /\ Debounced \subseteq Sensors
  BY SensorAssumption DEF TypeOK
<1>2. \A s \in Debounced : debounced'[s] \in Values
  BY <1>1 DEF Update
<1>. QED  BY <1>1, <1>2 DEF Fresh

\* The controller shows what arrived of a sensor with a child ID of its own,
\* and what it showed before if nothing of it arrived.
LEMMA ShownAlone ==
  ASSUME NEW arrived, arrived \subseteq Sensors, Show(arrived),
         NEW s \in Sensors, Alone(s)
  PROVE  shown'[Child[s]] = IF s \in arrived THEN Fresh(s) ELSE shown[Child[s]]
<1>. DEFINE c == Child[s]
            From == {i \in DOMAIN Order : Order[i] \in arrived /\ Child[Order[i]] = c}
            Latest == CHOOSE i \in From : \A j \in From : j <= i
<1>1. c \in Sensors
  BY SensorAssumption
<1>2. shown'[c] = IF From = {} THEN shown[c] ELSE Fresh(Order[Latest])
  BY <1>1 DEF Show
<1>3. \A i \in From : Order[i] = s /\ s \in arrived
  BY OrderType DEF Alone
<1>4. CASE s \in arrived
  <2>1. PICK i \in 1 .. Len(Order) : Order[i] = s
    BY OrderType DEF Sensors, ToSet
  <2>2. i \in From
    BY <1>4, <2>1, OrderType
  <2>3. From \subseteq 1 .. Len(Order) /\ From # {} /\ Len(Order) \in Nat
    BY <2>2, OrderType
  <2>. HIDE DEF From
  <2>4. \E k \in From : \A j \in From : j <= k
    BY <2>3, Greatest
  <2>5. Latest \in From
    BY <2>4
  <2>. HIDE DEF Latest
  <2>6. Order[Latest] = s
    BY <1>3, <2>5
  <2>. QED  BY <1>2, <1>4, <2>3, <2>6
<1>5. CASE s \notin arrived
  <2>1. From = {}
    <3>. HIDE DEF From
    <3>. QED  BY <1>3, <1>5
  <2>. HIDE DEF From
  <2>. QED  BY <1>2, <1>5, <2>1
<1>. QED  BY <1>4, <1>5

LEMMA LoopKeepsRecord ==
  ASSUME TypeOK, RecordInv, Loop
  PROVE  RecordInv'
<1>1. /\ phase = "running" /\ Update
      /\ UNCHANGED <<pins, core, toNode, presented, asked, resets>>
  BY DEF Loop
<1>2. PICK due, arrived :
        /\ due \subseteq Sensors /\ arrived \subseteq due
        /\ Show(arrived)
        /\ fate' = [s \in Sensors |-> IF s \notin due THEN fate[s]
                      ELSE IF s \in arrived THEN "arrived" ELSE "missed"]
        /\ reported' = [s \in Sensors |-> IF s \in due THEN Fresh(s) ELSE reported[s]]
  <2>1. PICK unread \in SUBSET Forced :
          \E arrived \in SUBSET {s \in Sensors \ unread : Due(s)} :
            /\ Show(arrived)
            /\ fate' = [s \in Sensors |->
                          IF s \notin {t \in Sensors \ unread : Due(t)} THEN fate[s]
                          ELSE IF s \in arrived THEN "arrived" ELSE "missed"]
            /\ reported' = [s \in Sensors |->
                              IF s \in {t \in Sensors \ unread : Due(t)}
                              THEN Fresh(s) ELSE reported[s]]
    BY DEF Loop
  <2>. DEFINE due == {s \in Sensors \ unread : Due(s)}
  <2>2. PICK arrived \in SUBSET due :
          /\ Show(arrived)
          /\ fate' = [s \in Sensors |-> IF s \notin due THEN fate[s]
                        ELSE IF s \in arrived THEN "arrived" ELSE "missed"]
          /\ reported' = [s \in Sensors |-> IF s \in due THEN Fresh(s) ELSE reported[s]]
    BY <2>1
  <2>3. due \subseteq Sensors
    OBVIOUS
  <2>. HIDE DEF due
  <2>. QED  BY <2>2, <2>3
<1>3. /\ \A s \in Debounced : debounced'[s] \in Values
      /\ \A s \in Sensors : Fresh(s) \in Values
  BY <1>1, FreshValue DEF RecordInv, AttachedInv, pins
<1>4. ASSUME NEW s \in Sensors, Alone(s)
      PROVE  OnRecord(s)'
  <2>1. OnRecord(s) /\ resets' = resets /\ resets \in Nat
    BY <1>1, <1>4, Bounds DEF RecordInv, ReportsOnRecord, TypeOK
  <2>2. shown'[Child[s]] = IF s \in arrived THEN Fresh(s) ELSE shown[Child[s]]
    BY <1>2, <1>4, ShownAlone
  <2>3. CASE s \in due
    <3>1. reported'[s] = Fresh(s) /\ Fresh(s) \in Values
      BY <1>2, <1>3, <2>3
    <3>2. fate'[s] = IF s \in arrived THEN "arrived" ELSE "missed"
      BY <1>2, <2>3
    <3>. QED  BY <2>2, <3>1, <3>2 DEF OnRecord
  <2>4. CASE s \notin due
    <3>1. reported'[s] = reported[s] /\ fate'[s] = fate[s] /\ s \notin arrived
      BY <1>2, <2>4
    <3>. QED  BY <2>1, <2>2, <3>1 DEF OnRecord
  <2>. QED  BY <2>3, <2>4
<1>5. ReportsOnRecord'
  BY <1>4 DEF ReportsOnRecord, Alone
<1>. QED  BY <1>3, <1>5 DEF RecordInv, AttachedInv

LEMMA BegunKeepsRecord ==
  ASSUME TypeOK, RecordInv, Begun
  PROVE  RecordInv'
<1>1. \A s \in Debounced : debounced'[s] \in Values
  BY SensorAssumption DEF Begun, TypeOK
<1>2. UNCHANGED <<shown, reported, fate, resets>>
  BY DEF Begun, sketch, controller
<1>. QED  BY <1>1, <1>2 DEF RecordInv, AttachedInv, ReportsOnRecord, OnRecord

LEMMA ResetKeepsRecord ==
  ASSUME TypeOK, RecordInv, Reset
  PROVE  RecordInv'
<1>1. /\ phase' = "off" /\ reported' = FirstValue /\ shown' = shown /\ fate' = fate
      /\ resets' > 0
  BY Bounds DEF Reset, TypeOK, controller
<1>2. ASSUME NEW s \in Sensors, OnRecord(s) PROVE OnRecord(s)'
  BY <1>1, <1>2 DEF OnRecord
<1>. QED  BY <1>1, <1>2 DEF RecordInv, AttachedInv, ReportsOnRecord, Alone

LEMMA StepKeepsRecord == IInv /\ RecordInv /\ [Next]_vars => RecordInv'
<1>. SUFFICES ASSUME IInv, RecordInv, [Next]_vars PROVE RecordInv'
  OBVIOUS
<1>1. TypeOK /\ StartInv
  BY DEF IInv
<1>2. CASE TransportReady
  <2>1. phase' = "starting" /\ UNCHANGED <<debounced, shown, reported, fate, resets>>
    BY <1>2 DEF TransportReady, bounce, sketch, controller
  <2>. QED  BY <2>1 DEF RecordInv, AttachedInv, ReportsOnRecord, OnRecord
<1>3. CASE WaitEnds
  <2>1. CASE SigningWaited \/ PresentedAgain \/ Register \/ RetryRegistration
    BY <2>1, RecordUndisturbed
    DEF SigningWaited, PresentedAgain, Register, RetryRegistration, bounce, sketch,
        controller
  <2>2. CASE Begun
    BY <1>1, <2>2, BegunKeepsRecord
  <2>. QED  BY <1>3, <2>1, <2>2 DEF WaitEnds
<1>4. CASE Reset
  BY <1>1, <1>4, ResetKeepsRecord
<1>5. CASE RecvAnswer \/ RecvPresentation \/ AskPresentation
  BY <1>5, RecordUndisturbed
  DEF RecvAnswer, RecvPresentation, AskPresentation, bounce, sketch, core, controller
<1>6. CASE Tick \/ \E s \in Sensors, v \in Values : Change(s, v)
  BY <1>6, RecordUndisturbed DEF Tick, Change, bounce, sketch, core, controller
<1>7. CASE Loop
  BY <1>1, <1>7, LoopKeepsRecord
<1>8. CASE UNCHANGED vars
  BY <1>8, RecordUndisturbed DEF vars
<1>. QED  BY <1>2, <1>3, <1>4, <1>5, <1>6, <1>7, <1>8 DEF Next

-----------------------------------------------------------------------------
(* Theorems *)

\* Counters, queues and values stay in their ranges, for every set of sensors
\* and however often the node is reset: the forced update of the sketch comes
\* in time, and the controller shows nothing but values that were read.
THEOREM TypeCorrect == Spec => []TypeOK
<1>1. IInv => TypeOK
  BY DEF IInv
<1>. QED  BY <1>1, IInvHolds, PTL

\* A node that runs has been presented completely unless something was lost,
\* for any depth of presentNode() within presentNode().
THEOREM PresentedBeforeRunning == Spec => []RunsPresented
<1>1. IInv => RunsPresented
  BY DEF IInv, PresentedInv, RunsPresented
<1>. QED  BY <1>1, IInvHolds, PTL
\* What a sketch remembers as reported is what the controller shows, whenever
\* the last report arrived and the node has not been reset since: the rule to
\* send changes only never leaves the two apart by itself, for sensors with a
\* child ID of their own, however values bounce, and whatever was lost before.
\* After a reset the controller still shows a value that was sent.
THEOREM RecordKept == Spec => []ReportsOnRecord
<1>1. Init => RecordInv
  <2>. SUFFICES ASSUME Init PROVE RecordInv
    OBVIOUS
  <2>1. phase = "off" /\ fate = [s \in Sensors |-> "unsent"]
        /\ shown = [s \in Sensors |-> Unknown] /\ reported = FirstValue
    BY DEF Init
  <2>2. \A s \in Sensors : Child[s] \in Sensors
    BY SensorAssumption
  <2>. QED  BY <2>1, <2>2 DEF RecordInv, AttachedInv, ReportsOnRecord, OnRecord
<1>2. RecordInv => ReportsOnRecord
  BY DEF RecordInv
<1>. QED  BY <1>1, <1>2, IInvHolds, StepKeepsRecord, PTL DEF Spec
=============================================================================
