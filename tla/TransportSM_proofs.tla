------------------------- MODULE TransportSM_proofs -------------------------
(***************************************************************************)
(* Proofs about TransportSM, for every value of its constants: type        *)
(* correctness, the inductive invariant of the state machine, what a ready *)
(* node may rely on, that the node implements module Uplink, and that it   *)
(* gives up no request before all its retries had their time.              *)
(***************************************************************************)
EXTENDS MCTransportSM, SequenceTheorems, TLAPS

-----------------------------------------------------------------------------
(* The call stack *)

\* Pushing a handler keeps a call stack a sequence of frames.
LEMMA CallType ==
  ASSUME stack \in Seq(Frames), fifoOpen \in BOOLEAN,
         NEW kind \in {"ping", "ready", "present"}, NEW from \in 0 .. 255,
         Call(kind, from)
  PROVE  stack' \in Seq(Frames) /\ fifoOpen' \in BOOLEAN
<1>1. [kind |-> kind, from |-> from, fifo |-> fifoOpen] \in Frames
  BY DEF Frames
<1>2. QED
  BY <1>1, AppendProperties DEF Call

\* So does popping one.
LEMMA ReturnType ==
  ASSUME stack \in Seq(Frames), stack # <<>>, Return
  PROVE  stack' \in Seq(Frames) /\ fifoOpen' \in BOOLEAN
<1>1. Len(stack) \in Nat \ {0} /\ stack[Len(stack)] \in Frames
  OBVIOUS
<1>2. SubSeq(stack, 1, Len(stack) - 1) \in Seq(Frames)
  BY <1>1
<1>3. QED
  BY <1>1, <1>2 DEF Return, Frames

-----------------------------------------------------------------------------
(* Type correctness *)

\* A node that has just started is well typed.
LEMMA InitType == Init => TypeOK
<1> SUFFICES ASSUME Init PROVE TypeOK
  OBVIOUS
<1> USE AddressAssumption, ConfigAssumption, LimitAssumption
<1>1. stack \in Seq(Frames)
  BY DEF Init
<1>2. nodeId \in 0 .. 255 /\ eepromNodeId \in 0 .. 255
  BY DEF Init
<1>3. /\ currentState \in States /\ stateRetries \in 0 .. 7
      /\ timeInState \in 0 .. ExtFailureTimeout + 1
  BY DEF Init, States
<1>4. /\ failedUplinkTransmissions \in 0 .. TxCounterSize - 1
      /\ failureCounter \in 0 .. MY_TRANSPORT_MAX_TSM_FAILURES
      /\ uplinkCheckAge \in 0 .. CheckInterval
      /\ faults \in 0 .. MaxFaults
  BY DEF Init
<1>5. parentNodeId \in 0 .. 255 /\ distanceGW \in 0 .. 255
  BY DEF Init, DISTANCE_INVALID
<1>6. pingResponse \in 0 .. 255
  BY DEF Init
<1>7. /\ uplinkOk \in BOOLEAN /\ transportActive \in BOOLEAN
      /\ findingParentNode \in BOOLEAN /\ preferredParentFound \in BOOLEAN
      /\ pingActive \in BOOLEAN /\ presentationSent \in BOOLEAN
      /\ fifoOpen \in BOOLEAN /\ msgIsPong \in BOOLEAN
  BY DEF Init
<1>8. QED
  BY <1>1, <1>2, <1>3, <1>4, <1>5, <1>6, <1>7 DEF TypeOK

\* The parts of TypeOK that the transitions of transportSwitchSM change.
SMType ==
  currentState \in States /\ stateRetries \in 0 .. 7
    /\ timeInState \in 0 .. ExtFailureTimeout + 1
TxType ==
  failedUplinkTransmissions \in 0 .. TxCounterSize - 1
ParentType == parentNodeId \in 0 .. 255 /\ distanceGW \in 0 .. 255

\* Two halves of TypeOK: what the transitions change, and the rest.
SearchType ==
  /\ SMType /\ TxType /\ ParentType
  /\ uplinkOk \in BOOLEAN /\ transportActive \in BOOLEAN
  /\ findingParentNode \in BOOLEAN /\ preferredParentFound \in BOOLEAN
  /\ failureCounter \in 0 .. MY_TRANSPORT_MAX_TSM_FAILURES
OtherType ==
  /\ pingActive \in BOOLEAN /\ pingResponse \in 0 .. 255
  /\ uplinkCheckAge \in 0 .. CheckInterval
  /\ nodeId \in 0 .. 255 /\ eepromNodeId \in 0 .. 255
  /\ presentationSent \in BOOLEAN
  /\ stack \in Seq(Frames) /\ fifoOpen \in BOOLEAN
  /\ msgIsPong \in BOOLEAN
  /\ faults \in 0 .. MaxFaults

LEMMA TypeHalves == SearchType' /\ OtherType' => TypeOK'
  BY Zenon DEF TypeOK, SearchType, OtherType, SMType, TxType, ParentType

\* transportSwitchSM keeps the retry counter in its three bits and restarts the
\* time in the state.
LEMMA EnterType ==
  ASSUME TypeOK, NEW s \in States, Enter(s)
  PROVE  SMType'
<1>1. stateRetries \in 0 .. 7 /\ ExtFailureTimeout + 1 \in Nat
  BY LimitAssumption DEF TypeOK
<1>2. (stateRetries + 1) % 8 \in 0 .. 7
  BY <1>1
<1>3. QED
  BY <1>1, <1>2 DEF Enter, SMType

\* The counter of failed transmissions stays in its bit field: it wraps around.
LEMMA UplinkSendType ==
  ASSUME TypeOK, UplinkSend
  PROVE  TxType'
  BY LimitAssumption DEF TypeOK, UplinkSend, TxType

\* stFailureTransition keeps the failure counter at its limit at most.
LEMMA EnterFailureType ==
  ASSUME TypeOK, EnterFailure
  PROVE  /\ SMType'
         /\ failureCounter' \in 0 .. MY_TRANSPORT_MAX_TSM_FAILURES
         /\ uplinkOk' \in BOOLEAN /\ transportActive' \in BOOLEAN
<1>1. SMType'
  BY EnterType DEF EnterFailure, States
<1>2. failureCounter' \in 0 .. MY_TRANSPORT_MAX_TSM_FAILURES
  BY LimitAssumption DEF EnterFailure, TypeOK
<1>3. QED
  BY <1>1, <1>2 DEF EnterFailure

\* stParentTransition leaves a well-typed parent, distance and counter.
LEMMA EnterParentType ==
  ASSUME TypeOK, EnterParent
  PROVE  /\ SMType' /\ TxType' /\ ParentType'
         /\ uplinkOk' \in BOOLEAN /\ preferredParentFound' \in BOOLEAN
         /\ findingParentNode' \in BOOLEAN
<1>1. SMType'
  BY EnterType DEF EnterParent, States
<1>2. TxType'
  BY LimitAssumption DEF EnterParent, TypeOK, TxType, txVars
<1>3. ParentType'
  BY ConfigAssumption DEF EnterParent, ParentType, AUTO, DISTANCE_INVALID
<1>4. QED
  BY <1>1, <1>2, <1>3 DEF EnterParent


\* stUplinkTransition leaves a well-typed ping and counter.
LEMMA EnterUplinkType ==
  ASSUME TypeOK, EnterUplink
  PROVE  SMType' /\ TxType' /\ pingActive' \in BOOLEAN /\ pingResponse' \in 0 .. 255
<1>1. SMType'
  BY EnterType DEF EnterUplink, States
<1>2. TxType'
  BY UplinkSendType DEF EnterUplink, TypeOK, TxType, txVars
<1>3. pingActive' \in BOOLEAN /\ pingResponse' \in 0 .. 255
  <2>1. CASE UplinkCheckEnabled
    <3>1. pingActive' = TRUE
      BY <2>1 DEF EnterUplink
    <3>2. pingResponse' \in 0 .. 255
      BY <2>1 DEF EnterUplink, INVALID_HOPS
    <3>3. QED
      BY <3>1, <3>2
  <2>2. CASE ~ UplinkCheckEnabled
    <3>1. pingActive' = pingActive /\ pingResponse' = pingResponse
      BY <2>2 DEF EnterUplink, pingVars
    <3>2. QED
      BY <3>1 DEF TypeOK
  <2>3. QED
    BY <2>1, <2>2
<1>4. QED
  BY <1>1, <1>2, <1>3

\* stReadyTransition leaves well-typed counters and a well-formed call stack.
LEMMA EnterReadyType ==
  ASSUME TypeOK, EnterReady
  PROVE  /\ SMType' /\ TxType' /\ uplinkOk' \in BOOLEAN
         /\ failureCounter' \in 0 .. MY_TRANSPORT_MAX_TSM_FAILURES
         /\ stack' \in Seq(Frames) /\ fifoOpen' \in BOOLEAN
<1>1. SMType'
  BY EnterType DEF EnterReady, States
<1>2. TxType' /\ failureCounter' \in 0 .. MY_TRANSPORT_MAX_TSM_FAILURES
  BY LimitAssumption DEF EnterReady, TxType
<1>3. stack' \in Seq(Frames) /\ fifoOpen' \in BOOLEAN
  <2>1. CASE presentationSent
    BY <2>1 DEF EnterReady, TypeOK, callVars
  <2>2. CASE ~ presentationSent
    BY <2>2, CallType DEF EnterReady, TypeOK
  <2>3. QED
    BY <2>1, <2>2
<1>4. QED
  BY <1>1, <1>2, <1>3 DEF EnterReady

\* Every update of the state machine preserves the types.
LEMMA UpdateType ==
  ASSUME TypeOK, UpdateSM
  PROVE  TypeOK'
<1> USE LimitAssumption, ConfigAssumption
<1>1. CASE StInitUpdate
  <2>1. CASE EnterFailure /\ UNCHANGED <<parVars, txVars, idVars>> /\ Fault
    <3>1. faults' \in 0 .. MaxFaults
      BY <2>1 DEF Fault, TypeOK
    <3>2. QED
      BY <1>1, <2>1, <3>1, EnterFailureType
      DEF StInitUpdate, TypeOK, SMType, parVars, pingVars, txVars, idVars, callVars
  <2>2. CASE /\ transportActive' = TRUE
             /\ nodeId' = ConfiguredId
             /\ eepromNodeId' = IF ConfiguredId = AUTO THEN eepromNodeId ELSE ConfiguredId
             /\ EnterParent
             /\ UNCHANGED <<failureCounter, faults>>
    <3>1. nodeId' \in 0 .. 255 /\ eepromNodeId' \in 0 .. 255
      BY <2>2 DEF TypeOK, ConfiguredId
    <3>2. QED
      BY <1>1, <2>2, <3>1, EnterParentType
      DEF StInitUpdate, TypeOK, SMType, TxType, ParentType, pingVars, callVars
  <2>3. CASE /\ nodeId' = AUTO
             /\ eepromNodeId' = IF MY_NODE_ID = AUTO THEN eepromNodeId ELSE MY_NODE_ID
             /\ EnterFailure
             /\ UNCHANGED <<parVars, txVars, faults>>
    <3>1. nodeId' \in 0 .. 255 /\ eepromNodeId' \in 0 .. 255
      BY <2>3 DEF TypeOK, AUTO
    <3>2. QED
      BY <1>1, <2>3, <3>1, EnterFailureType
      DEF StInitUpdate, TypeOK, SMType, parVars, pingVars, txVars, callVars
  <2>4. QED
    BY <1>1, <2>1, <2>2, <2>3 DEF StInitUpdate
<1>2. CASE StParentFound
  <2>1. SMType' /\ TxType'
    BY <1>2, EnterType, UplinkSendType
    DEF StParentFound, EnterID, States, TypeOK, TxType, txVars
  <2>2. QED
    <3>1. SearchType'
      BY <1>2, <2>1
      DEF StParentFound, TypeOK, pingVars, idVars, callVars, SearchType, SMType, TxType,
      ParentType
    <3>2. OtherType'
      BY <1>2, <2>1
      DEF StParentFound, TypeOK, pingVars, idVars, callVars, OtherType
    <3>3. QED
      BY <3>1, <3>2, TypeHalves
<1>3. CASE StParentRetry
  BY <1>3, EnterParentType
  DEF StParentRetry, TypeOK, SMType, TxType, ParentType, pingVars, idVars, callVars
<1>4. CASE StParentFail
  BY <1>4, EnterFailureType
  DEF StParentFail, TypeOK, SMType, parVars, pingVars, txVars, idVars, callVars
<1>5. CASE StIDOk
  BY <1>5, EnterUplinkType
  DEF StIDOk, TypeOK, SMType, TxType, parVars, idVars, callVars
<1>6. CASE StIDRetry
  <2>1. SMType' /\ TxType'
    BY <1>6, EnterType, UplinkSendType
    DEF StIDRetry, EnterID, States, TypeOK, TxType, txVars
  <2>2. QED
    BY <1>6, <2>1
    DEF StIDRetry, TypeOK, SMType, TxType, parVars, pingVars, idVars, callVars
<1>7. CASE StIDFail
  BY <1>7, EnterFailureType
  DEF StIDFail, TypeOK, SMType, parVars, pingVars, txVars, idVars, callVars
<1>8. CASE StUplinkOk
  <2>1. uplinkCheckAge' \in 0 .. CheckInterval /\ distanceGW' \in 0 .. 255
    <3>1. CASE UplinkCheckEnabled
      <4>1. uplinkCheckAge' = 0 /\ distanceGW' = pingResponse
        BY <1>8, <3>1, Zenon DEF StUplinkOk
      <4>2. QED
        BY <4>1 DEF TypeOK
    <3>2. CASE ~ UplinkCheckEnabled
      <4>1. UNCHANGED <<uplinkCheckAge, distanceGW>>
        BY <1>8, <3>2, Zenon DEF StUplinkOk
      <4>2. QED
        BY <4>1 DEF TypeOK
    <3>3. QED
      BY <3>1, <3>2
  <2>2. msgIsPong' \in BOOLEAN
    <3>1. msgIsPong' = (presentationSent /\ msgIsPong)
      BY <1>8, Zenon DEF StUplinkOk
    <3>2. QED
      BY <3>1, Zenon
  <2>3. EnterReady
    BY <1>8 DEF StUplinkOk
  <2>4. QED
    BY <1>8, <2>1, <2>2, <2>3, EnterReadyType
    DEF StUplinkOk, TypeOK, SMType, TxType, pingVars, idVars
<1>9. CASE StUplinkRetry
  BY <1>9, EnterUplinkType
  DEF StUplinkRetry, TypeOK, SMType, TxType, parVars, idVars, callVars
<1>10. CASE StUplinkFail
  <2>1. SearchType'
    BY <1>10, EnterParentType
    DEF StUplinkFail, TypeOK, idVars, callVars, SearchType, SMType, TxType, ParentType
  <2>2. OtherType'
    BY <1>10, EnterParentType
    DEF StUplinkFail, TypeOK, idVars, callVars, OtherType
  <2>3. QED
    BY <2>1, <2>2, TypeHalves
<1>11. CASE StReadyUpdate
  <2>1. CASE MY_PARENT_NODE_IS_STATIC
    BY <1>11, <2>1
    DEF StReadyUpdate, TypeOK, smVars, parVars, pingVars, idVars, callVars
  <2>2. CASE ~ MY_PARENT_NODE_IS_STATIC
    BY <1>11, <2>2, EnterParentType
    DEF StReadyUpdate, TypeOK, SMType, TxType, ParentType, pingVars, idVars, callVars
  <2>3. QED
    BY <2>1, <2>2
<1>12. CASE StFailureUpdate
  <2>1. SMType'
    BY <1>12, EnterType DEF StFailureUpdate, EnterInit, States
  <2>2. /\ uplinkCheckAge' \in 0 .. CheckInterval
        /\ nodeId' \in 0 .. 255
        /\ parentNodeId' \in 0 .. 255 /\ distanceGW' \in 0 .. 255
    BY <1>12 DEF StFailureUpdate, EnterInit, TypeOK, DISTANCE_INVALID
  <2>3. pingActive' = FALSE /\ transportActive' = FALSE
    BY <1>12 DEF StFailureUpdate, EnterInit
  <2>4. QED
    <3>1. SearchType'
      BY <1>12, <2>1, <2>2, <2>3
      DEF StFailureUpdate, TypeOK, txVars, callVars, SearchType, SMType, TxType,
      ParentType
    <3>2. OtherType'
      BY <1>12, <2>1, <2>2, <2>3
      DEF StFailureUpdate, TypeOK, txVars, callVars, OtherType
    <3>3. QED
      BY <3>1, <3>2, TypeHalves
<1>13. QED
  BY <1>1, <1>2, <1>3, <1>4, <1>5, <1>6, <1>7, <1>8, <1>9, <1>10, <1>11, <1>12
  DEF UpdateSM

\* So does every message.
LEMMA ReceiveType ==
  ASSUME TypeOK, Receive
  PROVE  TypeOK'
<1> USE AddressAssumption, LimitAssumption
<1>1. CASE \E n \in Neighbours, d \in Distances : RecvFindParentResponse(n, d)
  <2>1. PICK n \in Neighbours, d \in Distances : RecvFindParentResponse(n, d)
    BY <1>1
  <2>2. parentNodeId' \in 0 .. 255 /\ distanceGW' \in 0 .. 255
    BY <2>1 DEF RecvFindParentResponse, DISTANCE_INVALID
  <2>3. preferredParentFound' \in BOOLEAN
    <3>1. preferredParentFound' = (MY_PARENT_NODE_ID # AUTO /\ n = MY_PARENT_NODE_ID)
      BY <2>1, Zenon DEF RecvFindParentResponse
    <3>2. QED
      BY <3>1, Zenon
  <2>4. /\ UNCHANGED <<smVars, uplinkOk, transportActive, findingParentNode, pingVars,
                       txVars, failureCounter, uplinkCheckAge, idVars,
                       presentationSent, callVars, faults>>
        /\ msgIsPong' = FALSE
    BY <2>1, Zenon DEF RecvFindParentResponse
  <2>5. QED
    <3>1. SearchType'
      BY <2>2, <2>3, <2>4
      DEF TypeOK, smVars, pingVars, txVars, idVars, callVars, SearchType, SMType, TxType,
      ParentType
    <3>2. OtherType'
      BY <2>2, <2>3, <2>4
      DEF TypeOK, smVars, pingVars, txVars, idVars, callVars, OtherType
    <3>3. QED
      BY <3>1, <3>2, TypeHalves
<1>2. CASE \E id \in Ids \cup {AUTO} : RecvIdResponse(id)
  <2>1. PICK id \in Ids \cup {AUTO} : RecvIdResponse(id)
    BY <1>2
  <2>2. nodeId' \in 0 .. 255 /\ eepromNodeId' \in 0 .. 255
    BY <2>1 DEF RecvIdResponse, AUTO, TypeOK
  <2>3. QED
    <3>1. SearchType'
      BY <2>1, <2>2
      DEF RecvIdResponse, TypeOK, smVars, parVars, pingVars, txVars, callVars, SearchType,
      SMType, TxType, ParentType
    <3>2. OtherType'
      BY <2>1, <2>2
      DEF RecvIdResponse, TypeOK, smVars, parVars, pingVars, txVars, callVars, OtherType
    <3>3. QED
      BY <3>1, <3>2, TypeHalves
<1>3. CASE \E h \in Hops : RecvPong(h)
  <2>1. PICK h \in Hops : RecvPong(h)
    BY <1>3
  <2>2. pingActive' \in BOOLEAN /\ pingResponse' \in 0 .. 255
    <3>1. CASE pingActive
      <4>1. pingActive' = FALSE /\ pingResponse' = h
        BY <2>1, <3>1 DEF RecvPong
      <4>2. h \in 0 .. 255
        BY DEF MAX_HOPS
      <4>3. QED
        BY <4>1, <4>2
    <3>2. CASE ~ pingActive
      <4>1. pingActive' = pingActive /\ pingResponse' = pingResponse
        BY <2>1, <3>2 DEF RecvPong, pingVars
      <4>2. QED
        BY <4>1 DEF TypeOK
    <3>3. QED
      BY <3>1, <3>2
  <2>3. QED
    BY <2>1, <2>2
    DEF RecvPong, TypeOK, smVars, parVars, txVars, idVars, callVars
<1>4. CASE RecvAndReply
  <2>1. TxType'
    BY <1>4, UplinkSendType DEF RecvAndReply, Reply, TypeOK, TxType, txVars
  <2>2. QED
    <3>1. SearchType'
      BY <1>4, <2>1
      DEF RecvAndReply, TypeOK, smVars, parVars, pingVars, idVars, callVars, SearchType,
      SMType, TxType, ParentType
    <3>2. OtherType'
      BY <1>4, <2>1
      DEF RecvAndReply, TypeOK, smVars, parVars, pingVars, idVars, callVars, OtherType
    <3>3. QED
      BY <3>1, <3>2, TypeHalves
<1>5. CASE \E n \in Neighbours : RecvFindParentRequestRecent(n)
  <2>1. PICK n \in Neighbours : RecvFindParentRequestRecent(n)
    BY <1>5
  <2>2. /\ UNCHANGED <<smVars, uplinkOk, transportActive, parVars, pingVars,
                       txVars, failureCounter, idVars, presentationSent,
                       callVars, faults>>
        /\ uplinkCheckAge' = 0 /\ msgIsPong' = FALSE
    BY <2>1, Zenon DEF RecvFindParentRequestRecent
  <2>3. uplinkCheckAge' \in 0 .. CheckInterval
    BY <2>2
  <2>4. QED
    <3>1. SearchType'
      BY <2>2, <2>3
      DEF TypeOK, smVars, parVars, pingVars, txVars, idVars, callVars, SearchType, SMType,
      TxType, ParentType
    <3>2. OtherType'
      BY <2>2, <2>3
      DEF TypeOK, smVars, parVars, pingVars, txVars, idVars, callVars, OtherType
    <3>3. QED
      BY <3>1, <3>2, TypeHalves
<1>6. CASE \E n \in Neighbours : RecvFindParentRequestStale(n)
  <2>1. PICK n \in Neighbours : RecvFindParentRequestStale(n)
    BY <1>6
  <2>2. /\ pingActive' \in BOOLEAN /\ pingResponse' \in 0 .. 255
        /\ TxType' /\ stack' \in Seq(Frames) /\ fifoOpen' \in BOOLEAN
    <3>1. CASE pingActive
      <4>1. UNCHANGED <<pingVars, txVars, callVars>>
        BY <2>1, <3>1, Zenon DEF RecvFindParentRequestStale
      <4>2. QED
        BY <4>1 DEF TypeOK, TxType, pingVars, txVars, callVars
    <3>2. CASE ~ pingActive
      <4>1. /\ pingActive' = TRUE /\ pingResponse' = INVALID_HOPS
            /\ UplinkSend /\ Call("ping", n)
        BY <2>1, <3>2, Zenon DEF RecvFindParentRequestStale
      <4>2. stack' \in Seq(Frames) /\ fifoOpen' \in BOOLEAN
        <5>1. n \in 0 .. 255
          OBVIOUS
        <5>2. QED
          BY <4>1, <5>1, CallType DEF TypeOK
      <4>3. pingResponse' \in 0 .. 255
        BY <4>1 DEF INVALID_HOPS
      <4>4. QED
        BY <4>1, <4>2, <4>3, UplinkSendType
    <3>3. QED
      BY <3>1, <3>2
  <2>3. /\ UNCHANGED <<smVars, uplinkOk, transportActive, parVars, failureCounter,
                       uplinkCheckAge, idVars, presentationSent, faults>>
        /\ msgIsPong' = FALSE
    BY <2>1, Zenon DEF RecvFindParentRequestStale
  <2>4. QED
    BY <2>2, <2>3 DEF TypeOK, TxType, smVars, parVars, idVars
<1>7. CASE RecvPresentation
  <2>1. stack' \in Seq(Frames) /\ fifoOpen' \in BOOLEAN
    BY <1>7, CallType DEF RecvPresentation, TypeOK
  <2>2. QED
    <3>1. SearchType'
      BY <1>7, <2>1
      DEF RecvPresentation, TypeOK, smVars, parVars, pingVars, txVars, idVars, SearchType,
      SMType, TxType, ParentType
    <3>2. OtherType'
      BY <1>7, <2>1
      DEF RecvPresentation, TypeOK, smVars, parVars, pingVars, txVars, idVars, OtherType
    <3>3. QED
      BY <3>1, <3>2, TypeHalves
<1>8. QED
  BY <1>1, <1>2, <1>3, <1>4, <1>5, <1>6, <1>7 DEF Receive

\* A step of the program preserves the types.
LEMMA StepType == TypeOK /\ [Next]_vars => TypeOK'
<1> SUFFICES ASSUME TypeOK, [Next]_vars PROVE TypeOK'
  OBVIOUS
<1> USE LimitAssumption, ConfigAssumption
<1>1. CASE UpdateSM
  BY <1>1, UpdateType
<1>2. CASE OpenFIFO
  <2>1. CASE UNCHANGED <<smVars, uplinkOk, transportActive, failureCounter, faults>>
    BY <1>2, <2>1
    DEF OpenFIFO, TypeOK, smVars, parVars, pingVars, txVars, idVars
  <2>2. CASE Fault /\ EnterFailure
    <3>1. faults' \in 0 .. MaxFaults
      BY <2>2 DEF Fault, TypeOK
    <3>2. QED
      BY <1>2, <2>2, <3>1, EnterFailureType
      DEF OpenFIFO, TypeOK, SMType, parVars, pingVars, txVars, idVars
  <2>3. QED
    BY <1>2, <2>1, <2>2 DEF OpenFIFO
<1>3. CASE CloseFIFO
  <2>1. SearchType'
    BY <1>3
    DEF CloseFIFO, TypeOK, smVars, parVars, pingVars, txVars, idVars, SearchType, SMType,
    TxType, ParentType
  <2>2. OtherType'
    BY <1>3
    DEF CloseFIFO, TypeOK, smVars, parVars, pingVars, txVars, idVars, OtherType
  <2>3. QED
    BY <2>1, <2>2, TypeHalves
<1>4. CASE Receive
  BY <1>4, ReceiveType
<1>5. CASE PingWaitFailed
  <2>1. stack' \in Seq(Frames) /\ fifoOpen' \in BOOLEAN
    BY <1>5, ReturnType DEF PingWaitFailed, Waiting, TypeOK
  <2>2. SearchType'
    BY <1>5 DEF PingWaitFailed, TypeOK, smVars, parVars, txVars, idVars,
                SearchType, SMType, TxType, ParentType
  <2>3. OtherType'
    BY <1>5, <2>1 DEF PingWaitFailed, TypeOK, smVars, parVars, txVars, idVars, OtherType
  <2>4. QED
    BY <2>2, <2>3, TypeHalves
<1>6. CASE PingWaitAnswered
  <2>1. stack' \in Seq(Frames) /\ fifoOpen' \in BOOLEAN
    BY <1>6, ReturnType DEF PingWaitAnswered, Waiting, TypeOK
  <2>2. uplinkCheckAge' \in 0 .. CheckInterval /\ distanceGW' \in 0 .. 255
    BY <1>6 DEF PingWaitAnswered, TypeOK
  <2>3. /\ UNCHANGED <<smVars, uplinkOk, transportActive, findingParentNode,
                       preferredParentFound, parentNodeId, pingResponse,
                       failureCounter, idVars, presentationSent, msgIsPong, faults>>
        /\ pingActive' = FALSE
    BY <1>6 DEF PingWaitAnswered
  <2>4. TxType'
    BY <1>6, UplinkSendType DEF PingWaitAnswered, Reply, TypeOK, TxType, txVars
  <2>5. QED
    <3>1. SearchType'
      BY <2>1, <2>2, <2>3, <2>4
      DEF TypeOK, smVars, idVars, SearchType, SMType, TxType, ParentType
    <3>2. OtherType'
      BY <2>1, <2>2, <2>3, <2>4
      DEF TypeOK, smVars, idVars, OtherType
    <3>3. QED
      BY <3>1, <3>2, TypeHalves
<1>7. CASE PresentationEnd
  <2>1. stack' \in Seq(Frames) /\ fifoOpen' \in BOOLEAN
    BY <1>7, ReturnType DEF PresentationEnd, Waiting, TypeOK
  <2>2. presentationSent' \in BOOLEAN /\ timeInState' \in 0 .. ExtFailureTimeout + 1
    <3>1. CASE Waiting("ready")
      BY <1>7, <3>1 DEF PresentationEnd
    <3>2. CASE ~ Waiting("ready")
      BY <1>7, <3>2 DEF PresentationEnd, TypeOK
    <3>3. QED
      BY <3>1, <3>2
  <2>3. QED
    BY <1>7, <2>1, <2>2
    DEF PresentationEnd, TypeOK, parVars, pingVars, txVars, idVars
<1>8. CASE SketchSend
  <2>1. TxType'
    BY <1>8, UplinkSendType DEF SketchSend
  <2>2. QED
    BY <1>8, <2>1
    DEF SketchSend, TypeOK, TxType, smVars, parVars, pingVars, idVars, callVars
<1>9. CASE Tick
  BY <1>9 DEF Tick, TypeOK, parVars, pingVars, txVars, idVars, callVars
<1>10. CASE Reset
  <2>1. faults' \in 0 .. MaxFaults
    BY <1>10 DEF Reset, Fault, TypeOK
  <2>2. /\ nodeId' \in 0 .. 255 /\ eepromNodeId' \in 0 .. 255
        /\ parentNodeId' \in 0 .. 255 /\ distanceGW' \in 0 .. 255
    BY <1>10 DEF Reset, TypeOK, DISTANCE_INVALID
  <2>3. stack' \in Seq(Frames)
    BY <1>10 DEF Reset
  <2>4. /\ failedUplinkTransmissions' \in 0 .. TxCounterSize - 1
        /\ failureCounter' \in 0 .. MY_TRANSPORT_MAX_TSM_FAILURES
        /\ uplinkCheckAge' \in 0 .. CheckInterval
        /\ currentState' \in States /\ stateRetries' \in 0 .. 7
        /\ timeInState' \in 0 .. ExtFailureTimeout + 1
        /\ pingResponse' \in 0 .. 255
    BY <1>10 DEF Reset, States
  <2>5. /\ uplinkOk' \in BOOLEAN /\ transportActive' \in BOOLEAN
        /\ findingParentNode' \in BOOLEAN /\ preferredParentFound' \in BOOLEAN
        /\ pingActive' \in BOOLEAN /\ presentationSent' \in BOOLEAN
        /\ fifoOpen' \in BOOLEAN /\ msgIsPong' \in BOOLEAN
    BY <1>10 DEF Reset
  <2>6. QED
    BY <2>1, <2>2, <2>3, <2>4, <2>5 DEF TypeOK
<1>11. CASE UNCHANGED vars
  BY <1>11
  DEF vars, TypeOK, smVars, parVars, pingVars, txVars, idVars, callVars
<1>12. QED
  BY <1>1, <1>2, <1>3, <1>4, <1>5, <1>6, <1>7, <1>8, <1>9, <1>10, <1>11 DEF Next, Step

\* Every variable of the node keeps within its range: the counters do not leave
\* their bit fields, the addresses are addresses, the call stack is well formed.
THEOREM TypeCorrect == Spec => []TypeOK
  BY InitType, StepType, PTL DEF Spec

-----------------------------------------------------------------------------
(* The inductive invariant *)

\* The flags follow the state, and the parent that a state was entered with,
\* stays while the machine is in it; a configured ID holds from stParent on.
StateInv ==
  /\ uplinkOk <=> currentState = "stReady"
  /\ transportActive <=> currentState \notin {"stInit", "stFailure"}
  /\ currentState \in {"stID", "stUplink", "stReady"} =>
       ~ findingParentNode /\ parentNodeId # AUTO
  /\ currentState \notin {"stInit", "stFailure"} /\ MY_NODE_ID # AUTO
       => nodeId = MY_NODE_ID
  /\ currentState = "stReady" /\ UplinkCheckEnabled => distanceGW # DISTANCE_INVALID

\* A ping under way has no response yet, and somebody will end it: the state
\* machine in stUplink, the restart after stFailure, or a waiting handler.
PingFrame == \E i \in 1 .. Len(stack) : stack[i].kind = "ping"
PingInv ==
  pingActive => /\ pingResponse = INVALID_HOPS
                /\ \/ currentState = "stUplink" /\ UplinkCheckEnabled
                   \/ currentState = "stFailure"
                   \/ PingFrame

IInv == TypeOK /\ StateInv /\ PingInv /\ IdSurvivesReset

\* The variables of StateInv.
stateVars == <<currentState, uplinkOk, transportActive, findingParentNode,
               parentNodeId, distanceGW, nodeId>>

\* The inductive invariant holds when the node starts.
LEMMA InitIInv == Init => IInv
<1> SUFFICES ASSUME Init PROVE IInv
  OBVIOUS
<1>1. TypeOK
  BY InitType
<1>2. StateInv
  BY DEF Init, StateInv
<1>3. PingInv
  BY DEF Init, PingInv
<1>4. IdSurvivesReset
  BY DEF Init, IdSurvivesReset
<1>5. QED
  BY <1>1, <1>2, <1>3, <1>4 DEF IInv

\* The states in which no search has begun, or which begin one.
LEMMA FailureStateInv ==
  ASSUME EnterFailure
  PROVE  StateInv'
  BY DEF EnterFailure, Enter, StateInv

\* stParentTransition establishes what holds of a node that searches a parent.
LEMMA ParentStateInv ==
  ASSUME EnterParent, transportActive', MY_NODE_ID # AUTO => nodeId' = MY_NODE_ID
  PROVE  StateInv'
  BY DEF EnterParent, Enter, StateInv

\* Every update of the state machine keeps the parent, the ID, the distance and
\* readiness consistent with the state it ends in.
LEMMA UpdateStateInv ==
  ASSUME TypeOK, StateInv, UpdateSM
  PROVE  StateInv'
<1>1. CASE StInitUpdate
  <2>1. \/ EnterFailure
        \/ transportActive' = TRUE /\ nodeId' = ConfiguredId /\ EnterParent
    BY <1>1 DEF StInitUpdate
  <2>2. QED
    BY <2>1, FailureStateInv, ParentStateInv DEF ConfiguredId
<1>2. CASE StParentFound
  BY <1>2 DEF StParentFound, EnterID, Enter, StateInv, idVars
<1>3. CASE StParentRetry
  <2>1. EnterParent /\ transportActive' /\ (MY_NODE_ID # AUTO => nodeId' = MY_NODE_ID)
    BY <1>3 DEF StParentRetry, StateInv, idVars
  <2>2. QED
    BY <2>1, ParentStateInv
<1>4. CASE StParentFail
  BY <1>4, FailureStateInv DEF StParentFail
<1>5. CASE StIDOk
  BY <1>5 DEF StIDOk, EnterUplink, Enter, StateInv, parVars, idVars
<1>6. CASE StIDRetry
  BY <1>6 DEF StIDRetry, EnterID, Enter, StateInv, parVars, idVars
<1>7. CASE StIDFail
  BY <1>7, FailureStateInv DEF StIDFail
<1>8. CASE StUplinkOk
  <2>1. /\ currentState = "stUplink" /\ EnterReady
        /\ UNCHANGED <<transportActive, findingParentNode, parentNodeId, nodeId>>
    BY <1>8 DEF StUplinkOk, idVars
  <2>2. UplinkCheckEnabled => distanceGW' # DISTANCE_INVALID
    BY <1>8 DEF StUplinkOk, INVALID_HOPS, DISTANCE_INVALID
  <2>3. currentState' = "stReady" /\ uplinkOk' = TRUE
    BY <2>1 DEF EnterReady, Enter
  <2>4. QED
    BY <2>1, <2>2, <2>3 DEF StateInv
<1>9. CASE StUplinkRetry
  BY <1>9 DEF StUplinkRetry, UplinkTimeout, EnterUplink, Enter, StateInv, parVars, idVars
<1>10. CASE StUplinkFail
  <2>1. EnterParent /\ transportActive' /\ (MY_NODE_ID # AUTO => nodeId' = MY_NODE_ID)
    BY <1>10 DEF StUplinkFail, UplinkTimeout, StateInv, idVars
  <2>2. QED
    BY <2>1, ParentStateInv
<1>11. CASE StReadyUpdate
  <2>1. CASE MY_PARENT_NODE_IS_STATIC
    BY <1>11, <2>1 DEF StReadyUpdate, StateInv, smVars, parVars, idVars
  <2>2. CASE ~ MY_PARENT_NODE_IS_STATIC
    <3>1. EnterParent /\ transportActive' /\ (MY_NODE_ID # AUTO => nodeId' = MY_NODE_ID)
      BY <1>11, <2>2 DEF StReadyUpdate, StateInv, idVars
    <3>2. QED
      BY <3>1, ParentStateInv
  <2>3. QED
    BY <2>1, <2>2
<1>12. CASE StFailureUpdate
  BY <1>12 DEF StFailureUpdate, EnterInit, Enter, StateInv
<1>13. QED
  BY <1>1, <1>2, <1>3, <1>4, <1>5, <1>6, <1>7, <1>8, <1>9, <1>10, <1>11, <1>12
  DEF UpdateSM

\* So does every message: a response is taken only while a parent is searched, and
\* an I_PONG changes no more than the ping.
LEMMA ReceiveStateInv ==
  ASSUME TypeOK, StateInv, PingInv, Receive
  PROVE  StateInv'
<1>1. CASE \E n \in Neighbours, d \in Distances : RecvFindParentResponse(n, d)
  <2>1. PICK n \in Neighbours, d \in Distances : RecvFindParentResponse(n, d)
    BY <1>1
  <2>2. /\ findingParentNode
        /\ UNCHANGED <<currentState, uplinkOk, transportActive, nodeId>>
    BY <2>1 DEF RecvFindParentResponse, smVars, idVars
  <2>3. QED
    BY <2>2 DEF StateInv
<1>2. CASE \E id \in Ids \cup {AUTO} : RecvIdResponse(id)
  <2>1. PICK id \in Ids \cup {AUTO} : RecvIdResponse(id)
    BY <1>2
  <2>2. /\ MY_NODE_ID = AUTO
        /\ UNCHANGED <<currentState, uplinkOk, transportActive, findingParentNode,
                       parentNodeId, distanceGW>>
    BY <2>1 DEF RecvIdResponse, smVars, parVars
  <2>3. QED
    BY <2>2 DEF StateInv
<1>3. CASE UNCHANGED stateVars
  BY <1>3 DEF StateInv, stateVars
<1>4. (\E h \in Hops : RecvPong(h)) => UNCHANGED stateVars
  BY DEF RecvPong, stateVars, smVars, parVars, idVars
<1>5. RecvAndReply => UNCHANGED stateVars
  BY DEF RecvAndReply, stateVars, smVars, parVars, idVars
<1>6. (\E n \in Neighbours : RecvFindParentRequestRecent(n)) => UNCHANGED stateVars
  BY DEF RecvFindParentRequestRecent, stateVars, smVars, parVars, idVars
<1>7. (\E n \in Neighbours : RecvFindParentRequestStale(n)) => UNCHANGED stateVars
  BY DEF RecvFindParentRequestStale, stateVars, smVars, parVars, idVars
<1>8. RecvPresentation => UNCHANGED stateVars
  BY DEF RecvPresentation, stateVars, smVars, parVars, idVars
<1>9. QED
  BY <1>1, <1>2, <1>3, <1>4, <1>5, <1>6, <1>7, <1>8 DEF Receive

\* So does every step of the program.
LEMMA StepStateInv ==
  ASSUME TypeOK, StateInv, PingInv, IdSurvivesReset, [Next]_vars
  PROVE  StateInv'
<1>1. CASE UpdateSM
  BY <1>1, UpdateStateInv
<1>2. CASE OpenFIFO
  <2>1. CASE EnterFailure
    BY <2>1, FailureStateInv
  <2>2. CASE ~ EnterFailure
    <3>1. UNCHANGED stateVars
      BY <1>2, <2>2 DEF OpenFIFO, stateVars, smVars, parVars, idVars
    <3>2. QED
      BY <3>1 DEF StateInv, stateVars
  <2>3. QED
    BY <2>1, <2>2
<1>3. CASE UNCHANGED stateVars
  BY <1>3 DEF StateInv, stateVars
<1>4. CASE Receive
  BY <1>4, ReceiveStateInv
<1>5. CASE PingWaitAnswered
  <2>1. /\ distanceGW' # DISTANCE_INVALID
        /\ UNCHANGED <<currentState, uplinkOk, transportActive, findingParentNode,
                       parentNodeId, nodeId>>
    BY <1>5 DEF PingWaitAnswered, INVALID_HOPS, DISTANCE_INVALID, smVars, idVars
  <2>2. QED
    BY <2>1 DEF StateInv
<1>6. CASE Reset
  BY <1>6 DEF Reset, StateInv
<1>7. CloseFIFO => UNCHANGED stateVars
  BY DEF CloseFIFO, stateVars, smVars, parVars, idVars
<1>8. PingWaitFailed => UNCHANGED stateVars
  BY DEF PingWaitFailed, stateVars, smVars, parVars, idVars
<1>9. PresentationEnd => UNCHANGED stateVars
  BY DEF PresentationEnd, stateVars, smVars, parVars, idVars
<1>10. SketchSend => UNCHANGED stateVars
  BY DEF SketchSend, stateVars, smVars, parVars, idVars
<1>11. Tick => UNCHANGED stateVars
  BY DEF Tick, stateVars, smVars, parVars, idVars
<1>12. UNCHANGED vars => UNCHANGED stateVars
  BY DEF vars, stateVars, smVars, parVars, idVars
<1>13. QED
  BY <1>1, <1>2, <1>3, <1>4, <1>5, <1>6, <1>7, <1>8, <1>9, <1>10, <1>11, <1>12
  DEF Next, Step

\* The ID in use and the ID in EEPROM change together.
LEMMA StepId ==
  ASSUME IdSurvivesReset, [Next]_vars
  PROVE  IdSurvivesReset'
<1>1. CASE UNCHANGED idVars
  BY <1>1 DEF IdSurvivesReset, idVars
<1>2. UpdateSM => IdSurvivesReset' \/ UNCHANGED idVars
  BY DEF UpdateSM, IdSurvivesReset, EnterInit, StInitUpdate, StParentFound,
     StParentRetry, StParentFail, StIDOk, StIDRetry, StIDFail, StUplinkOk,
     StUplinkRetry, StUplinkFail, StReadyUpdate, StFailureUpdate, idVars
<1>3. OpenFIFO \/ CloseFIFO => UNCHANGED idVars
  BY DEF OpenFIFO, CloseFIFO
<1>4. Receive => IdSurvivesReset' \/ UNCHANGED idVars
  BY DEF Receive, RecvFindParentResponse, RecvIdResponse, RecvPong, RecvAndReply,
     RecvFindParentRequestRecent, RecvFindParentRequestStale, RecvPresentation,
     IdSurvivesReset
<1>5. PingWaitFailed \/ PingWaitAnswered \/ PresentationEnd => UNCHANGED idVars
  BY DEF PingWaitFailed, PingWaitAnswered, PresentationEnd
<1>6. SketchSend \/ Tick \/ UNCHANGED vars => UNCHANGED idVars
  BY DEF SketchSend, Tick, vars
<1>7. Reset => IdSurvivesReset'
  BY DEF Reset, IdSurvivesReset
<1>8. QED
  BY <1>1, <1>2, <1>3, <1>4, <1>5, <1>6, <1>7 DEF Next, Step

\* A call and a return keep the pings that wait on the stack, but for the one
\* that returns.
LEMMA CallFrame ==
  ASSUME TypeOK, NEW kind \in {"ping", "ready", "present"}, NEW from \in 0 .. 255,
         Call(kind, from)
  PROVE  /\ PingFrame => PingFrame'
         /\ kind = "ping" => PingFrame'
<1> DEFINE f == [kind |-> kind, from |-> from, fifo |-> fifoOpen]
<1>1. stack \in Seq(Frames) /\ stack' = Append(stack, f)
  BY DEF Call, TypeOK
<1>2. f \in Frames
  BY DEF Frames, TypeOK
<1>3. /\ Len(stack') = Len(stack) + 1
      /\ \A i \in 1 .. Len(stack) : stack'[i] = stack[i]
      /\ stack'[Len(stack) + 1] = f
      /\ Len(stack) \in Nat
  BY <1>1, <1>2, AppendProperties
<1>4. PingFrame => PingFrame'
  BY <1>3 DEF PingFrame
<1>5. kind = "ping" => PingFrame'
  BY <1>3 DEF PingFrame
<1>6. QED
  BY <1>4, <1>5

\* Popping a handler leaves those below it where they are.
LEMMA ReturnFrame ==
  ASSUME TypeOK, stack # <<>>, ~ Waiting("ping"), Return
  PROVE  PingFrame => PingFrame'
<1>1. stack \in Seq(Frames) /\ Len(stack) \in Nat \ {0}
  BY DEF TypeOK
<1>2. stack[Len(stack)].kind # "ping"
  BY DEF Waiting
<1> DEFINE n == Len(stack) - 1
<1>3. n \in Int /\ 1 \in Int /\ \A i \in 1 .. n : stack[i] \in Frames
  BY <1>1
<1>4. /\ Len(SubSeq(stack, 1, n)) = IF 1 =< n THEN n - 1 + 1 ELSE 0
      /\ \A i \in 1 .. n - 1 + 1 : SubSeq(stack, 1, n)[i] = stack[1 + i - 1]
  <2> HIDE DEF n
  <2>1. QED
    BY <1>3, SubSeqProperties
<1>5. stack' = SubSeq(stack, 1, n)
  BY DEF Return
<1>6. Len(stack') = n /\ \A i \in 1 .. n : stack'[i] = stack[i]
  <2>1. n - 1 + 1 = n /\ \A i \in 1 .. n : 1 + i - 1 = i
    BY <1>1
  <2>2. QED
    BY <1>1, <1>4, <1>5, <2>1
<1>7. QED
  BY <1>1, <1>2, <1>6 DEF PingFrame

\* Entering stParent or stInit is safe once no ping of stUplink is under way.
LEMMA UpdatePingInv ==
  ASSUME TypeOK, PingInv, UpdateSM
  PROVE  PingInv'
<1>1. UNCHANGED stack => (PingFrame' <=> PingFrame)
  BY DEF PingFrame
<1>2. CASE StInitUpdate
  BY <1>1, <1>2
  DEF StInitUpdate, EnterParent, EnterFailure, Enter, PingInv, pingVars, callVars
<1>3. CASE StParentFound
  BY <1>1, <1>3 DEF StParentFound, EnterID, Enter, PingInv, pingVars, callVars
<1>4. CASE StParentRetry
  BY <1>1, <1>4 DEF StParentRetry, EnterParent, Enter, PingInv, pingVars, callVars
<1>5. CASE StParentFail
  BY <1>1, <1>5 DEF StParentFail, EnterFailure, Enter, PingInv, pingVars, callVars
<1>6. CASE StIDOk
  <2>1. CASE UplinkCheckEnabled
    BY <1>6, <2>1 DEF StIDOk, EnterUplink, Enter, PingInv
  <2>2. CASE ~ UplinkCheckEnabled
    BY <1>1, <1>6, <2>2 DEF StIDOk, EnterUplink, PingInv, pingVars, callVars
  <2>3. QED
    BY <2>1, <2>2
<1>7. CASE StIDRetry
  BY <1>1, <1>7 DEF StIDRetry, EnterID, Enter, PingInv, pingVars, callVars
<1>8. CASE StIDFail
  BY <1>1, <1>8 DEF StIDFail, EnterFailure, Enter, PingInv, pingVars, callVars
<1>9. CASE StUplinkOk
  <2>1. currentState = "stUplink" /\ UNCHANGED pingVars /\ EnterReady
    BY <1>9 DEF StUplinkOk
  <2>2. UplinkCheckEnabled => pingResponse # INVALID_HOPS
    BY <1>9 DEF StUplinkOk
  <2>3. PingFrame => PingFrame'
    <3>1. CASE presentationSent
      BY <1>1, <2>1, <3>1 DEF EnterReady, callVars
    <3>2. CASE ~ presentationSent
      BY <2>1, <3>2, CallFrame DEF EnterReady
    <3>3. QED
      BY <3>1, <3>2
  <2>4. QED
    BY <2>1, <2>2, <2>3 DEF PingInv, pingVars
<1>10. CASE StUplinkRetry
  BY <1>10 DEF StUplinkRetry, UplinkTimeout, EnterUplink, Enter, PingInv
<1>11. CASE StUplinkFail
  BY <1>11 DEF StUplinkFail, PingInv
<1>12. CASE StReadyUpdate
  BY <1>1, <1>12
  DEF StReadyUpdate, EnterParent, Enter, PingInv, smVars, pingVars, callVars
<1>13. CASE StFailureUpdate
  BY <1>13 DEF StFailureUpdate, EnterInit, PingInv
<1>14. QED
  BY <1>2, <1>3, <1>4, <1>5, <1>6, <1>7, <1>8, <1>9, <1>10, <1>11, <1>12, <1>13
  DEF UpdateSM

\* A message arms a ping only together with the handler that waits for it.
LEMMA ReceivePingInv ==
  ASSUME TypeOK, PingInv, Receive
  PROVE  PingInv'
<1> USE AddressAssumption
<1>1. CASE UNCHANGED <<currentState, pingVars, stack>>
  BY <1>1 DEF PingInv, PingFrame, pingVars
<1>2. CASE \E h \in Hops : RecvPong(h)
  <2>1. CASE pingActive
    BY <1>2, <2>1 DEF RecvPong, PingInv
  <2>2. CASE ~ pingActive
    BY <1>2, <2>2 DEF RecvPong, PingInv, pingVars
  <2>3. QED
    BY <2>1, <2>2
<1>3. CASE \E n \in Neighbours : RecvFindParentRequestStale(n)
  <2>1. PICK n \in Neighbours : RecvFindParentRequestStale(n)
    BY <1>3
  <2>2. CASE pingActive
    BY <1>1, <2>1, <2>2 DEF RecvFindParentRequestStale, smVars, callVars
  <2>3. CASE ~ pingActive
    <3>1. pingResponse' = INVALID_HOPS /\ Call("ping", n) /\ n \in 0 .. 255
      BY <2>1, <2>3 DEF RecvFindParentRequestStale
    <3>2. PingFrame'
      BY <3>1, CallFrame
    <3>3. QED
      BY <3>1, <3>2 DEF PingInv
  <2>4. QED
    BY <2>2, <2>3
<1>4. CASE RecvPresentation
  <2>1. PingFrame => PingFrame'
    BY <1>4, CallFrame DEF RecvPresentation
  <2>2. QED
    BY <1>4, <2>1 DEF RecvPresentation, PingInv, smVars, pingVars
<1>5. (\E n \in Neighbours, d \in Distances : RecvFindParentResponse(n, d))
        => UNCHANGED <<currentState, pingVars, stack>>
  BY DEF RecvFindParentResponse, smVars, callVars
<1>6. (\E id \in Ids \cup {AUTO} : RecvIdResponse(id)) => UNCHANGED <<currentState, pingVars, stack>>
  BY DEF RecvIdResponse, smVars, callVars
<1>7. RecvAndReply => UNCHANGED <<currentState, pingVars, stack>>
  BY DEF RecvAndReply, smVars, callVars
<1>8. (\E n \in Neighbours : RecvFindParentRequestRecent(n))
        => UNCHANGED <<currentState, pingVars, stack>>
  BY DEF RecvFindParentRequestRecent, smVars, callVars
<1>9. QED
  BY <1>1, <1>2, <1>3, <1>4, <1>5, <1>6, <1>7, <1>8 DEF Receive

\* No step leaves a ping active that nobody waits for.
LEMMA StepPingInv ==
  ASSUME TypeOK, PingInv, [Next]_vars
  PROVE  PingInv'
<1>1. CASE UpdateSM
  BY <1>1, UpdatePingInv
<1>2. CASE UNCHANGED <<currentState, pingVars, stack>>
  BY <1>2 DEF PingInv, PingFrame, pingVars
<1>3. CASE OpenFIFO
  <2>1. PingFrame' <=> PingFrame
    BY <1>3 DEF OpenFIFO, PingFrame
  <2>2. QED
    BY <1>3, <2>1 DEF OpenFIFO, EnterFailure, Enter, PingInv, smVars, pingVars
<1>4. CASE Receive
  BY <1>4, ReceivePingInv
<1>5. CASE PingWaitFailed
  BY <1>5 DEF PingWaitFailed, PingInv
<1>6. CASE PingWaitAnswered
  BY <1>6 DEF PingWaitAnswered, PingInv
<1>7. CASE PresentationEnd
  <2>1. stack # <<>> /\ ~ Waiting("ping") /\ Return
    BY <1>7 DEF PresentationEnd, Waiting
  <2>2. QED
    BY <1>7, <2>1, ReturnFrame DEF PresentationEnd, PingInv, pingVars
<1>8. CASE Reset
  BY <1>8 DEF Reset, PingInv
<1>9. CloseFIFO => UNCHANGED <<currentState, pingVars, stack>>
  BY DEF CloseFIFO, smVars
<1>10. SketchSend => UNCHANGED <<currentState, pingVars, stack>>
  BY DEF SketchSend, smVars, callVars
<1>11. Tick => UNCHANGED <<currentState, pingVars, stack>>
  BY DEF Tick, callVars
<1>12. UNCHANGED vars => UNCHANGED <<currentState, pingVars, stack>>
  BY DEF vars, smVars, pingVars, callVars
<1>13. QED
  BY <1>1, <1>2, <1>3, <1>4, <1>5, <1>6, <1>7, <1>8, <1>9, <1>10, <1>11, <1>12
  DEF Next, Step

\* Every step of the program preserves the inductive invariant.
LEMMA StepIInv == IInv /\ [Next]_vars => IInv'
  BY StepType, StepStateInv, StepPingInv, StepId DEF IInv

\* The inductive invariant holds of every reachable state.
THEOREM IInvHolds == Spec => []IInv
  BY InitIInv, StepIInv, PTL DEF Spec

-----------------------------------------------------------------------------
(* What the rest of the node relies on *)

\* isTransportReady() tells the truth, for every configuration of the node and
\* whatever messages, losses, faults and nested handlers it went through.
THEOREM ReadyIsConnected == Spec => []ReadyMeansConnected
<1>1. IInv => ReadyMeansConnected
  BY DEF IInv, StateInv, ReadyMeansConnected
<1>2. QED
  BY <1>1, IInvHolds, PTL

\* transportPingNode is never refused for good: a ping under way has somebody
\* who ends it.
THEOREM PingGateIsReopened == Spec => []PingGateReopens
<1>1. IInv => PingGateReopens
  BY DEF IInv, PingInv, PingFrame, PingGateReopens
<1>2. QED
  BY <1>1, IInvHolds, PTL

\* The node ID in use is the one in EEPROM whenever the power may fail.
THEOREM IdIsSaved == Spec => []IdSurvivesReset
<1>1. IInv => IdSurvivesReset
  BY DEF IInv
<1>2. QED
  BY <1>1, IInvHolds, PTL

-----------------------------------------------------------------------------
(* The node implements module Uplink *)

\* A node that has just started is disconnected, as the promise requires.
LEMMA InitUplink == Init => UL!Init
<1> SUFFICES ASSUME Init PROVE UL!Init
  OBVIOUS
<1>1. TypeOK
  BY InitType
<1>2. QED
  BY <1>1 DEF Init, TypeOK, UL!Init

\* A step of the search leaves the ID and what is saved of it so.
SearchesId ==
  \/ nodeId' \in {nodeId, eepromNodeId, AUTO} /\ UNCHANGED eepromNodeId
  \/ MY_NODE_ID # AUTO /\ eepromNodeId' = MY_NODE_ID /\ nodeId' \in {MY_NODE_ID, AUTO}

\* As long as a step leaves readiness off, it is a step of the search.
LEMMA SearchStep ==
  ASSUME IInv, IInv', ~ uplinkOk, ~ uplinkOk', SearchesId
  PROVE  UL!Search
  BY DEF IInv, TypeOK, SearchesId, UL!Search, UL!Dynamic

\* A step that ends readiness is the step Disconnect of module Uplink.
LEMMA LoseStep ==
  ASSUME IInv, IInv', uplinkOk, ~ uplinkOk',
         nodeId' \in {nodeId, eepromNodeId}, UNCHANGED eepromNodeId
  PROVE  UL!Disconnect
  BY DEF IInv, TypeOK, UL!Disconnect

\* An I_ID_RESPONSE is the step Assign of module Uplink, in whatever state the
\* node takes it.
LEMMA AssignStep ==
  ASSUME NEW id \in Ids \cup {AUTO}, RecvIdResponse(id)
  PROVE  UL!Assign
<1>1. /\ MY_NODE_ID = AUTO /\ nodeId' = id
      /\ eepromNodeId' = IF id = AUTO THEN eepromNodeId ELSE id
      /\ UNCHANGED <<uplinkOk, parentNodeId>>
  BY DEF RecvIdResponse, parVars
<1>2. id # AUTO => id \in 1 .. 254
  BY AddressAssumption
<1>3. QED
  BY <1>1, <1>2 DEF UL!Assign, UL!Dynamic

\* How a step may change the node ID.
LEMMA IdStep ==
  ASSUME IInv, [Next]_vars
  PROVE  \/ UL!Assign
         \/ ~ uplinkOk /\ SearchesId
         \/ nodeId' = eepromNodeId /\ UNCHANGED eepromNodeId /\ ~ uplinkOk'
         \/ UNCHANGED idVars
<1>1. CASE StInitUpdate
  <2>1. ~ uplinkOk
    BY <1>1 DEF StInitUpdate, IInv, StateInv
  <2>2. SearchesId
    BY <1>1 DEF StInitUpdate, ConfiguredId, SearchesId, IInv, IdSurvivesReset, idVars
  <2>3. QED
    BY <2>1, <2>2
<1>2. CASE StFailureUpdate
  <2>1. ~ uplinkOk /\ nodeId' = eepromNodeId /\ UNCHANGED eepromNodeId
    BY <1>2 DEF StFailureUpdate, EnterInit, IInv, StateInv
  <2>2. QED
    BY <2>1 DEF SearchesId
<1>3. CASE Reset
  BY <1>3 DEF Reset
<1>4. CASE Receive
  <2>1. (\E id \in Ids \cup {AUTO} : RecvIdResponse(id)) => UL!Assign
    BY AssignStep
  <2>2. QED
    BY <1>4, <2>1
    DEF Receive, RecvFindParentResponse, RecvPong, RecvAndReply,
        RecvFindParentRequestRecent, RecvFindParentRequestStale, RecvPresentation
<1>5. UpdateSM => StInitUpdate \/ StFailureUpdate \/ UNCHANGED idVars
  BY DEF UpdateSM, StParentFound, StParentRetry, StParentFail, StIDOk, StIDRetry,
     StIDFail, StUplinkOk, StUplinkRetry, StUplinkFail, StReadyUpdate
<1>6. QED
  BY <1>1, <1>2, <1>3, <1>4, <1>5
  DEF Next, Step, OpenFIFO, CloseFIFO, PingWaitFailed, PingWaitAnswered,
      PresentationEnd, SketchSend, Tick, vars

\* A node that becomes ready was in stUplink, and keeps the parent and the ID.
LEMMA ConnectStep ==
  ASSUME IInv, IInv', [Next]_vars, ~ uplinkOk, uplinkOk'
  PROVE  /\ UNCHANGED <<parentNodeId, nodeId, eepromNodeId>>
         /\ parentNodeId # AUTO
         /\ MY_NODE_ID # AUTO => nodeId = MY_NODE_ID
<1>1. currentState # "stReady" /\ currentState' = "stReady"
  BY DEF IInv, StateInv
<1>2. UpdateSM
  BY <1>1 DEF Next, Step, OpenFIFO, EnterFailure, Enter, CloseFIFO, Receive,
     RecvFindParentResponse, RecvIdResponse, RecvPong, RecvAndReply,
     RecvFindParentRequestRecent, RecvFindParentRequestStale, RecvPresentation,
     PingWaitFailed, PingWaitAnswered, PresentationEnd, SketchSend, Tick, Reset,
     vars, smVars
<1>3. StUplinkOk
  BY <1>1, <1>2
  DEF UpdateSM, StInitUpdate, StParentFound, StParentRetry, StParentFail, StIDOk,
      StIDRetry, StIDFail, StUplinkRetry, StUplinkFail, StReadyUpdate,
      StFailureUpdate, EnterInit, EnterParent, EnterID, EnterUplink,
      EnterFailure, Enter, smVars
<1>4. QED
  BY <1>3 DEF StUplinkOk, idVars, IInv, StateInv

\* A node that stays ready keeps its parent.
LEMMA ReadyStep ==
  ASSUME IInv, IInv', [Next]_vars, uplinkOk, uplinkOk'
  PROVE  parentNodeId' = parentNodeId
<1>1. currentState = "stReady" /\ currentState' = "stReady" /\ ~ findingParentNode
  BY DEF IInv, StateInv
<1>2. UpdateSM => UNCHANGED parVars
  BY <1>1 DEF UpdateSM, StInitUpdate, StParentFound, StParentRetry, StParentFail,
     StIDOk, StIDRetry, StIDFail, StUplinkOk, UplinkTimeout, StUplinkRetry,
     StUplinkFail, StReadyUpdate, StFailureUpdate, EnterParent, Enter
<1>3. Receive => UNCHANGED parVars
  BY <1>1 DEF Receive, RecvFindParentResponse, RecvIdResponse, RecvPong,
     RecvAndReply, RecvFindParentRequestRecent, RecvFindParentRequestStale,
     RecvPresentation
<1>4. ~ Reset
  BY <1>1 DEF Reset
<1>5. QED
  BY <1>2, <1>3, <1>4
  DEF Next, Step, OpenFIFO, CloseFIFO, PingWaitFailed, PingWaitAnswered,
      PresentationEnd, SketchSend, Tick, vars, parVars

\* Every step of the program is a step of module Uplink or none at all.
LEMMA StepUplink ==
  IInv /\ IInv' /\ [Next]_vars
    => [UL!Next]_<<uplinkOk, parentNodeId, nodeId, eepromNodeId>>
<1> SUFFICES ASSUME IInv, IInv', [Next]_vars
             PROVE  [UL!Next]_<<uplinkOk, parentNodeId, nodeId, eepromNodeId>>
  OBVIOUS
<1>1. CASE UL!Assign
  BY <1>1 DEF UL!Next
<1>2. CASE ~ uplinkOk /\ ~ uplinkOk'
  <2>1. UL!Assign \/ SearchesId
    BY <1>2, IdStep DEF SearchesId, idVars
  <2>2. QED
    BY <1>2, <2>1, SearchStep DEF UL!Next
<1>3. CASE ~ uplinkOk /\ uplinkOk'
  <2>1. UL!Connect
    BY <1>3, ConnectStep DEF UL!Connect, UL!Dynamic
  <2>2. QED
    BY <2>1 DEF UL!Next
<1>4. CASE uplinkOk /\ ~ uplinkOk'
  <2>1. UL!Assign \/ UL!Disconnect
    BY <1>4, IdStep, LoseStep DEF idVars
  <2>2. QED
    BY <2>1 DEF UL!Next
<1>5. CASE uplinkOk /\ uplinkOk'
  <2>1. UNCHANGED uplinkOk
    BY <1>5 DEF IInv, TypeOK
  <2>2. UL!Assign \/ UNCHANGED idVars
    BY <1>5, IdStep
  <2>3. QED
    BY <1>1, <1>5, <2>1, <2>2, ReadyStep DEF idVars
<1>6. QED
  BY <1>1, <1>2, <1>3, <1>4, <1>5

\* Whatever its radio and its neighbours do, the node keeps the promise of
\* module Uplink to the core and the sketch.
THEOREM Implementation == Spec => ImplementsUplink
  BY InitUplink, StepUplink, IInvHolds, PTL DEF Spec, ImplementsUplink, UL!Spec

-----------------------------------------------------------------------------
(* Giving up, and the static parent *)

\* A state is entered again only while its retries last.
RetriesInv == stateRetries =< MY_TRANSPORT_STATE_RETRIES

\* transportSwitchSM restarts the retries of a new state, and counts one more
\* for the same.
LEMMA EnterRetries ==
  ASSUME NEW newState, TypeOK, Enter(newState),
         currentState # newState \/ stateRetries < MY_TRANSPORT_STATE_RETRIES
  PROVE  RetriesInv'
  BY LimitAssumption DEF Enter, TypeOK, RetriesInv

\* No update of the state machine enters a state once more than its retries allow.
LEMMA UpdateRetries ==
  ASSUME IInv, RetriesInv, UpdateSM
  PROVE  RetriesInv'
<1> USE DEF IInv
<1>1. CASE StInitUpdate
  BY <1>1, EnterRetries DEF StInitUpdate, EnterFailure, EnterParent
<1>2. CASE StParentFound
  BY <1>2, EnterRetries DEF StParentFound, EnterID
<1>3. CASE StParentRetry
  BY <1>3, EnterRetries DEF StParentRetry, EnterParent
<1>4. CASE StParentFail
  BY <1>4, EnterRetries DEF StParentFail, EnterFailure
<1>5. CASE StIDOk
  BY <1>5, EnterRetries DEF StIDOk, EnterUplink
<1>6. CASE StIDRetry
  BY <1>6, EnterRetries DEF StIDRetry, EnterID
<1>7. CASE StIDFail
  BY <1>7, EnterRetries DEF StIDFail, EnterFailure
<1>8. CASE StUplinkOk
  BY <1>8, EnterRetries DEF StUplinkOk, EnterReady
<1>9. CASE StUplinkRetry
  BY <1>9, EnterRetries DEF StUplinkRetry, UplinkTimeout, EnterUplink
<1>10. CASE StUplinkFail
  BY <1>10, EnterRetries DEF StUplinkFail, UplinkTimeout, EnterParent
<1>11. CASE StReadyUpdate
  BY <1>11, EnterRetries DEF StReadyUpdate, EnterParent, smVars, RetriesInv
<1>12. CASE StFailureUpdate
  BY <1>12, EnterRetries DEF StFailureUpdate, EnterInit
<1>13. QED
  BY <1>1, <1>2, <1>3, <1>4, <1>5, <1>6, <1>7, <1>8, <1>9, <1>10, <1>11, <1>12
  DEF UpdateSM

\* The retries of a state are bounded in every step of the program.
LEMMA StepRetries == IInv /\ RetriesInv /\ [Next]_vars => RetriesInv'
<1> SUFFICES ASSUME IInv, RetriesInv, [Next]_vars PROVE RetriesInv'
  OBVIOUS
<1>1. CASE OpenFIFO
  <2>1. CASE UNCHANGED smVars
    BY <2>1 DEF smVars, RetriesInv
  <2>2. CASE EnterFailure
    BY <1>1, <2>2, EnterRetries DEF OpenFIFO, EnterFailure, IInv, StateInv
  <2>3. QED
    BY <1>1, <2>1, <2>2 DEF OpenFIFO, smVars
<1>2. Receive => stateRetries' = stateRetries
  BY DEF Receive, RecvFindParentResponse, RecvIdResponse, RecvPong, RecvAndReply,
     RecvFindParentRequestRecent, RecvFindParentRequestStale, RecvPresentation,
     smVars
<1>3. Reset => RetriesInv'
  BY LimitAssumption DEF Reset, RetriesInv
<1>4. QED
  BY <1>1, <1>2, <1>3, UpdateRetries
  DEF Next, Step, CloseFIFO, PingWaitFailed, PingWaitAnswered, PresentationEnd,
      SketchSend, Tick, vars, smVars, RetriesInv

\* The time of a state grows with its requests: every request but the last had
\* its time in full.  A handler that sets the time of the state anew only makes
\* the node wait longer.
AgeInv ==
  /\ RetriesInv
  /\ stateAge \in 0 .. Patience
  /\ currentState \in Requesting =>
       \/ stateAge = Patience
       \/ stateAge >= stateRetries * (StateTimeout + 1) + timeInState

MCInv == IInv /\ AgeInv

\* Patience is a number of ticks.
LEMMA PatienceType ==
  /\ Patience \in Nat
  /\ \A r \in Nat : /\ r * (StateTimeout + 1) \in Nat
                    /\ (r + 1) * (StateTimeout + 1)
                         = r * (StateTimeout + 1) + StateTimeout + 1
  BY LimitAssumption DEF Patience

\* A state is left by a step, entered again by its retry, or kept.
LEMMA StepAge ==
  ASSUME MCInv, IInv', Step, RetriesInv',
         stateAge' = IF currentState' = currentState THEN stateAge ELSE 0
  PROVE  AgeInv'
<1> USE DEF MCInv, AgeInv
<1>1. stateAge' \in 0 .. Patience
  BY PatienceType
<1>2. CASE currentState' # currentState
  <2>1. currentState' \in Requesting => stateRetries' = 0 /\ timeInState' = 0
    BY <1>2
    DEF Requesting, Step, UpdateSM, StInitUpdate, StParentFound, StParentRetry,
        StParentFail, StIDOk, StIDRetry, StIDFail, StUplinkOk, UplinkTimeout,
        StUplinkRetry, StUplinkFail, StReadyUpdate, StFailureUpdate, EnterInit,
        EnterParent, EnterID, EnterUplink, EnterReady, EnterFailure, Enter,
        OpenFIFO, CloseFIFO, Receive, RecvFindParentResponse, RecvIdResponse,
        RecvPong, RecvAndReply, RecvFindParentRequestRecent,
        RecvFindParentRequestStale, RecvPresentation, PingWaitFailed,
        PingWaitAnswered, PresentationEnd, SketchSend, Reset, smVars
  <2>2. 0 * (StateTimeout + 1) + 0 = 0
    BY LimitAssumption
  <2>3. QED
    BY <1>1, <1>2, <2>1, <2>2
<1>3. CASE currentState' = currentState /\ currentState \in Requesting
  <2>1. \/ stateRetries' = stateRetries /\ timeInState' = timeInState
        \/ stateRetries' = stateRetries /\ timeInState' = 0
        \/ /\ timeInState > StateTimeout
           /\ stateRetries' = (stateRetries + 1) % 8
           /\ stateRetries < MY_TRANSPORT_STATE_RETRIES
           /\ timeInState' = 0
    BY <1>3
    DEF Requesting, Step, UpdateSM, StInitUpdate, StParentFound, StParentRetry,
        StParentFail, StIDOk, StIDRetry, StIDFail, StUplinkOk, UplinkTimeout,
        StUplinkRetry, StUplinkFail, StReadyUpdate, StFailureUpdate, EnterInit,
        EnterParent, EnterID, EnterUplink, EnterReady, EnterFailure, Enter,
        OpenFIFO, CloseFIFO, Receive, RecvFindParentResponse, RecvIdResponse,
        RecvPong, RecvAndReply, RecvFindParentRequestRecent,
        RecvFindParentRequestStale, RecvPresentation, PingWaitFailed,
        PingWaitAnswered, PresentationEnd, SketchSend, Reset, smVars
  <2>2. stateRetries \in 0 .. 7 /\ timeInState \in Nat
    BY LimitAssumption DEF IInv, TypeOK
  <2>3. stateRetries < MY_TRANSPORT_STATE_RETRIES
          => (stateRetries + 1) % 8 = stateRetries + 1
    BY <2>2, LimitAssumption
  <2>4. CASE stateAge = Patience
    BY <1>1, <1>3, <2>4
  <2>5. CASE stateAge >= stateRetries * (StateTimeout + 1) + timeInState
    <3> DEFINE t == stateRetries * (StateTimeout + 1)
               u == (stateRetries + 1) * (StateTimeout + 1)
    <3>1. t \in Nat /\ u = t + StateTimeout + 1 /\ stateAge \in Nat
      BY <2>2, PatienceType
    <3>2. stateAge >= t /\ (timeInState > StateTimeout => stateAge >= u)
      BY <2>2, <2>5, <3>1, LimitAssumption
    <3>3. stateRetries' = stateRetries
            => stateRetries' * (StateTimeout + 1) = t
      BY LimitAssumption
    <3>4. stateRetries' = stateRetries + 1
            => stateRetries' * (StateTimeout + 1) = u
      BY LimitAssumption
    <3>5. \/ stateRetries' * (StateTimeout + 1) = t /\ timeInState' = timeInState
          \/ stateRetries' * (StateTimeout + 1) = t /\ timeInState' = 0
          \/ /\ stateRetries' * (StateTimeout + 1) = u /\ timeInState' = 0
             /\ stateAge >= u
      BY <2>1, <2>3, <3>2, <3>3, <3>4
    <3>6. StateTimeout' = StateTimeout /\ stateAge' = stateAge
      BY <1>3
    <3> HIDE DEF t, u
    <3>7. stateAge >= t + timeInState
      BY <2>5 DEF t
    <3>8. stateAge' >= stateRetries' * (StateTimeout + 1) + timeInState'
      BY <3>1, <3>2, <3>5, <3>6, <3>7
    <3>9. QED
      BY <1>1, <3>8
  <2>6. QED
    BY <1>3, <2>4, <2>5
<1>4. CASE currentState' = currentState /\ currentState \notin Requesting
  BY <1>1, <1>4
<1>5. QED
  BY <1>2, <1>3, <1>4

\* A tick makes both the state and its current request older.
LEMMA TickAge ==
  ASSUME MCInv, Tick, RetriesInv',
         stateAge' = IF currentState \in Requesting /\ stateAge < Patience
                     THEN stateAge + 1 ELSE stateAge
  PROVE  AgeInv'
<1> USE DEF MCInv, AgeInv
<1>1. stateAge' \in 0 .. Patience
  BY PatienceType
<1>2. /\ currentState' = currentState /\ stateRetries' = stateRetries
      /\ timeInState' =< timeInState + 1
      /\ timeInState \in Nat /\ timeInState' \in Nat /\ stateRetries \in Nat
  BY LimitAssumption DEF Tick, IInv, TypeOK
<1> DEFINE t == stateRetries * (StateTimeout + 1)
<1>3. t \in Nat /\ stateRetries' * (StateTimeout + 1) = t /\ Patience \in Nat
  BY <1>2, PatienceType
<1>4. CASE currentState \in Requesting
  <2>1. stateAge = Patience \/ stateAge >= t + timeInState
    BY <1>4
  <2> HIDE DEF t
  <2>2. stateAge' = Patience \/ stateAge' >= t + timeInState'
    <3>1. stateAge \in 0 .. Patience
      OBVIOUS
    <3>2. stateAge' = IF stateAge < Patience THEN stateAge + 1 ELSE stateAge
      BY <1>4
    <3>3. t \in Nat /\ Patience \in Nat
      BY <1>3
    <3>4. timeInState \in Nat /\ timeInState' \in Nat /\ timeInState' =< timeInState + 1
      BY <1>2
    <3>5. CASE stateAge = Patience
      BY <3>2, <3>3, <3>5
    <3>6. CASE stateAge < Patience /\ stateAge >= t + timeInState
      <4>1. stateAge' = stateAge + 1
        BY <3>2, <3>6
      <4>2. stateAge \in Nat
        BY <3>1, <3>3
      <4>3. \A a, b, x, y \in Nat : a >= b + x /\ y =< x + 1 => a + 1 >= b + y
        OBVIOUS
      <4>4. stateAge + 1 >= t + timeInState'
        BY ONLY <3>3, <3>4, <3>6, <4>2, <4>3
      <4>5. QED
        BY ONLY <4>1, <4>4
    <3>7. QED
      BY <2>1, <3>1, <3>3, <3>5, <3>6
  <2>3. QED
    BY <1>1, <1>3, <2>2
<1>5. CASE currentState \notin Requesting
  BY <1>1, <1>2, <1>5
<1>6. QED
  BY <1>4, <1>5

\* The inductive invariant with the history variable.
THEOREM MCInvHolds == MCSpec => []MCInv
<1>1. MCInit => MCInv
  <2> SUFFICES ASSUME MCInit PROVE MCInv
    OBVIOUS
  <2>1. IInv /\ RetriesInv
    BY InitIInv, LimitAssumption DEF MCInit, Init, RetriesInv
  <2>2. currentState \notin Requesting /\ stateAge \in 0 .. Patience
    BY PatienceType DEF MCInit, Init, Requesting
  <2>3. QED
    BY <2>1, <2>2 DEF MCInv, AgeInv
<1>2. MCInv /\ [MCNext]_mcVars => MCInv'
  <2> SUFFICES ASSUME MCInv, [MCNext]_mcVars PROVE MCInv'
    OBVIOUS
  <2>1. IInv /\ RetriesInv /\ [Next]_vars
    BY DEF MCInv, AgeInv, MCNext, Next, mcVars
  <2>2. IInv' /\ RetriesInv'
    BY <2>1, StepIInv, StepRetries
  <2>3. CASE UNCHANGED mcVars
    BY <2>2, <2>3 DEF MCInv, AgeInv, mcVars, vars, smVars
  <2>4. QED
    BY <2>2, <2>3, StepAge, TickAge DEF MCNext, MCInv
<1>3. QED
  BY <1>1, <1>2, PTL DEF MCSpec

\* A step that gives up is a radio fault, or the last retry had its time.
LEMMA StepGivesUp ==
  ASSUME MCInv, [MCNext]_mcVars, GivesUp
  PROVE  faults' > faults \/ stateAge = Patience
<1>0. Fault => faults' > faults
  BY DEF MCInv, IInv, TypeOK, Fault
<1>1. [Next]_vars
  BY DEF MCNext, Next, mcVars
<1>2. \/ Fault
      \/ timeInState > StateTimeout /\ stateRetries >= MY_TRANSPORT_STATE_RETRIES
  BY <1>1
  DEF GivesUp, Next, Step, UpdateSM, StInitUpdate, StParentFound, StParentRetry,
      StParentFail, StIDOk, StIDRetry, StIDFail, StUplinkOk, UplinkTimeout,
      StUplinkRetry, StUplinkFail, StReadyUpdate, StFailureUpdate, EnterInit,
      EnterParent, EnterID, EnterUplink, EnterReady, EnterFailure, Enter,
      OpenFIFO, CloseFIFO, Receive, RecvFindParentResponse, RecvIdResponse,
      RecvPong, RecvAndReply, RecvFindParentRequestRecent,
      RecvFindParentRequestStale, RecvPresentation, PingWaitFailed,
      PingWaitAnswered, PresentationEnd, SketchSend, Reset, Tick, vars, smVars
<1>3. CASE timeInState > StateTimeout /\ stateRetries >= MY_TRANSPORT_STATE_RETRIES
  <2>1. stateRetries = MY_TRANSPORT_STATE_RETRIES /\ timeInState \in Nat
    BY <1>3, LimitAssumption DEF MCInv, AgeInv, RetriesInv, IInv, TypeOK
  <2>2. Patience = stateRetries * (StateTimeout + 1) + StateTimeout + 1
    BY <2>1, PatienceType, LimitAssumption DEF Patience
  <2>3. stateRetries * (StateTimeout + 1) \in Nat
    BY <2>1, PatienceType, LimitAssumption
  <2>4. \/ stateAge = Patience
        \/ stateAge >= stateRetries * (StateTimeout + 1) + timeInState
    BY DEF GivesUp, MCInv, AgeInv, Requesting
  <2> DEFINE t == stateRetries * (StateTimeout + 1)
  <2>5. /\ t \in Nat /\ Patience = t + StateTimeout + 1
        /\ stateAge = Patience \/ stateAge >= t + timeInState
    BY <2>2, <2>3, <2>4
  <2>6. stateAge \in 0 .. Patience
    BY DEF MCInv, AgeInv
  <2> HIDE DEF t
  <2>7. QED
    BY <1>3, <2>1, <2>5, <2>6, LimitAssumption
<1>4. QED
  BY <1>0, <1>2, <1>3

\* For every number of retries, every timeout, and whatever handlers wait in
\* between: a node gives up a search, an ID request or an uplink check after a
\* fault of its radio, or when 1 + RETRIES requests each had their time.
THEOREM GivesUpLate == MCSpec => GivesUpAfterAllRetries
<1>1. MCInv /\ [MCNext]_mcVars
        => [GivesUp => faults' > faults \/ stateAge = Patience]_mcVars
  BY StepGivesUp
<1>2. QED
  BY <1>1, MCInvHolds, PTL DEF MCSpec, GivesUpAfterAllRetries

\* No step of a node with a static parent replaces that parent.
LEMMA StepStatic == StaticParentKept /\ [Next]_vars => StaticParentKept'
<1> SUFFICES ASSUME StaticParentKept, [Next]_vars, MY_PARENT_NODE_IS_STATIC
             PROVE  parentNodeId' = MY_PARENT_NODE_ID /\ ~ findingParentNode'
  BY DEF StaticParentKept
<1>1. parentNodeId = MY_PARENT_NODE_ID /\ ~ findingParentNode
  BY DEF StaticParentKept
<1>2. EnterParent => parentNodeId' = MY_PARENT_NODE_ID /\ ~ findingParentNode'
  BY DEF EnterParent
<1>3. CASE UpdateSM
  BY <1>1, <1>2, <1>3
  DEF UpdateSM, StInitUpdate, StParentFound, StParentRetry, StParentFail, StIDOk,
      StIDRetry, StIDFail, StUplinkOk, StUplinkRetry, StUplinkFail, StReadyUpdate,
      StFailureUpdate, EnterInit, parVars
<1>4. CASE Receive
  BY <1>1, <1>4
  DEF Receive, RecvFindParentResponse, RecvIdResponse, RecvPong, RecvAndReply,
      RecvFindParentRequestRecent, RecvFindParentRequestStale, RecvPresentation,
      parVars
<1>5. QED
  BY <1>1, <1>3, <1>4
  DEF Next, Step, OpenFIFO, CloseFIFO, PingWaitFailed, PingWaitAnswered,
      PresentationEnd, SketchSend, Tick, Reset, vars, parVars

\* A configured static parent is never replaced, in any configuration.
THEOREM StaticParentIsKept == Spec => []StaticParentKept
<1>1. Init => StaticParentKept
  BY DEF Init, StaticParentKept
<1>2. QED
  BY <1>1, StepStatic, PTL DEF Spec
=============================================================================
