---------------------------- MODULE TransportSM ----------------------------
(***************************************************************************)
(* The transport state machine of one sensor or repeater node (not the     *)
(* gateway): MyTransport.cpp, driven by the main loop through              *)
(* transportProcess() and by the messages its radio hands it.              *)
(*                                                                         *)
(* The code is sequential but re-entrant: a handler may wait for an answer *)
(* (transportPingNode, presentNode), and while it waits the FIFO - and, in *)
(* presentNode, the state machine itself - keeps running.  The variable    *)
(* stack holds the handlers that are waiting, innermost last.              *)
(*                                                                         *)
(* The rest of the network is an arbitrary environment: any message may    *)
(* arrive at any time, and any transmission may succeed or fail.           *)
(***************************************************************************)
EXTENDS Integers, Sequences

CONSTANTS
  Neighbours,                   \* nodes in radio range that may become parent
  Ids,                          \* node IDs the controller hands out
  InitialIds,                   \* what EEPROM may hold before the first start
  Hops,                         \* hop counts carried by I_PONG messages
  Distances,                    \* distances carried by I_FIND_PARENT_RESPONSE
  MY_NODE_ID,                   \* AUTO, or the static ID of this node
  MY_PARENT_NODE_ID,            \* AUTO, or the preferred (or static) parent
  MY_PARENT_NODE_IS_STATIC,
  MY_REPEATER_FEATURE,
  UplinkCheckEnabled,           \* ~ MY_TRANSPORT_UPLINK_CHECK_DISABLED
  MY_TRANSPORT_MAX_TX_FAILURES,
  MY_TRANSPORT_MAX_TSM_FAILURES,
  MY_TRANSPORT_STATE_RETRIES,
  TxCounterSize,                \* 2^4: failedUplinkTransmissions is 4 bits wide
  StateTimeout,                 \* MY_TRANSPORT_STATE_TIMEOUT_MS, in ticks
  FailureTimeout,               \* MY_TRANSPORT_TIMEOUT_FAILURE_STATE
  ExtFailureTimeout,            \* MY_TRANSPORT_TIMEOUT_EXT_FAILURE_STATE
  CheckInterval,                \* MY_TRANSPORT_CHKUPL_INTERVAL_MS
  MaxDepth,                     \* bound: handlers waiting at the same time
  MaxFaults                     \* bound: resets and radio failures

GATEWAY_ADDRESS  == 0
AUTO             == 255
DISTANCE_INVALID == 255
INVALID_HOPS     == 255
MAX_HOPS         == 254

ASSUME AddressAssumption ==
  /\ Neighbours \subseteq 0 .. 254
  /\ Ids \subseteq 1 .. 254
  /\ InitialIds \subseteq 0 .. 255
  /\ Hops \subseteq 1 .. MAX_HOPS
  /\ Distances \subseteq 0 .. 255

ASSUME ConfigAssumption ==
  /\ MY_NODE_ID \in 0 .. 255
  /\ MY_PARENT_NODE_ID \in 0 .. 255
  /\ MY_PARENT_NODE_IS_STATIC \in BOOLEAN
  /\ MY_PARENT_NODE_IS_STATIC => MY_PARENT_NODE_ID # AUTO
  /\ MY_REPEATER_FEATURE \in BOOLEAN
  /\ UplinkCheckEnabled \in BOOLEAN

ASSUME LimitAssumption ==
  /\ MY_TRANSPORT_MAX_TX_FAILURES \in Nat
  /\ MY_TRANSPORT_MAX_TSM_FAILURES \in 0 .. 7
  /\ MY_TRANSPORT_STATE_RETRIES \in 0 .. 7
  /\ TxCounterSize \in Nat \ {0}
  /\ StateTimeout \in Nat
  /\ FailureTimeout \in Nat
  /\ ExtFailureTimeout \in Nat
  /\ FailureTimeout =< ExtFailureTimeout
  /\ StateTimeout =< ExtFailureTimeout
  /\ CheckInterval \in Nat
  /\ MaxDepth \in Nat
  /\ MaxFaults \in Nat

VARIABLES
  currentState, stateRetries, timeInState,      \* the state machine proper
  uplinkOk, transportActive, findingParentNode, preferredParentFound,
  pingActive, pingResponse,
  failedUplinkTransmissions, failureCounter,
  uplinkCheckAge,               \* now - lastUplinkCheck, capped
  nodeId, parentNodeId, distanceGW,             \* _transportConfig
  eepromNodeId,                 \* the node ID in EEPROM
  presentationSent,             \* _coreConfig.presentationSent
  stack,                        \* the handlers that are waiting
  fifoOpen,                     \* inside the message loop of transportProcessFIFO
  msgIsPong,                    \* _msg holds an I_PONG
  faults                        \* bound: resets and radio failures so far

smVars   == <<currentState, stateRetries, timeInState>>
pingVars == <<pingActive, pingResponse>>
parVars  == <<findingParentNode, preferredParentFound, parentNodeId, distanceGW>>
idVars   == <<nodeId, eepromNodeId>>
txVars   == failedUplinkTransmissions
callVars == <<stack, fifoOpen>>
vars == <<smVars, uplinkOk, transportActive, parVars, pingVars, txVars,
          failureCounter, uplinkCheckAge, idVars, presentationSent, callVars,
          msgIsPong, faults>>

States == {"stInit", "stParent", "stID", "stUplink", "stReady", "stFailure"}

\* A waiting handler: a ping of the gateway on behalf of a parent request of
\* node from, presentNode() called by the ready callback, or presentNode()
\* called by an I_PRESENTATION request; fifo tells whether the handler runs
\* inside the FIFO loop.
Frames == [kind : {"ping", "ready", "present"}, from : 0 .. 255, fifo : BOOLEAN]

TypeOK ==
  /\ currentState \in States
  /\ stateRetries \in 0 .. 7
  /\ timeInState \in 0 .. ExtFailureTimeout + 1
  /\ uplinkOk \in BOOLEAN
  /\ transportActive \in BOOLEAN
  /\ findingParentNode \in BOOLEAN
  /\ preferredParentFound \in BOOLEAN
  /\ pingActive \in BOOLEAN
  /\ pingResponse \in 0 .. 255
  /\ failedUplinkTransmissions \in 0 .. TxCounterSize - 1
  /\ failureCounter \in 0 .. MY_TRANSPORT_MAX_TSM_FAILURES
  /\ uplinkCheckAge \in 0 .. CheckInterval
  /\ nodeId \in 0 .. 255
  /\ parentNodeId \in 0 .. 255
  /\ distanceGW \in 0 .. 255
  /\ eepromNodeId \in 0 .. 255
  /\ presentationSent \in BOOLEAN
  /\ stack \in Seq(Frames)
  /\ fifoOpen \in BOOLEAN
  /\ msgIsPong \in BOOLEAN
  /\ faults \in 0 .. MaxFaults

-----------------------------------------------------------------------------
(* The call stack *)

Waiting(kind) == stack # <<>> /\ stack[Len(stack)].kind = kind

\* The code that called into the transport runs: the sketch's loop(), or a
\* presentation, both of which call transportProcess() as well.
InProcess == ~ fifoOpen /\ ~ Waiting("ping")

Call(kind, from) ==
  /\ Len(stack) < MaxDepth
  /\ stack' = Append(stack, [kind |-> kind, from |-> from, fifo |-> fifoOpen])
  /\ fifoOpen' = FALSE

Return ==
  /\ stack' = SubSeq(stack, 1, Len(stack) - 1)
  /\ fifoOpen' = stack[Len(stack)].fifo

(* Transmissions *)

\* transportRouteMessage over the parent: the counter of failures in a row.
UplinkSend ==
  \/ failedUplinkTransmissions' = 0
  \/ failedUplinkTransmissions' = (failedUplinkTransmissions + 1) % TxCounterSize

\* A message to the node that sent the current one.  A repeater may know a
\* route to it that avoids the parent; while a parent is searched nothing
\* but broadcasts is sent.
Reply ==
  IF findingParentNode THEN UNCHANGED txVars
  ELSE \/ UplinkSend
       \/ MY_REPEATER_FEATURE /\ UNCHANGED txVars

(* transportSwitchSM and the transitions it runs *)

\* Mutation: a state that is entered again counts twice.
EnterTwice(newState) ==
  /\ currentState' = newState
  /\ stateRetries' = IF currentState = newState THEN (stateRetries + 2) % 8 ELSE 0
  /\ timeInState' = 0

Enter(newState) ==
  /\ currentState' = newState
  /\ stateRetries' = IF currentState = newState THEN (stateRetries + 1) % 8 ELSE 0
  /\ timeInState' = 0

EnterParent ==
  /\ Enter("stParent")
  /\ uplinkOk' = FALSE
  /\ preferredParentFound' = FALSE
  /\ IF MY_PARENT_NODE_IS_STATIC
     THEN /\ findingParentNode' = FALSE
          /\ distanceGW' = 1
          /\ parentNodeId' = MY_PARENT_NODE_ID
          /\ UNCHANGED txVars
     ELSE \* the broadcast always counts as sent, and its route equals the
          \* invalidated parent: the failure counter restarts
          /\ findingParentNode' = TRUE
          /\ distanceGW' = DISTANCE_INVALID
          /\ parentNodeId' = AUTO
          /\ failedUplinkTransmissions' = 0

EnterID ==
  /\ Enter("stID")
  /\ IF nodeId = AUTO THEN UplinkSend ELSE UNCHANGED txVars

EnterUplink ==
  /\ Enter("stUplink")
  /\ IF UplinkCheckEnabled
     THEN /\ pingResponse' = INVALID_HOPS
          /\ pingActive' = TRUE
          /\ UplinkSend
     ELSE UNCHANGED <<pingVars, txVars>>

\* The ready callback presents the node once; it waits inside the transition.
EnterReady ==
  /\ Enter("stReady")
  /\ uplinkOk' = TRUE
  /\ failureCounter' = 0
  /\ failedUplinkTransmissions' = 0
  /\ IF presentationSent THEN UNCHANGED callVars ELSE Call("ready", 0)

EnterFailure ==
  /\ Enter("stFailure")
  /\ failureCounter' = IF failureCounter < MY_TRANSPORT_MAX_TSM_FAILURES
                       THEN failureCounter + 1 ELSE failureCounter
  /\ uplinkOk' = FALSE
  /\ transportActive' = FALSE

EnterInit ==
  /\ Enter("stInit")
  /\ pingActive' = FALSE
  /\ transportActive' = FALSE
  /\ uplinkCheckAge' = CheckInterval
  /\ nodeId' = eepromNodeId
  /\ parentNodeId' = MY_PARENT_NODE_ID
  /\ distanceGW' = DISTANCE_INVALID

-----------------------------------------------------------------------------
(* Reset: _begin() up to transportInitialise() *)

Init ==
  /\ currentState = "stInit" /\ stateRetries = 0 /\ timeInState = 0
  /\ uplinkOk = FALSE /\ transportActive = FALSE
  /\ findingParentNode = FALSE /\ preferredParentFound = FALSE
  /\ pingActive = FALSE /\ pingResponse = 0
  /\ failedUplinkTransmissions = 0 /\ failureCounter = 0
  /\ uplinkCheckAge = 0
  /\ eepromNodeId \in InitialIds /\ nodeId = eepromNodeId
  /\ parentNodeId = MY_PARENT_NODE_ID /\ distanceGW = DISTANCE_INVALID
  /\ presentationSent = FALSE
  /\ stack = <<>> /\ fifoOpen = FALSE /\ msgIsPong = FALSE
  /\ faults = 0

Fault == faults < MaxFaults /\ faults' = faults + 1

\* Power loss, watchdog or I_REBOOT: RAM is lost, EEPROM is not.
Reset ==
  /\ Fault
  /\ currentState' = "stInit" /\ stateRetries' = 0 /\ timeInState' = 0
  /\ uplinkOk' = FALSE /\ transportActive' = FALSE
  /\ findingParentNode' = FALSE /\ preferredParentFound' = FALSE
  /\ pingActive' = FALSE /\ pingResponse' = 0
  /\ failedUplinkTransmissions' = 0 /\ failureCounter' = 0
  /\ uplinkCheckAge' = 0
  /\ nodeId' = eepromNodeId /\ UNCHANGED eepromNodeId
  /\ parentNodeId' = MY_PARENT_NODE_ID /\ distanceGW' = DISTANCE_INVALID
  /\ presentationSent' = FALSE
  /\ stack' = <<>> /\ fifoOpen' = FALSE /\ msgIsPong' = FALSE

-----------------------------------------------------------------------------
(* transportUpdateSM: the Update functions of the states *)

ConfiguredId == IF MY_NODE_ID # AUTO THEN MY_NODE_ID ELSE nodeId

StInitUpdate ==
  /\ InProcess /\ currentState = "stInit"
  /\ \/ /\ Fault                                     \* transportInit() failed
        /\ EnterFailure
        /\ UNCHANGED <<parVars, txVars, idVars>>
     \/ /\ ConfiguredId # GATEWAY_ADDRESS
        /\ transportActive' = TRUE
        /\ nodeId' = ConfiguredId
        /\ eepromNodeId' = IF ConfiguredId = AUTO THEN eepromNodeId ELSE ConfiguredId
        /\ EnterParent
        /\ UNCHANGED <<failureCounter, faults>>
     \/ /\ ConfiguredId = GATEWAY_ADDRESS           \* not an ID of a node
        /\ nodeId' = AUTO
        /\ eepromNodeId' = IF MY_NODE_ID = AUTO THEN eepromNodeId ELSE MY_NODE_ID
        /\ EnterFailure
        /\ UNCHANGED <<parVars, txVars, faults>>
  /\ UNCHANGED <<pingVars, uplinkCheckAge, presentationSent, callVars, msgIsPong>>

\* Mutation: the search is not closed when a parent was found.
StParentFoundSearching ==
  /\ InProcess /\ currentState = "stParent"
  /\ MY_PARENT_NODE_IS_STATIC \/ timeInState > StateTimeout \/ preferredParentFound
  /\ parentNodeId # AUTO
  /\ EnterID
  /\ UNCHANGED <<uplinkOk, transportActive, parVars, pingVars, failureCounter,
                 uplinkCheckAge, idVars, presentationSent, callVars, msgIsPong,
                 faults>>

\* A parent was found and the search is over.
StParentFound ==
  /\ InProcess /\ currentState = "stParent"
  /\ \/ MY_PARENT_NODE_IS_STATIC
     \/ timeInState > StateTimeout \/ preferredParentFound
  /\ parentNodeId # AUTO
  /\ findingParentNode' = FALSE
  /\ EnterID
  /\ UNCHANGED <<uplinkOk, transportActive, preferredParentFound, parentNodeId,
                 distanceGW, pingVars, failureCounter, uplinkCheckAge, idVars,
                 presentationSent, callVars, msgIsPong, faults>>

StParentRetry ==
  /\ InProcess /\ currentState = "stParent"
  /\ timeInState > StateTimeout
  /\ parentNodeId = AUTO
  /\ stateRetries < MY_TRANSPORT_STATE_RETRIES
  /\ EnterParent
  /\ UNCHANGED <<transportActive, pingVars, failureCounter, uplinkCheckAge,
                 idVars, presentationSent, callVars, msgIsPong, faults>>

StParentFail ==
  /\ InProcess /\ currentState = "stParent"
  /\ timeInState > StateTimeout
  /\ parentNodeId = AUTO
  /\ stateRetries >= MY_TRANSPORT_STATE_RETRIES
  /\ EnterFailure
  /\ UNCHANGED <<parVars, pingVars, txVars, uplinkCheckAge, idVars,
                 presentationSent, callVars, msgIsPong, faults>>

StIDOk ==
  /\ InProcess /\ currentState = "stID"
  /\ nodeId # AUTO
  /\ EnterUplink
  /\ UNCHANGED <<uplinkOk, transportActive, parVars, failureCounter,
                 uplinkCheckAge, idVars, presentationSent, callVars, msgIsPong,
                 faults>>

StIDRetry ==
  /\ InProcess /\ currentState = "stID"
  /\ nodeId = AUTO /\ timeInState > StateTimeout
  /\ stateRetries < MY_TRANSPORT_STATE_RETRIES
  /\ EnterID
  /\ UNCHANGED <<uplinkOk, transportActive, parVars, pingVars, failureCounter,
                 uplinkCheckAge, idVars, presentationSent, callVars, msgIsPong,
                 faults>>

StIDFail ==
  /\ InProcess /\ currentState = "stID"
  /\ nodeId = AUTO /\ timeInState > StateTimeout
  /\ stateRetries >= MY_TRANSPORT_STATE_RETRIES
  /\ EnterFailure
  /\ UNCHANGED <<parVars, pingVars, txVars, uplinkCheckAge, idVars,
                 presentationSent, callVars, msgIsPong, faults>>

StUplinkOk ==
  /\ InProcess /\ currentState = "stUplink"
  /\ IF UplinkCheckEnabled
     THEN /\ pingResponse # INVALID_HOPS
          /\ uplinkCheckAge' = 0
          /\ distanceGW' = pingResponse
     ELSE UNCHANGED <<uplinkCheckAge, distanceGW>>
  /\ EnterReady
  /\ msgIsPong' = (presentationSent /\ msgIsPong)
  /\ UNCHANGED <<transportActive, findingParentNode, preferredParentFound,
                 parentNodeId, pingVars, idVars, presentationSent, faults>>

UplinkTimeout ==
  /\ InProcess /\ currentState = "stUplink"
  /\ UplinkCheckEnabled /\ pingResponse = INVALID_HOPS
  /\ timeInState > StateTimeout

StUplinkRetry ==
  /\ UplinkTimeout
  /\ stateRetries < MY_TRANSPORT_STATE_RETRIES
  /\ EnterUplink
  /\ UNCHANGED <<uplinkOk, transportActive, parVars, failureCounter,
                 uplinkCheckAge, idVars, presentationSent, callVars, msgIsPong,
                 faults>>

\* Mutation: an unanswered uplink check leaves its ping active.
StUplinkFailPinging ==
  /\ UplinkTimeout
  /\ stateRetries >= MY_TRANSPORT_STATE_RETRIES
  /\ EnterParent
  /\ UNCHANGED <<transportActive, pingVars, failureCounter, uplinkCheckAge,
                 idVars, presentationSent, callVars, msgIsPong, faults>>

StUplinkFail ==
  /\ UplinkTimeout
  /\ stateRetries >= MY_TRANSPORT_STATE_RETRIES
  /\ pingActive' = FALSE
  /\ EnterParent
  /\ UNCHANGED <<transportActive, pingResponse, failureCounter, uplinkCheckAge,
                 idVars, presentationSent, callVars, msgIsPong, faults>>

StReadyUpdate ==
  /\ InProcess /\ currentState = "stReady"
  /\ failedUplinkTransmissions > MY_TRANSPORT_MAX_TX_FAILURES
  /\ IF MY_PARENT_NODE_IS_STATIC
     THEN /\ failedUplinkTransmissions' = 0
          /\ UNCHANGED <<smVars, uplinkOk, parVars>>
     ELSE EnterParent
  /\ UNCHANGED <<transportActive, pingVars, failureCounter, uplinkCheckAge,
                 idVars, presentationSent, callVars, msgIsPong, faults>>

\* Mutation: the node gives up for good after the last failure counted.
StFailureUpdateGivesUp ==
  /\ InProcess /\ currentState = "stFailure"
  /\ failureCounter < MY_TRANSPORT_MAX_TSM_FAILURES
  /\ timeInState > FailureTimeout
  /\ EnterInit
  /\ UNCHANGED <<uplinkOk, findingParentNode, preferredParentFound,
                 pingResponse, txVars, failureCounter, eepromNodeId,
                 presentationSent, callVars, msgIsPong, faults>>

StFailureUpdate ==
  /\ InProcess /\ currentState = "stFailure"
  /\ timeInState > IF failureCounter = MY_TRANSPORT_MAX_TSM_FAILURES
                   THEN ExtFailureTimeout ELSE FailureTimeout
  /\ EnterInit
  /\ UNCHANGED <<uplinkOk, findingParentNode, preferredParentFound,
                 pingResponse, txVars, failureCounter, eepromNodeId,
                 presentationSent, callVars, msgIsPong, faults>>

UpdateSM ==
  \/ StInitUpdate \/ StParentFound \/ StParentRetry \/ StParentFail
  \/ StIDOk \/ StIDRetry \/ StIDFail
  \/ StUplinkOk \/ StUplinkRetry \/ StUplinkFail
  \/ StReadyUpdate \/ StFailureUpdate

-----------------------------------------------------------------------------
(* transportProcessFIFO and transportProcessMessage *)

\* Enter the FIFO loop; a repeater may find its radio dead on the way in,
\* and still reads what the radio has already received.
OpenFIFO ==
  /\ ~ fifoOpen /\ transportActive
  /\ ~ (Waiting("ping") /\ msgIsPong)
  /\ fifoOpen' = TRUE
  /\ \/ UNCHANGED <<smVars, uplinkOk, transportActive, failureCounter, faults>>
     \/ MY_REPEATER_FEATURE /\ Fault /\ EnterFailure
  /\ UNCHANGED <<parVars, pingVars, txVars, uplinkCheckAge, idVars,
                 presentationSent, stack, msgIsPong>>

CloseFIFO ==
  /\ fifoOpen
  /\ fifoOpen' = FALSE
  /\ UNCHANGED <<smVars, uplinkOk, transportActive, parVars, pingVars, txVars,
                 failureCounter, uplinkCheckAge, idVars, presentationSent,
                 stack, msgIsPong, faults>>

\* Mutation: a parent is accepted when none is searched.
RecvFindParentResponseAnytime(sender, distance) ==
  /\ fifoOpen
  /\ distance # DISTANCE_INVALID
  /\ distance + 1 < distanceGW
  /\ distanceGW' = distance + 1
  /\ parentNodeId' = sender
  /\ UNCHANGED <<smVars, uplinkOk, transportActive, findingParentNode,
                 preferredParentFound, pingVars, txVars, failureCounter,
                 uplinkCheckAge, idVars, presentationSent, callVars, msgIsPong,
                 faults>>

\* I_FIND_PARENT_RESPONSE: the first best distance wins, the preferred parent
\* wins over every distance.
RecvFindParentResponse(sender, distance) ==
  /\ fifoOpen
  /\ findingParentNode
  /\ distance # DISTANCE_INVALID
  /\ ~ preferredParentFound
  /\ LET preferred == MY_PARENT_NODE_ID # AUTO /\ sender = MY_PARENT_NODE_ID
     IN  /\ preferred \/ distance + 1 < distanceGW
         /\ preferredParentFound' = preferred
  /\ distanceGW' = distance + 1
  /\ parentNodeId' = sender
  /\ msgIsPong' = FALSE
  /\ UNCHANGED <<smVars, uplinkOk, transportActive, findingParentNode, pingVars,
                 txVars, failureCounter, uplinkCheckAge, idVars,
                 presentationSent, callVars, faults>>

\* I_ID_RESPONSE, addressed to AUTO by the answer to a request, or to the ID the
\* node has: a node with a dynamic ID takes it in any state.  An ID that is
\* none (AUTO stands for 0 and 255) takes the node's away and leaves EEPROM.
RecvIdResponse(id) ==
  /\ fifoOpen
  /\ MY_NODE_ID = AUTO
  /\ nodeId' = id
  /\ eepromNodeId' = IF id = AUTO THEN eepromNodeId ELSE id
  /\ msgIsPong' = FALSE
  /\ UNCHANGED <<smVars, uplinkOk, transportActive, parVars, pingVars, txVars,
                 failureCounter, uplinkCheckAge, presentationSent, callVars,
                 faults>>

RecvPong(hops) ==
  /\ fifoOpen
  /\ IF pingActive THEN pingActive' = FALSE /\ pingResponse' = hops
                   ELSE UNCHANGED pingVars
  /\ msgIsPong' = TRUE
  /\ UNCHANGED <<smVars, uplinkOk, transportActive, parVars, txVars,
                 failureCounter, uplinkCheckAge, idVars, presentationSent,
                 callVars, faults>>

\* I_PING, and every other message that makes this node send at most one
\* message of its own: acknowledgements, relays, answers of receive().
RecvAndReply ==
  /\ fifoOpen
  /\ Reply \/ UNCHANGED txVars
  /\ msgIsPong' = FALSE
  /\ UNCHANGED <<smVars, uplinkOk, transportActive, parVars, pingVars,
                 failureCounter, uplinkCheckAge, idVars, presentationSent,
                 callVars, faults>>

FindParentRequest(sender) ==
  /\ fifoOpen
  /\ MY_REPEATER_FEATURE /\ uplinkOk
  /\ sender # parentNodeId

\* Flood control: checked less than CheckInterval ago, answer at once - and
\* count the answer as a check.
RecvFindParentRequestRecent(sender) ==
  /\ FindParentRequest(sender)
  /\ uplinkCheckAge < CheckInterval
  /\ uplinkCheckAge' = 0
  /\ msgIsPong' = FALSE
  /\ UNCHANGED <<smVars, uplinkOk, transportActive, parVars, pingVars, txVars,
                 failureCounter, idVars, presentationSent, callVars, faults>>

\* Otherwise ping the gateway and wait, unless a ping is already under way:
\* then the check has failed, and the request is dropped.
RecvFindParentRequestStale(sender) ==
  /\ FindParentRequest(sender)
  /\ uplinkCheckAge >= CheckInterval
  /\ IF pingActive
     THEN UNCHANGED <<pingVars, txVars, callVars>>
     ELSE /\ pingActive' = TRUE
          /\ pingResponse' = INVALID_HOPS
          /\ UplinkSend
          /\ Call("ping", sender)
  /\ msgIsPong' = FALSE
  /\ UNCHANGED <<smVars, uplinkOk, transportActive, parVars, failureCounter,
                 uplinkCheckAge, idVars, presentationSent, faults>>

\* transportPingNode returns, with an I_PONG or after its timeout, and the
\* request that waited for it is dropped ...
PingWaitFailed ==
  /\ ~ fifoOpen /\ Waiting("ping")
  /\ pingResponse = INVALID_HOPS
  /\ pingActive' = FALSE
  /\ Return
  /\ UNCHANGED <<smVars, uplinkOk, transportActive, parVars, pingResponse,
                 txVars, failureCounter, uplinkCheckAge, idVars,
                 presentationSent, msgIsPong, faults>>

\* ... or answered, to node stack[Len(stack)].from
PingWaitAnswered ==
  /\ ~ fifoOpen /\ Waiting("ping")
  /\ pingResponse # INVALID_HOPS
  /\ pingActive' = FALSE
  /\ uplinkCheckAge' = 0
  /\ distanceGW' = pingResponse
  /\ Reply
  /\ Return
  /\ UNCHANGED <<smVars, uplinkOk, transportActive, findingParentNode,
                 preferredParentFound, parentNodeId, pingResponse,
                 failureCounter, idVars, presentationSent, msgIsPong, faults>>

\* I_PRESENTATION from the gateway: presentNode() inside the handler
RecvPresentation ==
  /\ fifoOpen
  /\ Call("present", 0)
  /\ msgIsPong' = FALSE
  /\ UNCHANGED <<smVars, uplinkOk, transportActive, parVars, pingVars, txVars,
                 failureCounter, uplinkCheckAge, idVars, presentationSent,
                 faults>>

-----------------------------------------------------------------------------
(* The sketch, and time *)

\* presentNode() returns; if the ready callback called it, the node is now
\* presented, and transportSwitchSM saves the time of the state change.
PresentationEnd ==
  /\ ~ fifoOpen /\ (Waiting("ready") \/ Waiting("present"))
  /\ IF Waiting("ready")
     THEN presentationSent' = TRUE /\ timeInState' = 0
     ELSE UNCHANGED <<presentationSent, timeInState>>
  /\ Return
  /\ UNCHANGED <<currentState, stateRetries, uplinkOk, transportActive, parVars,
                 pingVars, txVars, failureCounter, uplinkCheckAge, idVars,
                 msgIsPong, faults>>

\* transportSendRoute, called by loop(), setup() or presentation()
SketchSend ==
  /\ InProcess
  /\ uplinkOk
  /\ UplinkSend
  /\ UNCHANGED <<smVars, uplinkOk, transportActive, parVars, pingVars,
                 failureCounter, uplinkCheckAge, idVars, presentationSent,
                 callVars, msgIsPong, faults>>

Tick ==
  /\ timeInState' = IF timeInState =< ExtFailureTimeout THEN timeInState + 1
                                                        ELSE timeInState
  /\ uplinkCheckAge' = IF uplinkCheckAge < CheckInterval THEN uplinkCheckAge + 1
                                                         ELSE uplinkCheckAge
  /\ UNCHANGED <<currentState, stateRetries, uplinkOk, transportActive, parVars,
                 pingVars, txVars, failureCounter, idVars, presentationSent,
                 callVars, msgIsPong, faults>>

Receive ==
  \/ \E n \in Neighbours, d \in Distances : RecvFindParentResponse(n, d)
  \/ \E id \in Ids \cup {AUTO} : RecvIdResponse(id)
  \/ \E h \in Hops : RecvPong(h)
  \/ RecvAndReply
  \/ \E n \in Neighbours : RecvFindParentRequestRecent(n)
  \/ \E n \in Neighbours : RecvFindParentRequestStale(n)
  \/ RecvPresentation

Step ==
  \/ UpdateSM \/ OpenFIFO \/ CloseFIFO \/ Receive
  \/ PingWaitFailed \/ PingWaitAnswered \/ PresentationEnd
  \/ SketchSend \/ Reset

Next == Step \/ Tick

Spec == Init /\ [][Next]_vars

\* Scheduling: loop() runs for ever, so every pass through transportProcess
\* updates the state machine and then opens the FIFO, a pass through the FIFO
\* handles MAX_SUBSEQ_MSGS messages at most, every wait ends, and time
\* passes.  The answer a state waits for is not lost for ever, and an ID that
\* was given is not always taken away again before the node has used it.
Fairness ==
  /\ WF_vars(Tick)
  /\ SF_vars(UpdateSM)
  /\ \A d \in 0 .. MaxDepth : SF_vars(CloseFIFO /\ Len(stack) = d)
  /\ SF_vars(PingWaitFailed \/ PingWaitAnswered)
  /\ SF_vars(PresentationEnd)
  /\ \A s \in {"stParent", "stID", "stUplink"} :
       SF_vars(OpenFIFO /\ currentState = s)
  /\ SF_vars(/\ currentState = "stParent"
             /\ \E n \in Neighbours, d \in Distances : RecvFindParentResponse(n, d))
  /\ SF_vars(currentState = "stID" /\ \E id \in Ids : RecvIdResponse(id))
  /\ SF_vars(currentState = "stID" /\ nodeId # AUTO /\ CloseFIFO)
  /\ SF_vars(StIDOk)
  /\ SF_vars(/\ currentState = "stUplink" /\ pingActive
             /\ \E h \in Hops : RecvPong(h))

FairSpec == Spec /\ Fairness

-----------------------------------------------------------------------------
(* Properties *)

\* isTransportReady() tells the truth: a ready node is in stReady with its
\* radio on, has a parent, searches none, and has the ID it was compiled with;
\* a checked uplink has a distance.  (A node whose ID comes from the controller
\* may have lost it while ready: RecvIdResponse.)
ReadyMeansConnected ==
  uplinkOk =>
    /\ currentState = "stReady" /\ transportActive
    /\ ~ findingParentNode /\ parentNodeId # AUTO
    /\ MY_NODE_ID # AUTO => nodeId = MY_NODE_ID
    /\ UplinkCheckEnabled => distanceGW # DISTANCE_INVALID

\* A static parent stays the parent, whatever responses arrive and however many
\* transmissions fail, and the node never searches another one.
StaticParentKept ==
  MY_PARENT_NODE_IS_STATIC =>
    parentNodeId = MY_PARENT_NODE_ID /\ ~ findingParentNode

\* A ping that nobody waits for any more does not keep pingActive set, which
\* would make transportPingNode refuse every later uplink check of the node.
PingGateReopens ==
  pingActive => \/ currentState \in {"stUplink", "stFailure"}
                \/ \E i \in 1 .. Len(stack) : stack[i].kind = "ping"

\* The ID in use is the one in EEPROM: a reset at any point, in a handler or
\* below one, gives back the ID the network knows the node by.
IdSurvivesReset == nodeId # AUTO => eepromNodeId = nodeId

\* Once faults stop, a node whose requests are answered becomes ready, again
\* and again, whatever transmissions fail in between.
AlwaysReconnects == []<>uplinkOk

\* The promise of module Uplink to the core and the sketch.
UL == INSTANCE Uplink WITH None <- AUTO, StaticId <- MY_NODE_ID,
                           ready <- uplinkOk, parent <- parentNodeId,
                           id <- nodeId, saved <- eepromNodeId
ImplementsUplink == UL!Spec
=============================================================================
