------------------------------ MODULE Network ------------------------------
(***************************************************************************)
(* Several repeaters and the gateway (MyTransport.cpp on every node): the  *)
(* parent search, the uplink checks by I_PING and I_PONG hop by hop, the   *)
(* routing tables, and the parent pointers they build - a tree rooted at   *)
(* the gateway, as long as no node becomes its own ancestor.               *)
(*                                                                         *)
(* Of each node's state machine (module TransportSM) only the states that  *)
(* exchange messages are kept: stParent, stUplink and stReady.  The nodes  *)
(* have static IDs.  A packet that the radio acknowledged waits in the     *)
(* FIFO of its receiver; one that was not acknowledged, or found that FIFO *)
(* full, is lost and counts as a failed transmission of its sender.  Of a  *)
(* sensor's data only the acknowledgement by the next hop matters here.    *)
(***************************************************************************)
EXTENDS Integers, FiniteSets, Sequences, Functions

CONSTANTS
  Nodes,              \* the repeaters
  InitialLinks,       \* pairs {m, n} of nodes in radio range at the start
  InitialParent,      \* parents at the start; AUTO: the node is just booting
  InitialDistance,    \* their distances to the gateway
  CheckInterval,      \* MY_TRANSPORT_CHKUPL_INTERVAL_MS, in ticks
  MaxTxFailures,      \* MY_TRANSPORT_MAX_TX_FAILURES
  TxCounterSize,      \* 2^4: failedUplinkTransmissions is 4 bits wide
  Timely,             \* the 2 s timeouts outlast what a FIFO holds
  FifoSize,           \* packets the radio of one node holds
  MaxPackets,         \* bound: packets in all FIFOs
  MaxWaits,           \* bound: handlers of one node that wait for a ping
  MaxLosses           \* bound: links that go down, packets lost on a link

GW   == 0             \* GATEWAY_ADDRESS
AUTO == 255
Invalid == 255        \* DISTANCE_INVALID, INVALID_HOPS
MAX_HOPS == 254
All  == Nodes \cup {GW}

ASSUME NetworkAssumption ==
  /\ Nodes \subseteq 1 .. 254 /\ IsFiniteSet(Nodes)
  /\ InitialLinks \subseteq SUBSET All
  /\ InitialParent \in [Nodes -> All \cup {AUTO}]
  /\ InitialDistance \in [Nodes -> 1 .. 255]
  /\ \A n \in Nodes : InitialParent[n] \in Nodes =>
       InitialDistance[InitialParent[n]] < InitialDistance[n]
  /\ CheckInterval \in Nat /\ MaxTxFailures \in Nat
  /\ TxCounterSize \in Nat \ {0}
  /\ Timely \in BOOLEAN /\ FifoSize \in Nat \ {0}
  /\ MaxPackets \in Nat /\ MaxWaits \in Nat
  /\ MaxLosses \in Nat

VARIABLES
  state,              \* state[n]: "stParent", "stUplink" or "stReady"
  parent, distance,   \* _transportConfig of each node
  pingActive, pingResponse,
  checkAge,           \* now - lastUplinkCheck, capped at CheckInterval
  failed,             \* failedUplinkTransmissions
  waiting,            \* the nodes whose parent requests wait for a ping, innermost last
  interrupted,        \* nodes that wait and have just relayed an I_PONG of another node
  route,              \* route[m][n]: the neighbour over which m reaches n
  links,              \* pairs of nodes in radio range
  fifo,               \* the packets received and not yet processed, per node
  losses

vars == <<state, parent, distance, pingActive, pingResponse, checkAge, failed,
          waiting, interrupted, route, links, fifo, losses>>

Packet == [type : {"FPREQ", "FPRES", "PING", "PONG"},
           last : All, sender : All, dest : All \cup {AUTO}, value : 0 .. 255]

TypeOK ==
  /\ state \in [Nodes -> {"stParent", "stUplink", "stReady"}]
  /\ parent \in [Nodes -> All \cup {AUTO}]
  /\ distance \in [Nodes -> 0 .. 255]
  /\ pingActive \in [Nodes -> BOOLEAN]
  /\ pingResponse \in [Nodes -> 0 .. 255]
  /\ checkAge \in [Nodes -> 0 .. CheckInterval]
  /\ failed \in [Nodes -> 0 .. TxCounterSize - 1]
  /\ waiting \in [Nodes -> Seq(All)]
  /\ interrupted \subseteq Nodes
  /\ route \in [All -> [All -> All \cup {AUTO}]]
  /\ links \subseteq InitialLinks
  /\ fifo \in [All -> Seq(Packet)]
  /\ losses \in 0 .. MaxLosses

-----------------------------------------------------------------------------
(* Sending *)

Linked(m, n) == {m, n} \in links

Pkt(type, sender, dest, value) ==
  [type |-> type, last |-> sender, sender |-> sender, dest |-> dest,
   value |-> value]

\* The packets under way.
Pending == UNION {{fifo[m][i] : i \in DOMAIN fifo[m]} : m \in All}

Total(q) == FoldFunction(LAMBDA s, t : Len(s) + t, 0, q)

\* The FIFOs after m has taken its next packet.
Rest(m) == [fifo EXCEPT ![m] = Tail(@)]

\* transportRouteMessage: where m sends a packet for dest that came from last
\* (last = m for a packet of its own).
NextHop(m, dest, last, routes) ==
  IF m # GW /\ dest = GW THEN parent[m]
  ELSE IF routes[m][dest] # AUTO THEN routes[m][dest]
  ELSE IF m = GW \/ last = parent[m] THEN dest
  ELSE parent[m]

\* The failure counter of m after a transmission to node to, acknowledged or
\* not; only what goes over the parent counts.  It wraps around.
Count(m, to, acknowledged) ==
  IF m = GW \/ to # parent[m] THEN failed
  ELSE [failed EXCEPT ![m] = IF acknowledged THEN 0 ELSE (@ + 1) % TxCounterSize]

Reaches(m, to, q) == Linked(m, to) /\ Len(q[to]) < FifoSize

Fails(m, to, q) ==
  \/ ~ Reaches(m, to, q) /\ UNCHANGED losses
  \/ Reaches(m, to, q) /\ losses < MaxLosses /\ losses' = losses + 1

\* Node m sends p to its neighbour to, or fails to, when the FIFOs hold q.
Transmit(m, to, p, q) ==
  \/ /\ Reaches(m, to, q) /\ Total(q) < MaxPackets
     /\ fifo' = [q EXCEPT ![to] = Append(@, p)]
     /\ failed' = Count(m, to, TRUE)
     /\ UNCHANGED losses
  \/ /\ Fails(m, to, q)
     /\ fifo' = q
     /\ failed' = Count(m, to, FALSE)

Drop(m) == fifo' = Rest(m) /\ UNCHANGED <<failed, losses>>

\* transportProcessMessage learns that sender is reached over last, unless
\* the packet came down from the parent.
Learn(n, p) ==
  IF p.sender # n /\ (n = GW \/ p.last # parent[n])
  THEN [route EXCEPT ![n][p.sender] = p.last] ELSE route

-----------------------------------------------------------------------------
(* The state machine *)

\* Nodes that are booting, in their first stParent, and nodes that have been
\* ready for long; the routing tables were just cleared (I_CHILDREN).
Init ==
  /\ state = [n \in Nodes |-> IF InitialParent[n] = AUTO THEN "stParent"
                                                        ELSE "stReady"]
  /\ parent = InitialParent
  /\ distance = InitialDistance
  /\ pingActive = [n \in Nodes |-> FALSE]
  /\ pingResponse = [n \in Nodes |-> Invalid]
  /\ checkAge \in [Nodes -> 0 .. CheckInterval]
  /\ failed = [n \in Nodes |-> 0]
  /\ waiting = [n \in Nodes |-> <<>>]
  /\ interrupted = {}
  /\ route = [m \in All |-> [n \in All |-> AUTO]]
  /\ links = InitialLinks
  /\ fifo = [m \in All |-> <<>>]
  /\ losses = 0

\* stParentTransition: forget the parent and broadcast a request, which some
\* of the neighbours receive.
EnterParent(n) ==
  /\ state' = [state EXCEPT ![n] = "stParent"]
  /\ parent' = [parent EXCEPT ![n] = AUTO]
  /\ distance' = [distance EXCEPT ![n] = Invalid]
  /\ failed' = [failed EXCEPT ![n] = 0]
  /\ \E R \in SUBSET {m \in All : Reaches(n, m, fifo)} :
       /\ fifo' = [m \in All |-> IF m \in R
                                 THEN Append(fifo[m], Pkt("FPREQ", n, AUTO, 0))
                                 ELSE fifo[m]]
       /\ Total(fifo') =< MaxPackets
  /\ UNCHANGED losses

\* Mutation: the uplink check does not arm the ping it waits for.
EnterUplinkUnarmed(n) ==
  /\ state' = [state EXCEPT ![n] = "stUplink"]
  /\ pingResponse' = [pingResponse EXCEPT ![n] = Invalid]
  /\ UNCHANGED pingActive
  /\ Transmit(n, parent[n], Pkt("PING", n, GW, 1), fifo)

\* stUplinkTransition: ping the gateway over the new parent.
EnterUplink(n) ==
  /\ state' = [state EXCEPT ![n] = "stUplink"]
  /\ pingActive' = [pingActive EXCEPT ![n] = TRUE]
  /\ pingResponse' = [pingResponse EXCEPT ![n] = Invalid]
  /\ Transmit(n, parent[n], Pkt("PING", n, GW, 1), fifo)

\* A handler of n waits in transportPingNode: the state machine stands still.
Pinging(n) == waiting[n] # <<>>

\* The 2 s for an answer are over.  Timely: not while a request of n, or an
\* answer to it, is still under way.
TimedOut(n) ==
  Timely => ~ \E p \in Pending :
                \/ p.type \in {"FPREQ", "PING"} /\ p.sender = n
                \/ p.type \in {"FPRES", "PONG"} /\ p.dest = n

StParentRetry(n) ==
  /\ state[n] = "stParent" /\ parent[n] = AUTO /\ TimedOut(n)
  /\ EnterParent(n)
  /\ UNCHANGED <<pingActive, pingResponse, checkAge, waiting, route, links>>

StParentFound(n) ==
  /\ state[n] = "stParent" /\ parent[n] # AUTO /\ TimedOut(n)
  /\ EnterUplink(n)
  /\ UNCHANGED <<parent, distance, checkAge, waiting, route, links>>

\* Mutation: a node becomes ready before its ping is answered.
StUplinkOkUnanswered(n) ==
  /\ state[n] = "stUplink"
  /\ state' = [state EXCEPT ![n] = "stReady"]
  /\ checkAge' = [checkAge EXCEPT ![n] = 0]
  /\ failed' = [failed EXCEPT ![n] = 0]
  /\ UNCHANGED <<parent, distance, pingActive, pingResponse, waiting, route,
                 links, fifo, losses>>

StUplinkOk(n) ==
  /\ state[n] = "stUplink" /\ pingResponse[n] # Invalid
  /\ state' = [state EXCEPT ![n] = "stReady"]
  /\ distance' = [distance EXCEPT ![n] = pingResponse[n]]
  /\ checkAge' = [checkAge EXCEPT ![n] = 0]
  /\ failed' = [failed EXCEPT ![n] = 0]
  /\ UNCHANGED <<parent, pingActive, pingResponse, waiting, route, links,
                 fifo, losses>>

StUplinkRetry(n) ==
  /\ state[n] = "stUplink" /\ pingResponse[n] = Invalid /\ TimedOut(n)
  /\ EnterUplink(n)
  /\ UNCHANGED <<parent, distance, checkAge, waiting, route, links>>

StUplinkFail(n) ==
  /\ state[n] = "stUplink" /\ pingResponse[n] = Invalid /\ TimedOut(n)
  /\ pingActive' = [pingActive EXCEPT ![n] = FALSE]
  /\ EnterParent(n)
  /\ UNCHANGED <<pingResponse, checkAge, waiting, route, links>>

StReadyUpdate(n) ==
  /\ state[n] = "stReady" /\ ~ Pinging(n)
  /\ failed[n] > MaxTxFailures
  /\ EnterParent(n)
  /\ UNCHANGED <<pingActive, pingResponse, checkAge, waiting, route, links>>

-----------------------------------------------------------------------------
(* Receiving: transportProcessMessage *)

\* I_FIND_PARENT_REQUEST.  The gateway always answers; a repeater when it is
\* ready, the request is not from its parent, and its uplink is checked.
Answer(m, n, value, q, routes) ==
  Transmit(m, NextHop(m, n, m, routes), Pkt("FPRES", m, n, value), q)

RecvRequestAtGateway(p) ==
  /\ p.type = "FPREQ"
  /\ route' = Learn(GW, p)
  /\ Answer(GW, p.sender, 0, Rest(GW), route')
  /\ UNCHANGED <<state, parent, distance, pingActive, pingResponse, checkAge,
                 waiting, links>>

MayAnswer(n, p) == state[n] = "stReady" /\ p.sender # parent[n]

RecvRequest(n, p) ==
  /\ p.type = "FPREQ"
  /\ route' = Learn(n, p)
  /\ \/ /\ ~ MayAnswer(n, p)
        /\ Drop(n)
        /\ UNCHANGED <<pingActive, pingResponse, checkAge, waiting>>
     \/ /\ MayAnswer(n, p)
        /\ checkAge[n] < CheckInterval               \* flood control
        /\ checkAge' = [checkAge EXCEPT ![n] = 0]
        /\ Answer(n, p.sender, distance[n], Rest(n), route')
        /\ UNCHANGED <<pingActive, pingResponse, waiting>>
     \/ /\ MayAnswer(n, p)
        /\ checkAge[n] >= CheckInterval /\ pingActive[n]
        /\ Drop(n)
        /\ UNCHANGED <<pingActive, pingResponse, checkAge, waiting>>
     \/ /\ MayAnswer(n, p)
        /\ checkAge[n] >= CheckInterval /\ ~ pingActive[n]
        /\ pingActive' = [pingActive EXCEPT ![n] = TRUE]
        /\ pingResponse' = [pingResponse EXCEPT ![n] = Invalid]
        /\ Len(waiting[n]) < MaxWaits
        /\ waiting' = [waiting EXCEPT ![n] = Append(@, p.sender)]
        /\ Transmit(n, parent[n], Pkt("PING", n, GW, 1), Rest(n))
        /\ UNCHANGED checkAge
  /\ UNCHANGED <<state, parent, distance, links>>

\* transportPingNode returns to the innermost request that waits for it.
Resume(n) ==
  /\ Pinging(n)
  /\ waiting' = [waiting EXCEPT ![n] = SubSeq(@, 1, Len(@) - 1)]
  /\ interrupted' = interrupted \ {n}
  /\ pingActive' = [pingActive EXCEPT ![n] = FALSE]

CheckOk(n) ==
  /\ Resume(n) /\ pingResponse[n] # Invalid
  /\ checkAge' = [checkAge EXCEPT ![n] = 0]
  /\ distance' = [distance EXCEPT ![n] = pingResponse[n]]
  /\ Answer(n, waiting[n][Len(waiting[n])], pingResponse[n], fifo, route)
  /\ UNCHANGED <<state, parent, pingResponse, route, links>>

\* transportWait takes the I_PONG of another node, which this node has just
\* relayed, for the one it waits for.
CheckFailed(n) ==
  /\ Resume(n) /\ pingResponse[n] = Invalid
  /\ TimedOut(n) \/ n \in interrupted
  /\ UNCHANGED <<state, parent, distance, pingResponse, checkAge, failed, route,
                 links, fifo, losses>>

\* Mutation: a late answer to a parent request is still taken.
RecvResponseLate(n, p) ==
  /\ p.type = "FPRES" /\ p.dest = n
  /\ route' = Learn(n, p)
  /\ IF p.value + 1 < distance[n]
     THEN /\ parent' = [parent EXCEPT ![n] = p.sender]
          /\ distance' = [distance EXCEPT ![n] = p.value + 1]
     ELSE UNCHANGED <<parent, distance>>
  /\ Drop(n)
  /\ UNCHANGED <<state, pingActive, pingResponse, checkAge, waiting, links>>

RecvResponse(n, p) ==
  /\ p.type = "FPRES" /\ p.dest = n
  /\ route' = Learn(n, p)
  /\ IF state[n] = "stParent" /\ p.value + 1 < distance[n]
     THEN /\ parent' = [parent EXCEPT ![n] = p.sender]
          /\ distance' = [distance EXCEPT ![n] = p.value + 1]
     ELSE UNCHANGED <<parent, distance>>
  /\ Drop(n)
  /\ UNCHANGED <<state, pingActive, pingResponse, checkAge, waiting, links>>

RecvPongAtSender(n, p) ==
  /\ p.type = "PONG" /\ p.dest = n
  /\ route' = Learn(n, p)
  /\ IF pingActive[n]
     THEN /\ pingActive' = [pingActive EXCEPT ![n] = FALSE]
          /\ pingResponse' = [pingResponse EXCEPT ![n] = p.value]
     ELSE UNCHANGED <<pingActive, pingResponse>>
  /\ Drop(n)
  /\ UNCHANGED <<state, parent, distance, checkAge, waiting, links>>

RecvPingAtGateway(p) ==
  /\ p.type = "PING"
  /\ route' = Learn(GW, p)
  /\ Transmit(GW, NextHop(GW, p.sender, GW, route'), Pkt("PONG", GW, p.sender, 1),
              Rest(GW))
  /\ UNCHANGED <<state, parent, distance, pingActive, pingResponse, checkAge,
                 waiting, links>>

Hops(p) == IF p.type = "FPRES" \/ p.value = MAX_HOPS THEN p.value ELSE p.value + 1

Forward(m, p) ==
  Transmit(m, NextHop(m, p.dest, p.last, route'),
           [p EXCEPT !.last = m, !.value = Hops(p)], Rest(m))

\* Mutation: a node relays whether it is ready or not.
RelayAlways(m, p) ==
  /\ p.type # "FPREQ" /\ p.dest # m
  /\ route' = Learn(m, p)
  /\ Forward(m, p)
  /\ UNCHANGED <<state, parent, distance, pingActive, pingResponse, checkAge,
                 waiting, links>>

\* Relay a message, counting the hops of pings and their answers, unless this
\* node is not ready.
Relay(m, p) ==
  /\ p.type # "FPREQ" /\ p.dest # m
  /\ route' = Learn(m, p)
  /\ IF m = GW \/ state[m] = "stReady" THEN Forward(m, p) ELSE Drop(m)
  /\ UNCHANGED <<state, parent, distance, pingActive, pingResponse, checkAge,
                 waiting, links>>

-----------------------------------------------------------------------------
(* The sketch, time, and the radio *)

SendData(n) ==
  /\ state[n] = "stReady" /\ ~ Pinging(n)
  /\ \/ /\ Reaches(n, parent[n], fifo) /\ UNCHANGED losses
        /\ failed' = Count(n, parent[n], TRUE)
     \/ Fails(n, parent[n], fifo) /\ failed' = Count(n, parent[n], FALSE)
  /\ UNCHANGED <<state, parent, distance, pingActive, pingResponse, checkAge,
                 waiting, route, links, fifo>>

Tick ==
  /\ checkAge' = [n \in Nodes |-> IF checkAge[n] < CheckInterval
                                  THEN checkAge[n] + 1 ELSE CheckInterval]
  /\ UNCHANGED <<state, parent, distance, pingActive, pingResponse, failed,
                 waiting, route, links, fifo, losses>>

LoseLink ==
  /\ losses < MaxLosses
  /\ losses' = losses + 1
  /\ \E l \in links : links' = links \ {l}
  /\ UNCHANGED <<state, parent, distance, pingActive, pingResponse, checkAge,
                 failed, waiting, route, fifo>>

ReceiveAtGateway(p) ==
  /\ RecvRequestAtGateway(p) \/ RecvPingAtGateway(p) \/ Relay(GW, p)
  /\ UNCHANGED interrupted

Receive(n, p) ==
  /\ \/ RecvRequest(n, p) \/ RecvResponse(n, p) \/ RecvPongAtSender(n, p)
     \/ Relay(n, p)
  /\ interrupted' = IF p.type = "PONG" /\ Pinging(n) THEN interrupted \cup {n}
                                                     ELSE interrupted \ {n}

UpdateSM(n) ==
  \/ StParentRetry(n) \/ StParentFound(n) \/ StUplinkOk(n) \/ StUplinkRetry(n)
  \/ StUplinkFail(n) \/ StReadyUpdate(n)

Next ==
  \/ fifo[GW] # <<>> /\ ReceiveAtGateway(Head(fifo[GW]))
  \/ \E n \in Nodes : fifo[n] # <<>> /\ Receive(n, Head(fifo[n]))
  \/ \E n \in Nodes : CheckOk(n) \/ CheckFailed(n)
  \/ /\ \/ \E n \in Nodes : UpdateSM(n) \/ SendData(n)
        \/ Tick \/ LoseLink
     /\ UNCHANGED interrupted

Spec == Init /\ [][Next]_vars

\* Scheduling: every node runs its loop() for ever, and a parent request that
\* is repeated again and again is sometimes heard by every node in range.
Heard(n) == \A m \in All : Linked(m, n) => fifo'[m] # fifo[m]

Fairness ==
  /\ WF_vars(fifo[GW] # <<>> /\ ReceiveAtGateway(Head(fifo[GW])) )
  /\ \A n \in Nodes :
       /\ WF_vars(fifo[n] # <<>> /\ Receive(n, Head(fifo[n])))
       /\ WF_vars(CheckOk(n) \/ CheckFailed(n))
       /\ SF_vars(StParentRetry(n) /\ Heard(n) /\ UNCHANGED interrupted)
       /\ SF_vars(UpdateSM(n) /\ UNCHANGED interrupted)

FairSpec == Spec /\ Fairness

-----------------------------------------------------------------------------
(* Properties *)

\* A set of nodes that have their parents among themselves cannot reach the
\* gateway: whatever they send goes round in circles.
Cut(S) == S # {} /\ \A n \in S : parent[n] \in S

\* MyTransport.cpp:757: the uplink check before a node becomes a parent "also
\* prevents circular references in case GW ooo".
NoCircularReference == ~ \E S \in SUBSET Nodes : Cut(S)

\* Nodes that all consider themselves connected never form a circle: each
\* transmission in it would be acknowledged, and none of them would notice.
NoReadyCircle ==
  ~ \E S \in SUBSET Nodes : Cut(S) /\ \A n \in S : state[n] = "stReady"

\* The nodes that a ping at m may pass on its way up, as the parents are now:
\* it goes on from one to its parent as long as the nodes are ready.
Way(m) ==
  {k \in All : \A S \in SUBSET All :
     m \in S /\ (\A n \in S \cap Nodes : state[n] = "stReady" => parent[n] \in S)
       => k \in S}

\* A node relays a ping only where the way it still has to go is shorter, and
\* does not come back to the node: a ping in a circle of parents dies at a
\* node that is not ready, instead of being relayed for ever (the hop count
\* saturates and stops nothing).
PingsMoveOn ==
  [][\A n \in Nodes : LET p == Head(fifo[n])
                      IN  fifo[n] # <<>> /\ p.type = "PING" /\ Relay(n, p) =>
                            \A m \in All : Len(fifo'[m]) > Len(Rest(n)[m]) =>
                              Way(m) \subseteq Way(n) \ {n}]_vars

\* As long as the links hold, every node that boots joins the network, over the
\* nodes that joined before it, and stays.
EverybodyJoins == <>[](\A n \in Nodes : state[n] = "stReady")

\* Every node keeps the promise of module Uplink, however late the answers to
\* its requests arrive: it becomes ready with a parent, and then keeps it.
UL(n) == INSTANCE Uplink WITH None <- AUTO, StaticId <- n,
                              ready <- state[n] = "stReady",
                              parent <- parent[n], id <- n, saved <- n
KeepsUplinkPromise ==
  [][\A n \in Nodes : UL(n)!Next \/ UNCHANGED <<state[n], parent[n]>>]_vars
=============================================================================
