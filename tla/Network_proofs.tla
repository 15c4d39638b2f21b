--------------------------- MODULE Network_proofs ---------------------------
(***************************************************************************)
(* Proofs about Network, for every set of repeaters, every radio links and *)
(* every number of losses.                                                 *)
(***************************************************************************)
EXTENDS Network, SequenceTheorems, WellFoundedInduction, TLAPS

-----------------------------------------------------------------------------
(* Packets under way *)

Fifos == [All -> Seq(Packet)]

\* Packet x waits in the FIFO of k.
Holds(q, k, x) == \E i \in 1 .. Len(q[k]) : q[k][i] = x

\* A ping goes to the gateway, its answer back to the repeater that sent it,
\* and their hop counts stay below the mark of an invalid distance.
PacketInv(x) ==
  /\ x.type = "PING" => x.dest = GW /\ x.sender \in Nodes
  /\ x.type = "PONG" => x.dest \in Nodes
  /\ x.type \in {"PING", "PONG"} => x.value <= MAX_HOPS

PacketsInv == \A k \in All : \A x \in Packet : Holds(fifo, k, x) => PacketInv(x)

\* A node beyond the parent search has a parent.
ParentInv == \A n \in Nodes : state[n] # "stParent" => parent[n] # AUTO

IInv == TypeOK /\ PacketsInv /\ ParentInv
-----------------------------------------------------------------------------
(* Lemmas about the FIFOs *)

LEMMA AllFacts ==
  /\ All \subseteq 0 .. 254 /\ GW \in All /\ GW \notin Nodes /\ Nodes \subseteq All
  /\ AUTO \notin All
BY NetworkAssumption, SMT DEF All, GW, AUTO

Added(q, to, p) == [q EXCEPT ![to] = Append(@, p)]

\* Appending a packet adds it at one place, and nothing else.
LEMMA AppendHolds ==
  ASSUME NEW q \in Fifos, NEW to \in All, NEW p \in Packet
  PROVE  /\ Added(q, to, p) \in Fifos
         /\ \A k \in All, x \in Packet : Holds(Added(q, to, p), k, x) =>
              Holds(q, k, x) \/ (k = to /\ x = p)
<1> DEFINE r == Added(q, to, p)
<1> USE DEF Fifos, Added
<1>1. /\ Append(q[to], p) \in Seq(Packet)
      /\ Len(Append(q[to], p)) = Len(q[to]) + 1
      /\ \A i \in 1 .. Len(q[to]) : Append(q[to], p)[i] = q[to][i]
      /\ Append(q[to], p)[Len(q[to]) + 1] = p
  BY AppendProperties
<1>2. r \in Fifos
  BY <1>1
<1>3. ASSUME NEW k \in All, NEW x \in Packet, Holds(r, k, x)
      PROVE  Holds(q, k, x) \/ (k = to /\ x = p)
  <2>1. CASE k # to
    BY <2>1, <1>3 DEF Holds
  <2>2. CASE k = to
    <3>1. PICK i \in 1 .. Len(q[to]) + 1 : Append(q[to], p)[i] = x
      BY <2>2, <1>3, <1>1 DEF Holds
    <3>2. Len(q[to]) \in Nat
      BY LenProperties
    <3>3. CASE i \in 1 .. Len(q[to])
      BY <3>1, <3>3, <2>2, <1>1 DEF Holds
    <3>4. CASE i = Len(q[to]) + 1
      BY <3>1, <3>4, <2>2, <1>1
    <3> QED  BY <3>2, <3>3, <3>4
  <2> QED  BY <2>1, <2>2
<1> QED  BY <1>2, <1>3

\* Taking the next packet of a node leaves only packets that were there.
LEMMA RestHolds ==
  ASSUME fifo \in Fifos, NEW m \in All, fifo[m] # <<>>
  PROVE  /\ Rest(m) \in Fifos
         /\ Head(fifo[m]) \in Packet
         /\ Holds(fifo, m, Head(fifo[m]))
         /\ \A k \in All, x \in Packet : Holds(Rest(m), k, x) => Holds(fifo, k, x)
<1> USE DEF Fifos
<1>1. /\ Head(fifo[m]) \in Packet /\ Tail(fifo[m]) \in Seq(Packet)
      /\ Len(Tail(fifo[m])) = Len(fifo[m]) - 1
      /\ \A i \in 1 .. Len(Tail(fifo[m])) : Tail(fifo[m])[i] = fifo[m][i + 1]
  BY HeadTailProperties
<1>2. Len(fifo[m]) \in Nat \ {0} /\ Head(fifo[m]) = fifo[m][1]
  BY EmptySeq
<1>3. Rest(m) \in Fifos
  BY <1>1 DEF Rest
<1>4. Holds(fifo, m, Head(fifo[m]))
  BY <1>2 DEF Holds
<1>5. ASSUME NEW k \in All, NEW x \in Packet, Holds(Rest(m), k, x)
      PROVE  Holds(fifo, k, x)
  <2>1. CASE k # m
    BY <2>1, <1>5 DEF Holds, Rest
  <2>2. CASE k = m
    <3>1. PICK i \in 1 .. Len(Tail(fifo[m])) : Tail(fifo[m])[i] = x
      BY <2>2, <1>5 DEF Holds, Rest
    <3>2. i + 1 \in 1 .. Len(fifo[m]) /\ fifo[m][i + 1] = x
      BY <3>1, <1>1, <1>2
    <3> QED  BY <3>2, <2>2 DEF Holds
  <2> QED  BY <2>1, <2>2
<1> QED  BY <1>1, <1>3, <1>4, <1>5

\* What a transmission does, acknowledged or not.
LEMMA TransmitHolds ==
  ASSUME TypeOK, NEW m \in All, NEW to, NEW p \in Packet, NEW q \in Fifos,
         Transmit(m, to, p, q)
  PROVE  /\ fifo' \in Fifos
         /\ failed' \in [Nodes -> 0 .. TxCounterSize - 1]
         /\ losses' \in 0 .. MaxLosses
         /\ \A k \in All, x \in Packet : Holds(fifo', k, x) =>
              Holds(q, k, x) \/ (k = to /\ x = p)
<1> USE NetworkAssumption
<1>1. ASSUME NEW ack \in BOOLEAN
      PROVE  Count(m, to, ack) \in [Nodes -> 0 .. TxCounterSize - 1]
  <2>1. /\ failed \in [Nodes -> 0 .. TxCounterSize - 1]
        /\ \A k \in 0 .. TxCounterSize - 1 : (k + 1) % TxCounterSize \in 0 .. TxCounterSize - 1
    BY DEF TypeOK
  <2>2. 0 \in 0 .. TxCounterSize - 1
    OBVIOUS
  <2> QED
    BY <2>1, <2>2, SMT DEF Count, All
<1>2. CASE /\ Reaches(m, to, q)
           /\ fifo' = [q EXCEPT ![to] = Append(@, p)]
           /\ failed' = Count(m, to, TRUE)
           /\ UNCHANGED losses
  <2>1. to \in All
    <3>1. {m, to} \in InitialLinks
      BY <1>2 DEF Reaches, Linked, TypeOK
    <3>2. {m, to} \subseteq All
      BY <3>1
    <3> QED  BY <3>2
  <2>2. losses' \in 0 .. MaxLosses
    BY <1>2 DEF TypeOK
  <2>3. /\ fifo' \in Fifos
        /\ \A k \in All, x \in Packet : Holds(fifo', k, x) =>
             Holds(q, k, x) \/ (k = to /\ x = p)
    BY <1>2, <2>1, AppendHolds DEF Added
  <2> QED  BY <1>1, <1>2, <2>2, <2>3
<1>3. CASE Fails(m, to, q) /\ fifo' = q /\ failed' = Count(m, to, FALSE)
  <2>1. losses' \in 0 .. MaxLosses
    BY <1>3, SMT DEF Fails, TypeOK
  <2> QED  BY <1>1, <1>3, <2>1
<1> QED  BY <1>2, <1>3 DEF Transmit

\* A broadcast puts the request in some FIFOs.
LEMMA BroadcastHolds ==
  ASSUME TypeOK, NEW n \in Nodes, EnterParent(n)
  PROVE  /\ fifo' \in Fifos
         /\ \A k \in All, x \in Packet : Holds(fifo', k, x) =>
              Holds(fifo, k, x) \/ x = Pkt("FPREQ", n, AUTO, 0)
<1> DEFINE p == Pkt("FPREQ", n, AUTO, 0)
<1>1. p \in Packet
  BY AllFacts DEF Pkt, Packet
<1>2. PICK R \in SUBSET All :
        fifo' = [m \in All |-> IF m \in R THEN Append(fifo[m], p) ELSE fifo[m]]
  BY DEF EnterParent
<1>3. fifo \in Fifos
  BY DEF TypeOK, Fifos
<1>4. ASSUME NEW k \in All
      PROVE  /\ fifo'[k] \in Seq(Packet)
             /\ \A x \in Packet : Holds(fifo', k, x) => Holds(fifo, k, x) \/ x = p
  <2> DEFINE r == Added(fifo, k, p)
  <2>1. /\ r \in Fifos
        /\ \A x \in Packet : Holds(r, k, x) => Holds(fifo, k, x) \/ x = p
    <3> HIDE DEF p
    <3> QED  BY <1>1, <1>3, AppendHolds
  <2>2. fifo'[k] = r[k] \/ fifo'[k] = fifo[k]
    BY <1>2, <1>3 DEF Fifos, Added
  <2> HIDE DEF r, p
  <2> QED  BY <1>3, <2>1, <2>2 DEF Holds, Fifos
<1>5. fifo' \in Fifos
  BY <1>2, <1>4 DEF Fifos
<1> QED  BY <1>4, <1>5
-----------------------------------------------------------------------------
(* What one step may do *)

\* Where a packet that waits for k after a step comes from: it was there, it
\* takes part in a parent search, or it is a ping of its sender, a relayed
\* ping, a relayed answer, or the gateway's answer to a ping.
Origin(k, x) ==
  \/ Holds(fifo, k, x)
  \/ x.type \in {"FPREQ", "FPRES"}
  \/ x.type = "PING" /\ k = parent'[x.sender]
  \/ /\ x.type = "PING"
     /\ \E m \in Nodes, y \in Packet :
          /\ Holds(fifo, m, y) /\ y.type = "PING" /\ y.sender = x.sender
          /\ state[m] = "stReady" /\ k = parent[m]
  \/ /\ x.type = "PONG"
     /\ \E m \in All, y \in Packet :
          Holds(fifo, m, y) /\ y.type = "PONG" /\ y.dest = x.dest
  \/ /\ x.type = "PONG"
     /\ \E y \in Packet :
          Holds(fifo, GW, y) /\ y.type = "PING" /\ y.sender = x.dest

\* How state and parent of n may change, and when its ping is answered.
Moves(n) ==
  \/ /\ state'[n] = state[n] /\ parent'[n] = parent[n]
     /\ \/ pingResponse'[n] \in {pingResponse[n], Invalid}
        \/ \E x \in Packet : Holds(fifo, n, x) /\ x.type = "PONG" /\ x.dest = n
  \/ state'[n] = "stParent"
  \/ state'[n] = "stUplink" /\ StParentFound(n)
  \/ /\ state[n] = "stUplink" /\ state'[n] = "stReady"
     /\ parent'[n] = parent[n] /\ pingResponse[n] # Invalid

StepOK ==
  /\ TypeOK'
  /\ \A k \in All, x \in Packet : Holds(fifo', k, x) => PacketInv(x) /\ Origin(k, x)
  /\ \A n \in Nodes : Moves(n)

LEMMA OldPackets ==
  ASSUME IInv, NEW k \in All, NEW x \in Packet, Holds(fifo, k, x)
  PROVE  PacketInv(x) /\ Origin(k, x)
BY DEF IInv, PacketsInv, Origin

-----------------------------------------------------------------------------
(* The state machine *)

LEMMA EnterParentTypes ==
  ASSUME IInv, NEW n \in Nodes, EnterParent(n)
  PROVE  /\ state' \in [Nodes -> {"stParent", "stUplink", "stReady"}]
         /\ parent' \in [Nodes -> All \cup {AUTO}]
         /\ distance' \in [Nodes -> 0 .. 255]
         /\ failed' \in [Nodes -> 0 .. TxCounterSize - 1]
         /\ losses' \in 0 .. MaxLosses
         /\ fifo' \in Fifos
         /\ \A k \in All, x \in Packet :
              Holds(fifo', k, x) => PacketInv(x) /\ Origin(k, x)
         /\ state'[n] = "stParent"
         /\ \A m \in Nodes \ {n} : state'[m] = state[m] /\ parent'[m] = parent[m]
<1> USE NetworkAssumption DEF IInv, TypeOK
<1>1. \A x \in Packet : x = Pkt("FPREQ", n, AUTO, 0) => x.type = "FPREQ"
  BY DEF Pkt
<1>2. /\ fifo' \in Fifos
      /\ \A k \in All, x \in Packet : Holds(fifo', k, x) =>
           Holds(fifo, k, x) \/ x.type = "FPREQ"
  BY <1>1, BroadcastHolds
<1>3. \A k \in All, x \in Packet :
        Holds(fifo', k, x) => PacketInv(x) /\ Origin(k, x)
  BY <1>2, OldPackets DEF PacketInv, Origin
<1>4. /\ state' \in [Nodes -> {"stParent", "stUplink", "stReady"}]
      /\ parent' \in [Nodes -> All \cup {AUTO}]
      /\ distance' \in [Nodes -> 0 .. 255]
      /\ failed' \in [Nodes -> 0 .. TxCounterSize - 1]
      /\ losses' \in 0 .. MaxLosses
  BY DEF EnterParent, Invalid
<1>5. /\ state'[n] = "stParent"
      /\ \A m \in Nodes \ {n} : state'[m] = state[m] /\ parent'[m] = parent[m]
  BY DEF EnterParent
<1> QED  BY <1>2, <1>3, <1>4, <1>5

\* A ping of n, to its parent.
LEMMA PingHolds ==
  ASSUME IInv, NEW n \in Nodes, NEW q \in Fifos,
         \A k \in All, x \in Packet : Holds(q, k, x) => Holds(fifo, k, x),
         Transmit(n, parent[n], Pkt("PING", n, GW, 1), q), parent' = parent
  PROVE  /\ failed' \in [Nodes -> 0 .. TxCounterSize - 1]
         /\ losses' \in 0 .. MaxLosses
         /\ fifo' \in Fifos
         /\ \A k \in All, x \in Packet :
              Holds(fifo', k, x) => PacketInv(x) /\ Origin(k, x)
         /\ \A k \in All, x \in Packet : Holds(fifo', k, x) =>
              Holds(fifo, k, x) \/ (k = parent[n] /\ x = Pkt("PING", n, GW, 1))
<1> DEFINE p == Pkt("PING", n, GW, 1)
<1>1. p \in Packet /\ p.type = "PING" /\ p.sender = n /\ p.dest = GW /\ p.value = 1
  BY AllFacts DEF Pkt, Packet
<1>2. TypeOK /\ n \in All
  BY AllFacts DEF IInv
<1> HIDE DEF p
<1>3. /\ failed' \in [Nodes -> 0 .. TxCounterSize - 1]
      /\ losses' \in 0 .. MaxLosses
      /\ fifo' \in Fifos
      /\ \A k \in All, x \in Packet : Holds(fifo', k, x) =>
           Holds(q, k, x) \/ (k = parent[n] /\ x = p)
  BY <1>1, <1>2, TransmitHolds DEF p
<1>4. ASSUME NEW k \in All, NEW x \in Packet, k = parent[n], x = p
      PROVE  PacketInv(x) /\ Origin(k, x)
  BY <1>4, <1>1 DEF PacketInv, Origin, MAX_HOPS
<1> QED  BY <1>3, <1>4, OldPackets DEF p

LEMMA EnterUplinkTypes ==
  ASSUME IInv, NEW n \in Nodes, EnterUplink(n), parent' = parent
  PROVE  /\ state' \in [Nodes -> {"stParent", "stUplink", "stReady"}]
         /\ pingActive' \in [Nodes -> BOOLEAN]
         /\ pingResponse' \in [Nodes -> 0 .. 255]
         /\ failed' \in [Nodes -> 0 .. TxCounterSize - 1]
         /\ losses' \in 0 .. MaxLosses
         /\ fifo' \in Fifos
         /\ \A k \in All, x \in Packet :
              Holds(fifo', k, x) => PacketInv(x) /\ Origin(k, x)
         /\ \A k \in All, x \in Packet : Holds(fifo', k, x) =>
              Holds(fifo, k, x) \/ (k = parent[n] /\ x = Pkt("PING", n, GW, 1))
         /\ state'[n] = "stUplink" /\ pingResponse'[n] = Invalid
         /\ \A m \in Nodes \ {n} :
              state'[m] = state[m] /\ pingResponse'[m] = pingResponse[m]
<1>1. fifo \in Fifos
  BY DEF IInv, TypeOK, Fifos
<1>2. Transmit(n, parent[n], Pkt("PING", n, GW, 1), fifo)
  BY DEF EnterUplink
<1>3. /\ failed' \in [Nodes -> 0 .. TxCounterSize - 1]
      /\ losses' \in 0 .. MaxLosses
      /\ fifo' \in Fifos
      /\ \A k \in All, x \in Packet :
           Holds(fifo', k, x) => PacketInv(x) /\ Origin(k, x)
      /\ \A k \in All, x \in Packet : Holds(fifo', k, x) =>
           Holds(fifo, k, x) \/ (k = parent[n] /\ x = Pkt("PING", n, GW, 1))
  BY <1>1, <1>2, PingHolds
<1>4. /\ state' = [state EXCEPT ![n] = "stUplink"]
      /\ pingActive' = [pingActive EXCEPT ![n] = TRUE]
      /\ pingResponse' = [pingResponse EXCEPT ![n] = Invalid]
  BY DEF EnterUplink
<1>5. /\ state \in [Nodes -> {"stParent", "stUplink", "stReady"}]
      /\ pingActive \in [Nodes -> BOOLEAN] /\ pingResponse \in [Nodes -> 0 .. 255]
  BY DEF IInv, TypeOK
<1>6. /\ state' \in [Nodes -> {"stParent", "stUplink", "stReady"}]
      /\ pingActive' \in [Nodes -> BOOLEAN] /\ pingResponse' \in [Nodes -> 0 .. 255]
      /\ state'[n] = "stUplink" /\ pingResponse'[n] = Invalid
      /\ \A m \in Nodes \ {n} :
           state'[m] = state[m] /\ pingResponse'[m] = pingResponse[m]
  BY <1>4, <1>5 DEF Invalid
<1> QED  BY <1>3, <1>6

LEMMA UpdateSMOK ==
  ASSUME IInv, NEW n \in Nodes, UpdateSM(n), UNCHANGED interrupted
  PROVE  StepOK
<1> USE DEF IInv, TypeOK
<1>1. ASSUME EnterParent(n), pingResponse' = pingResponse,
             pingActive' \in [Nodes -> BOOLEAN],
             UNCHANGED <<checkAge, waiting, route, links>>
      PROVE  StepOK
  <2>1. /\ state' \in [Nodes -> {"stParent", "stUplink", "stReady"}]
        /\ parent' \in [Nodes -> All \cup {AUTO}]
        /\ distance' \in [Nodes -> 0 .. 255]
        /\ failed' \in [Nodes -> 0 .. TxCounterSize - 1]
        /\ losses' \in 0 .. MaxLosses
        /\ fifo' \in Fifos
        /\ \A k \in All, x \in Packet :
             Holds(fifo', k, x) => PacketInv(x) /\ Origin(k, x)
        /\ state'[n] = "stParent"
        /\ \A m \in Nodes \ {n} : state'[m] = state[m] /\ parent'[m] = parent[m]
    BY <1>1, EnterParentTypes
  <2>2. TypeOK'
    BY <1>1, <2>1 DEF Fifos
  <2>3. ASSUME NEW m \in Nodes PROVE Moves(m)
    BY <1>1, <2>1 DEF Moves
  <2> QED  BY <2>1, <2>2, <2>3 DEF StepOK
<1>2. ASSUME EnterUplink(n), state[n] = "stUplink" \/ StParentFound(n),
             UNCHANGED <<parent, distance, checkAge, waiting, route, links>>
      PROVE  StepOK
  <2>1. /\ state' \in [Nodes -> {"stParent", "stUplink", "stReady"}]
        /\ pingActive' \in [Nodes -> BOOLEAN]
        /\ pingResponse' \in [Nodes -> 0 .. 255]
        /\ failed' \in [Nodes -> 0 .. TxCounterSize - 1]
        /\ losses' \in 0 .. MaxLosses
        /\ fifo' \in Fifos
        /\ \A k \in All, x \in Packet :
             Holds(fifo', k, x) => PacketInv(x) /\ Origin(k, x)
        /\ state'[n] = "stUplink" /\ pingResponse'[n] = Invalid
        /\ \A m \in Nodes \ {n} :
             state'[m] = state[m] /\ pingResponse'[m] = pingResponse[m]
    BY <1>2, EnterUplinkTypes
  <2>2. TypeOK'
    BY <1>2, <2>1 DEF Fifos
  <2>3. ASSUME NEW m \in Nodes PROVE Moves(m)
    BY <1>2, <2>1 DEF Moves
  <2> QED  BY <2>1, <2>2, <2>3 DEF StepOK
<1>3. CASE StParentRetry(n)
  BY <1>1, <1>3 DEF StParentRetry
<1>4. CASE StParentFound(n)
  BY <1>2, <1>4 DEF StParentFound
<1>5. CASE StUplinkOk(n)
  <2>1. TypeOK'
    <3>1. /\ state' \in [Nodes -> {"stParent", "stUplink", "stReady"}]
          /\ distance' \in [Nodes -> 0 .. 255]
          /\ checkAge' \in [Nodes -> 0 .. CheckInterval]
          /\ failed' \in [Nodes -> 0 .. TxCounterSize - 1]
      BY <1>5, NetworkAssumption DEF StUplinkOk
    <3> QED  BY <1>5, <3>1 DEF StUplinkOk
  <2>2. ASSUME NEW m \in Nodes PROVE Moves(m)
    BY <1>5 DEF StUplinkOk, Moves
  <2>3. fifo' = fifo
    BY <1>5 DEF StUplinkOk
  <2> QED  BY <2>1, <2>2, <2>3, OldPackets DEF StepOK
<1>6. CASE StUplinkRetry(n)
  BY <1>2, <1>6 DEF StUplinkRetry
<1>7. CASE StUplinkFail(n)
  BY <1>1, <1>7 DEF StUplinkFail
<1>8. CASE StReadyUpdate(n)
  BY <1>1, <1>8 DEF StReadyUpdate
<1> QED  BY <1>3, <1>4, <1>5, <1>6, <1>7, <1>8 DEF UpdateSM

-----------------------------------------------------------------------------
(* Receiving *)

LEMMA LearnType ==
  ASSUME TypeOK, NEW n \in All, NEW p \in Packet
  PROVE  Learn(n, p) \in [All -> [All -> All \cup {AUTO}]]
<1>1. p.sender \in All /\ p.last \in All
  BY DEF Packet
<1>2. route \in [All -> [All -> All \cup {AUTO}]]
  BY DEF TypeOK
<1>3. route[n] \in [All -> All \cup {AUTO}]
  BY <1>2
<1>4. [route EXCEPT ![n][p.sender] = p.last] \in [All -> [All -> All \cup {AUTO}]]
  BY <1>1, <1>2, <1>3
<1> QED  BY <1>2, <1>4 DEF Learn

\* The packet at the head of the FIFO of m, and the FIFOs without it.
LEMMA HeadFacts ==
  ASSUME IInv, NEW m \in All, fifo[m] # <<>>, NEW p, p = Head(fifo[m])
  PROVE  /\ TypeOK /\ p \in Packet /\ Holds(fifo, m, p) /\ PacketInv(p)
         /\ Rest(m) \in Fifos
         /\ \A k \in All, x \in Packet : Holds(Rest(m), k, x) =>
              Holds(fifo, k, x) /\ PacketInv(x) /\ Origin(k, x)
BY RestHolds, OldPackets DEF IInv, TypeOK, Fifos

\* An answer to a parent request.
LEMMA AnswerHolds ==
  ASSUME IInv, NEW m \in All, NEW n \in All, NEW value \in 0 .. 255,
         NEW q \in Fifos, NEW routes,
         \A k \in All, x \in Packet : Holds(q, k, x) => Holds(fifo, k, x),
         Answer(m, n, value, q, routes)
  PROVE  /\ fifo' \in Fifos
         /\ failed' \in [Nodes -> 0 .. TxCounterSize - 1]
         /\ losses' \in 0 .. MaxLosses
         /\ \A k \in All, x \in Packet :
              Holds(fifo', k, x) => PacketInv(x) /\ Origin(k, x)
<1> DEFINE p == Pkt("FPRES", m, n, value)
<1>1. p \in Packet /\ p.type = "FPRES"
  BY DEF Pkt, Packet
<1>2. TypeOK
  BY DEF IInv
<1> HIDE DEF p
<1>3. /\ fifo' \in Fifos
      /\ failed' \in [Nodes -> 0 .. TxCounterSize - 1]
      /\ losses' \in 0 .. MaxLosses
      /\ \A k \in All, x \in Packet : Holds(fifo', k, x) =>
           Holds(q, k, x) \/ (k = NextHop(m, n, m, routes) /\ x = p)
  <2>1. Transmit(m, NextHop(m, n, m, routes), p, q)
    BY DEF Answer, p
  <2> QED  BY <1>1, <1>2, <2>1, TransmitHolds
<1>4. ASSUME NEW k \in All, NEW x \in Packet, x = p
      PROVE  PacketInv(x) /\ Origin(k, x)
  BY <1>4, <1>1 DEF PacketInv, Origin
<1> QED  BY <1>3, <1>4, OldPackets

\* What a handler that only takes the packet out of its FIFO does.
LEMMA DropHolds ==
  ASSUME IInv, NEW m \in All, fifo[m] # <<>>, Drop(m)
  PROVE  /\ fifo' \in Fifos
         /\ failed' \in [Nodes -> 0 .. TxCounterSize - 1]
         /\ losses' \in 0 .. MaxLosses
         /\ \A k \in All, x \in Packet :
              Holds(fifo', k, x) => PacketInv(x) /\ Origin(k, x)
BY HeadFacts DEF Drop, TypeOK

LEMMA HopsBound ==
  ASSUME NEW p \in Packet, PacketInv(p), p.type # "FPREQ"
  PROVE  Hops(p) \in 0 .. 255 /\ (p.type \in {"PING", "PONG"} => Hops(p) <= MAX_HOPS)
<1>1. PICK v \in 0 .. 255 : p.value = v
  BY DEF Packet
<1>2. CASE p.type = "FPRES"
  BY <1>1, <1>2 DEF Hops
<1>3. CASE p.type \in {"PING", "PONG"}
  <2>1. v <= 254
    BY <1>1, <1>3 DEF PacketInv, MAX_HOPS
  <2>2. CASE v = 254
    BY <1>1, <1>3, <2>2 DEF Hops, MAX_HOPS
  <2>3. CASE v # 254
    <3>1. Hops(p) = v + 1
      BY <1>1, <2>3, <1>3 DEF Hops, MAX_HOPS
    <3>2. v + 1 \in 0 .. 255 /\ v + 1 <= MAX_HOPS
      BY <2>1, <2>3 DEF MAX_HOPS
    <3> QED  BY <3>1, <3>2
  <2> QED  BY <2>2, <2>3
<1> QED  BY <1>2, <1>3 DEF Packet

\* A packet relayed by the gateway, or by a repeater that is ready.
LEMMA ForwardHolds ==
  ASSUME IInv, NEW m \in All, fifo[m] # <<>>, NEW p, p = Head(fifo[m]),
         p.type # "FPREQ", p.dest # m, m = GW \/ state[m] = "stReady",
         Forward(m, p)
  PROVE  /\ fifo' \in Fifos
         /\ failed' \in [Nodes -> 0 .. TxCounterSize - 1]
         /\ losses' \in 0 .. MaxLosses
         /\ \A k \in All, x \in Packet :
              Holds(fifo', k, x) => PacketInv(x) /\ Origin(k, x)
<1> DEFINE to == NextHop(m, p.dest, p.last, route')
           r == [p EXCEPT !.last = m, !.value = Hops(p)]
<1>1. /\ TypeOK /\ p \in Packet /\ Holds(fifo, m, p) /\ PacketInv(p)
      /\ Rest(m) \in Fifos
      /\ \A k \in All, x \in Packet : Holds(Rest(m), k, x) =>
           Holds(fifo, k, x) /\ PacketInv(x) /\ Origin(k, x)
  BY HeadFacts
<1>2. p.type \in {"FPRES", "PING", "PONG"} /\ p.value \in 0 .. 255
  BY <1>1 DEF Packet
<1>3. Hops(p) \in 0 .. 255 /\ (p.type \in {"PING", "PONG"} => Hops(p) <= MAX_HOPS)
  BY <1>1, HopsBound
<1>4. /\ r \in Packet /\ r.type = p.type /\ r.sender = p.sender /\ r.dest = p.dest
      /\ r.value = Hops(p)
  BY <1>1, <1>3 DEF Packet
<1>5. /\ fifo' \in Fifos
      /\ failed' \in [Nodes -> 0 .. TxCounterSize - 1]
      /\ losses' \in 0 .. MaxLosses
      /\ \A k \in All, x \in Packet : Holds(fifo', k, x) =>
           Holds(Rest(m), k, x) \/ (k = to /\ x = r)
  <2> HIDE DEF r, to
  <2>1. Transmit(m, to, r, Rest(m))
    BY DEF Forward, r, to
  <2> QED  BY <1>1, <1>4, <2>1, TransmitHolds
<1>6. PacketInv(r)
  <2> HIDE DEF r
  <2> QED  BY <1>1, <1>3, <1>4 DEF PacketInv
<1>7. ASSUME NEW k \in All, k = to PROVE Origin(k, r)
  <2> HIDE DEF r
  <2>1. CASE p.type = "FPRES"
    BY <1>4, <2>1 DEF Origin
  <2>2. CASE p.type = "PING"
    <3>1. p.dest = GW /\ m # GW /\ m \in Nodes /\ state[m] = "stReady"
      BY <1>1, <2>2 DEF PacketInv, All
    <3>2. k = parent[m]
      BY <3>1, <1>7 DEF NextHop
    <3> QED  BY <1>1, <1>4, <2>2, <3>1, <3>2 DEF Origin
  <2>3. CASE p.type = "PONG"
    BY <1>1, <1>4, <2>3 DEF Origin
  <2> QED  BY <1>2, <2>1, <2>2, <2>3
<1> HIDE DEF r, to
<1> QED  BY <1>1, <1>5, <1>6, <1>7

LEMMA GatewayOK ==
  ASSUME IInv, fifo[GW] # <<>>, ReceiveAtGateway(Head(fifo[GW]))
  PROVE  StepOK
<1> DEFINE p == Head(fifo[GW])
<1>1. /\ TypeOK /\ p \in Packet /\ Holds(fifo, GW, p) /\ PacketInv(p)
      /\ Rest(GW) \in Fifos
      /\ \A k \in All, x \in Packet : Holds(Rest(GW), k, x) =>
           Holds(fifo, k, x) /\ PacketInv(x) /\ Origin(k, x)
  BY AllFacts, HeadFacts
<1>2. p.sender \in All
  BY <1>1 DEF Packet
<1> HIDE DEF p
<1>3. /\ route' = Learn(GW, p)
      /\ UNCHANGED <<state, parent, distance, pingActive, pingResponse, checkAge,
                     waiting, links, interrupted>>
  BY DEF ReceiveAtGateway, RecvRequestAtGateway, RecvPingAtGateway, Relay, p
<1>4. /\ fifo' \in Fifos
      /\ failed' \in [Nodes -> 0 .. TxCounterSize - 1]
      /\ losses' \in 0 .. MaxLosses
      /\ \A k \in All, x \in Packet :
           Holds(fifo', k, x) => PacketInv(x) /\ Origin(k, x)
  <2>1. CASE RecvRequestAtGateway(p)
    <3>1. Answer(GW, p.sender, 0, Rest(GW), route')
      BY <2>1 DEF RecvRequestAtGateway
    <3>2. 0 \in 0 .. 255 /\ GW \in All
      BY AllFacts
    <3> QED  BY <3>1, <3>2, <1>1, <1>2, AnswerHolds
  <2>2. CASE RecvPingAtGateway(p)
    <3> DEFINE r == Pkt("PONG", GW, p.sender, 1)
               to == NextHop(GW, p.sender, GW, route')
    <3>1. p.type = "PING" /\ p.sender \in Nodes
      BY <2>2, <1>1 DEF RecvPingAtGateway, PacketInv
    <3>2. r \in Packet /\ r.type = "PONG" /\ r.dest = p.sender /\ r.value = 1
      BY <1>2, AllFacts DEF Pkt, Packet
    <3>3. Transmit(GW, to, r, Rest(GW))
      BY <2>2 DEF RecvPingAtGateway
    <3> HIDE DEF r, to
    <3>4. /\ fifo' \in Fifos
          /\ failed' \in [Nodes -> 0 .. TxCounterSize - 1]
          /\ losses' \in 0 .. MaxLosses
          /\ \A k \in All, x \in Packet : Holds(fifo', k, x) =>
               Holds(Rest(GW), k, x) \/ (k = to /\ x = r)
      BY <1>1, <3>2, <3>3, AllFacts, TransmitHolds
    <3>5. ASSUME NEW k \in All PROVE PacketInv(r) /\ Origin(k, r)
      BY <1>1, <3>1, <3>2 DEF PacketInv, Origin, MAX_HOPS
    <3> QED  BY <1>1, <3>4, <3>5
  <2>3. CASE Relay(GW, p)
    <3>1. p.type # "FPREQ" /\ p.dest # GW /\ Forward(GW, p)
      BY <2>3 DEF Relay
    <3> QED  BY <3>1, AllFacts, ForwardHolds DEF p
  <2> QED  BY <2>1, <2>2, <2>3 DEF ReceiveAtGateway, p
<1>5. TypeOK'
  <2>1. route' \in [All -> [All -> All \cup {AUTO}]]
    BY <1>1, <1>3, AllFacts, LearnType
  <2> QED  BY <1>1, <1>3, <1>4, <2>1 DEF TypeOK, Fifos
<1>6. \A n \in Nodes : Moves(n)
  BY <1>3 DEF Moves
<1> QED  BY <1>4, <1>5, <1>6 DEF StepOK

LEMMA RequestOK ==
  ASSUME IInv, NEW n \in Nodes, fifo[n] # <<>>, RecvRequest(n, Head(fifo[n])),
         interrupted' \subseteq Nodes
  PROVE  StepOK
<1> DEFINE p == Head(fifo[n])
<1>a. n \in All
  BY AllFacts
<1>1. /\ TypeOK /\ p \in Packet /\ Holds(fifo, n, p) /\ PacketInv(p)
      /\ Rest(n) \in Fifos
      /\ \A k \in All, x \in Packet : Holds(Rest(n), k, x) =>
           Holds(fifo, k, x) /\ PacketInv(x) /\ Origin(k, x)
  BY <1>a, HeadFacts
<1>2. p.sender \in All
  BY <1>1 DEF Packet
<1> HIDE DEF p
<1>3. RecvRequest(n, p)
  BY DEF p
<1>4. /\ route' = Learn(n, p)
      /\ UNCHANGED <<state, parent, distance, links>>
  BY <1>3 DEF RecvRequest
<1>5. route' \in [All -> [All -> All \cup {AUTO}]]
  BY <1>a, <1>1, <1>4, LearnType
<1>6. ASSUME pingActive' \in [Nodes -> BOOLEAN],
             pingResponse' \in [Nodes -> 0 .. 255],
             checkAge' \in [Nodes -> 0 .. CheckInterval],
             waiting' \in [Nodes -> Seq(All)],
             \A m \in Nodes : pingResponse'[m] \in {pingResponse[m], Invalid},
             fifo' \in Fifos,
             failed' \in [Nodes -> 0 .. TxCounterSize - 1],
             losses' \in 0 .. MaxLosses,
             \A k \in All, x \in Packet :
               Holds(fifo', k, x) => PacketInv(x) /\ Origin(k, x)
      PROVE  StepOK
  <2>1. TypeOK'
    BY <1>1, <1>4, <1>5, <1>6 DEF TypeOK, Fifos
  <2>2. \A m \in Nodes : Moves(m)
    BY <1>4, <1>6 DEF Moves
  <2> QED  BY <1>6, <2>1, <2>2 DEF StepOK
<1>7. /\ pingActive \in [Nodes -> BOOLEAN] /\ pingResponse \in [Nodes -> 0 .. 255]
      /\ checkAge \in [Nodes -> 0 .. CheckInterval] /\ waiting \in [Nodes -> Seq(All)]
      /\ distance \in [Nodes -> 0 .. 255]
  BY <1>1 DEF TypeOK
<1>8. CASE /\ Drop(n)
           /\ UNCHANGED <<pingActive, pingResponse, checkAge, waiting>>
  <2>1. /\ fifo' \in Fifos
        /\ failed' \in [Nodes -> 0 .. TxCounterSize - 1]
        /\ losses' \in 0 .. MaxLosses
        /\ \A k \in All, x \in Packet :
             Holds(fifo', k, x) => PacketInv(x) /\ Origin(k, x)
    BY <1>8, <1>a, DropHolds
  <2> QED  BY <1>6, <1>7, <1>8, <2>1
<1>9. CASE /\ checkAge' = [checkAge EXCEPT ![n] = 0]
           /\ Answer(n, p.sender, distance[n], Rest(n), route')
           /\ UNCHANGED <<pingActive, pingResponse, waiting>>
  <2>1. distance[n] \in 0 .. 255
    BY <1>7
  <2>2. /\ fifo' \in Fifos
        /\ failed' \in [Nodes -> 0 .. TxCounterSize - 1]
        /\ losses' \in 0 .. MaxLosses
        /\ \A k \in All, x \in Packet :
             Holds(fifo', k, x) => PacketInv(x) /\ Origin(k, x)
    BY <1>9, <1>a, <1>1, <1>2, <2>1, AnswerHolds
  <2>3. checkAge' \in [Nodes -> 0 .. CheckInterval]
    BY <1>7, <1>9, NetworkAssumption
  <2> QED  BY <1>6, <1>7, <1>9, <2>2, <2>3
<1>10. CASE /\ pingActive' = [pingActive EXCEPT ![n] = TRUE]
            /\ pingResponse' = [pingResponse EXCEPT ![n] = Invalid]
            /\ waiting' = [waiting EXCEPT ![n] = Append(@, p.sender)]
            /\ Transmit(n, parent[n], Pkt("PING", n, GW, 1), Rest(n))
            /\ UNCHANGED checkAge
  <2>1. /\ fifo' \in Fifos
        /\ failed' \in [Nodes -> 0 .. TxCounterSize - 1]
        /\ losses' \in 0 .. MaxLosses
        /\ \A k \in All, x \in Packet :
             Holds(fifo', k, x) => PacketInv(x) /\ Origin(k, x)
    BY <1>10, <1>4, <1>1, PingHolds
  <2>2. Append(waiting[n], p.sender) \in Seq(All)
    BY <1>2, <1>7, AppendProperties
  <2>3. waiting' \in [Nodes -> Seq(All)]
    BY <1>7, <1>10, <2>2
  <2>4. /\ pingActive' \in [Nodes -> BOOLEAN] /\ pingResponse' \in [Nodes -> 0 .. 255]
        /\ \A m \in Nodes : pingResponse'[m] \in {pingResponse[m], Invalid}
    BY <1>7, <1>10 DEF Invalid
  <2> QED  BY <1>6, <1>7, <1>10, <2>1, <2>3, <2>4
<1> QED  BY <1>3, <1>8, <1>9, <1>10 DEF RecvRequest

LEMMA ReceiveOK ==
  ASSUME IInv, NEW n \in Nodes, fifo[n] # <<>>, Receive(n, Head(fifo[n]))
  PROVE  StepOK
<1> DEFINE p == Head(fifo[n])
<1>a. n \in All
  BY AllFacts
<1>b. interrupted' \subseteq Nodes
  BY DEF Receive, IInv, TypeOK
<1>1. /\ TypeOK /\ p \in Packet /\ Holds(fifo, n, p) /\ PacketInv(p)
  BY <1>a, HeadFacts
<1>2. p.sender \in All /\ p.value \in 0 .. 255
  BY <1>1 DEF Packet
<1> HIDE DEF p
<1>3. CASE RecvRequest(n, p)
  BY <1>3, <1>b, RequestOK DEF p
<1>4. ASSUME route' = Learn(n, p), fifo' \in Fifos,
             failed' \in [Nodes -> 0 .. TxCounterSize - 1],
             losses' \in 0 .. MaxLosses,
             \A k \in All, x \in Packet :
               Holds(fifo', k, x) => PacketInv(x) /\ Origin(k, x),
             parent' \in [Nodes -> All \cup {AUTO}],
             distance' \in [Nodes -> 0 .. 255],
             pingActive' \in [Nodes -> BOOLEAN],
             pingResponse' \in [Nodes -> 0 .. 255],
             UNCHANGED <<state, checkAge, waiting, links>>,
             \A m \in Nodes : Moves(m)
      PROVE  StepOK
  <2>1. route' \in [All -> [All -> All \cup {AUTO}]]
    BY <1>a, <1>1, <1>4, LearnType
  <2>2. TypeOK'
    BY <1>1, <1>4, <1>b, <2>1 DEF TypeOK, Fifos
  <2> QED  BY <1>4, <2>2 DEF StepOK
<1>5. Drop(n) =>
        /\ fifo' \in Fifos
        /\ failed' \in [Nodes -> 0 .. TxCounterSize - 1]
        /\ losses' \in 0 .. MaxLosses
        /\ \A k \in All, x \in Packet :
             Holds(fifo', k, x) => PacketInv(x) /\ Origin(k, x)
  BY <1>a, DropHolds
<1>6. /\ parent \in [Nodes -> All \cup {AUTO}] /\ distance \in [Nodes -> 0 .. 255]
      /\ pingActive \in [Nodes -> BOOLEAN] /\ pingResponse \in [Nodes -> 0 .. 255]
  BY <1>1 DEF TypeOK
<1>7. CASE RecvResponse(n, p)
  <2>1. /\ parent' \in [Nodes -> All \cup {AUTO}] /\ distance' \in [Nodes -> 0 .. 255]
    <3>1. CASE p.value + 1 < distance[n]
      <4>1. PICK v \in 0 .. 255 : p.value = v
        BY <1>2
      <4>2. PICK d \in 0 .. 255 : distance[n] = d
        BY <1>6
      <4>3. v + 1 \in 0 .. 255
        BY <3>1, <4>1, <4>2
      <4>4. \/ /\ parent' = [parent EXCEPT ![n] = p.sender]
               /\ distance' = [distance EXCEPT ![n] = v + 1]
            \/ UNCHANGED <<parent, distance>>
        BY <1>7, <4>1 DEF RecvResponse
      <4>5. parent' \in [Nodes -> All \cup {AUTO}]
        BY <1>2, <1>6, <4>4
      <4>6. distance' \in [Nodes -> 0 .. 255]
        BY <1>6, <4>3, <4>4
      <4> QED  BY <4>5, <4>6
    <3>2. CASE ~ (p.value + 1 < distance[n])
      BY <1>6, <1>7, <3>2 DEF RecvResponse
    <3> QED  BY <3>1, <3>2
  <2>2. ASSUME NEW m \in Nodes PROVE Moves(m)
    BY <1>6, <1>7 DEF RecvResponse, Moves
  <2> QED  BY <1>4, <1>5, <1>6, <1>7, <2>1, <2>2 DEF RecvResponse
<1>8. CASE RecvPongAtSender(n, p)
  <2>1. /\ pingActive' \in [Nodes -> BOOLEAN] /\ pingResponse' \in [Nodes -> 0 .. 255]
    BY <1>2, <1>6, <1>8 DEF RecvPongAtSender
  <2>2. ASSUME NEW m \in Nodes PROVE Moves(m)
    BY <1>1, <1>6, <1>8 DEF RecvPongAtSender, Moves
  <2> QED  BY <1>4, <1>5, <1>6, <1>8, <2>1, <2>2 DEF RecvPongAtSender
<1>9. CASE Relay(n, p)
  <2>1. /\ fifo' \in Fifos
        /\ failed' \in [Nodes -> 0 .. TxCounterSize - 1]
        /\ losses' \in 0 .. MaxLosses
        /\ \A k \in All, x \in Packet :
             Holds(fifo', k, x) => PacketInv(x) /\ Origin(k, x)
    <3>1. CASE Drop(n)
      BY <1>5, <3>1
    <3>2. CASE state[n] = "stReady" /\ Forward(n, p)
      BY <1>9, <1>a, <3>2, ForwardHolds DEF Relay, p
    <3> QED  BY <1>9, <3>1, <3>2, AllFacts DEF Relay
  <2>2. ASSUME NEW m \in Nodes PROVE Moves(m)
    BY <1>9 DEF Relay, Moves
  <2> QED  BY <1>4, <1>6, <1>9, <2>1, <2>2 DEF Relay
<1> QED  BY <1>3, <1>7, <1>8, <1>9 DEF Receive, p

-----------------------------------------------------------------------------
(* Handlers that wait, the sketch, time, and the radio *)

\* A step that leaves the packets alone, or sends an answer.
LEMMA QuietOK ==
  ASSUME TypeOK', UNCHANGED <<state, parent, pingResponse>>,
         \A k \in All, x \in Packet :
           Holds(fifo', k, x) => PacketInv(x) /\ Origin(k, x)
  PROVE  StepOK
BY DEF StepOK, Moves

LEMMA CheckOK ==
  ASSUME IInv, NEW n \in Nodes, CheckOk(n) \/ CheckFailed(n)
  PROVE  StepOK
<1>1. /\ TypeOK /\ pingActive \in [Nodes -> BOOLEAN] /\ waiting \in [Nodes -> Seq(All)]
      /\ pingResponse \in [Nodes -> 0 .. 255] /\ distance \in [Nodes -> 0 .. 255]
      /\ checkAge \in [Nodes -> 0 .. CheckInterval] /\ fifo \in Fifos
      /\ interrupted \subseteq Nodes
  BY DEF IInv, TypeOK, Fifos
<1>2. Resume(n)
  BY DEF CheckOk, CheckFailed
<1>3. waiting[n] \in Seq(All) /\ waiting[n] # <<>>
  BY <1>1, <1>2 DEF Resume, Pinging
<1>4. Len(waiting[n]) \in Nat \ {0}
  BY <1>3, EmptySeq
<1>5. waiting[n][Len(waiting[n])] \in All
  BY <1>3, <1>4, ElementOfSeq
<1>6. SubSeq(waiting[n], 1, Len(waiting[n]) - 1) \in Seq(All)
  <2>1. \A i \in 1 .. Len(waiting[n]) - 1 : waiting[n][i] \in All
    BY <1>3, <1>4, ElementOfSeq
  <2> QED  BY <1>4, <2>1, SubSeqProperties
<1>7. /\ waiting' \in [Nodes -> Seq(All)] /\ pingActive' \in [Nodes -> BOOLEAN]
      /\ interrupted' \subseteq Nodes
  BY <1>1, <1>2, <1>6 DEF Resume
<1>8. CASE CheckOk(n)
  <2>1. pingResponse[n] \in 0 .. 255 /\ n \in All
    BY <1>1, AllFacts
  <2>2. Answer(n, waiting[n][Len(waiting[n])], pingResponse[n], fifo, route)
    BY <1>8 DEF CheckOk
  <2>3. /\ fifo' \in Fifos
        /\ failed' \in [Nodes -> 0 .. TxCounterSize - 1]
        /\ losses' \in 0 .. MaxLosses
        /\ \A k \in All, x \in Packet :
             Holds(fifo', k, x) => PacketInv(x) /\ Origin(k, x)
    BY <1>1, <1>5, <2>1, <2>2, AnswerHolds
  <2>4. distance' \in [Nodes -> 0 .. 255] /\ checkAge' \in [Nodes -> 0 .. CheckInterval]
    BY <1>1, <1>8, NetworkAssumption DEF CheckOk
  <2>5. UNCHANGED <<state, parent, pingResponse, route, links>>
    BY <1>8 DEF CheckOk
  <2>6. TypeOK'
    BY <1>1, <1>7, <2>3, <2>4, <2>5 DEF TypeOK, Fifos
  <2> QED  BY <2>3, <2>5, <2>6, QuietOK
<1>9. CASE CheckFailed(n)
  <2>1. UNCHANGED <<state, parent, distance, pingResponse, checkAge, failed, route,
                    links, fifo, losses>>
    BY <1>9 DEF CheckFailed
  <2>2. TypeOK'
    BY <1>1, <1>7, <2>1 DEF TypeOK
  <2> QED  BY <2>1, <2>2, QuietOK, OldPackets
<1> QED  BY <1>8, <1>9

LEMMA SendDataOK ==
  ASSUME IInv, NEW n \in Nodes, SendData(n), UNCHANGED interrupted
  PROVE  StepOK
<1>1. TypeOK
  BY DEF IInv
<1>2. UNCHANGED <<state, parent, distance, pingActive, pingResponse, checkAge,
                  waiting, route, links, fifo>>
  BY DEF SendData
<1>3. \E ack \in BOOLEAN : failed' = Count(n, parent[n], ack)
  BY DEF SendData
<1>4. failed' \in [Nodes -> 0 .. TxCounterSize - 1]
  <2>1. /\ failed \in [Nodes -> 0 .. TxCounterSize - 1]
        /\ 0 \in 0 .. TxCounterSize - 1
        /\ \A k \in 0 .. TxCounterSize - 1 : (k + 1) % TxCounterSize \in 0 .. TxCounterSize - 1
    BY <1>1, NetworkAssumption DEF TypeOK
  <2> QED
    BY <1>3, <2>1, SMT DEF Count
<1>5. losses' \in 0 .. MaxLosses
  <2>1. UNCHANGED losses \/ (losses < MaxLosses /\ losses' = losses + 1)
    BY DEF SendData, Fails
  <2>2. losses \in 0 .. MaxLosses
    BY <1>1 DEF TypeOK
  <2> QED  BY <2>1, <2>2, NetworkAssumption
<1>6. TypeOK'
  BY <1>1, <1>2, <1>4, <1>5 DEF TypeOK
<1> QED  BY <1>2, <1>6, QuietOK, OldPackets

LEMMA TickOK ==
  ASSUME IInv, Tick, UNCHANGED interrupted
  PROVE  StepOK
<1>1. TypeOK /\ checkAge \in [Nodes -> 0 .. CheckInterval] /\ CheckInterval \in Nat
  BY NetworkAssumption DEF IInv, TypeOK
<1>2. ASSUME NEW n \in Nodes
      PROVE  (IF checkAge[n] < CheckInterval THEN checkAge[n] + 1 ELSE CheckInterval)
               \in 0 .. CheckInterval
  BY <1>1
<1>3. checkAge' \in [Nodes -> 0 .. CheckInterval]
  BY <1>2 DEF Tick
<1>4. UNCHANGED <<state, parent, distance, pingActive, pingResponse, failed,
                  waiting, route, links, fifo, losses>>
  BY DEF Tick
<1>5. TypeOK'
  BY <1>1, <1>3, <1>4 DEF TypeOK
<1> QED  BY <1>4, <1>5, QuietOK, OldPackets

LEMMA LoseLinkOK ==
  ASSUME IInv, LoseLink, UNCHANGED interrupted
  PROVE  StepOK
<1>1. TypeOK /\ losses \in 0 .. MaxLosses /\ links \subseteq InitialLinks
  BY DEF IInv, TypeOK
<1>2. losses' \in 0 .. MaxLosses
  BY <1>1, NetworkAssumption DEF LoseLink
<1>3. links' \subseteq InitialLinks
  BY <1>1 DEF LoseLink
<1>4. UNCHANGED <<state, parent, distance, pingActive, pingResponse, checkAge,
                  failed, waiting, route, fifo>>
  BY DEF LoseLink
<1>5. TypeOK'
  BY <1>1, <1>2, <1>3, <1>4 DEF TypeOK
<1> QED  BY <1>4, <1>5, QuietOK, OldPackets

\* Every step.
LEMMA NextOK ==
  ASSUME IInv, [Next]_vars
  PROVE  StepOK
<1>1. CASE fifo[GW] # <<>> /\ ReceiveAtGateway(Head(fifo[GW]))
  BY <1>1, GatewayOK
<1>2. ASSUME NEW n \in Nodes, fifo[n] # <<>>, Receive(n, Head(fifo[n]))
      PROVE  StepOK
  BY <1>2, ReceiveOK
<1>3. ASSUME NEW n \in Nodes, CheckOk(n) \/ CheckFailed(n)
      PROVE  StepOK
  BY <1>3, CheckOK
<1>4. ASSUME NEW n \in Nodes, UpdateSM(n), UNCHANGED interrupted
      PROVE  StepOK
  BY <1>4, UpdateSMOK
<1>5. ASSUME NEW n \in Nodes, SendData(n), UNCHANGED interrupted
      PROVE  StepOK
  BY <1>5, SendDataOK
<1>6. CASE Tick /\ UNCHANGED interrupted
  BY <1>6, TickOK
<1>7. CASE LoseLink /\ UNCHANGED interrupted
  BY <1>7, LoseLinkOK
<1>8. CASE UNCHANGED vars
  <2>1. TypeOK' /\ UNCHANGED <<state, parent, pingResponse, fifo>>
    BY <1>8 DEF vars, IInv, TypeOK
  <2> QED  BY <2>1, QuietOK, OldPackets
<1> QED  BY <1>1, <1>2, <1>3, <1>4, <1>5, <1>6, <1>7, <1>8 DEF Next

LEMMA NextInv ==
  ASSUME IInv, [Next]_vars
  PROVE  IInv'
<1>1. StepOK
  BY NextOK
<1>2. PacketsInv'
  BY <1>1 DEF StepOK, PacketsInv, Holds, PacketInv
<1>3. ASSUME NEW n \in Nodes, state'[n] # "stParent"
      PROVE  parent'[n] # AUTO
  <2>1. Moves(n)
    BY <1>1 DEF StepOK
  <2>2. CASE StParentFound(n)
    BY <2>2 DEF StParentFound
  <2>3. CASE ~ StParentFound(n)
    BY <1>3, <2>1, <2>3 DEF Moves, IInv, ParentInv
  <2> QED  BY <2>2, <2>3
<1> QED  BY <1>1, <1>2, <1>3 DEF StepOK, IInv, ParentInv

LEMMA InitInv == Init => IInv
<1> SUFFICES ASSUME Init PROVE IInv
  OBVIOUS
<1>1. <<>> \in Seq(All) /\ <<>> \in Seq(Packet) /\ Len(<<>>) = 0
  BY EmptySeq
<1>2. /\ pingActive \in [Nodes -> BOOLEAN] /\ pingResponse \in [Nodes -> 0 .. 255]
      /\ state \in [Nodes -> {"stParent", "stUplink", "stReady"}]
      /\ failed \in [Nodes -> 0 .. TxCounterSize - 1]
      /\ waiting \in [Nodes -> Seq(All)] /\ fifo \in [All -> Seq(Packet)]
  BY <1>1, NetworkAssumption DEF Init, Invalid
<1>3. /\ parent \in [Nodes -> All \cup {AUTO}] /\ distance \in [Nodes -> 0 .. 255]
      /\ route \in [All -> [All -> All \cup {AUTO}]]
      /\ losses \in 0 .. MaxLosses /\ links \subseteq InitialLinks
      /\ checkAge \in [Nodes -> 0 .. CheckInterval] /\ interrupted \subseteq Nodes
  BY NetworkAssumption DEF Init
<1>4. TypeOK
  BY <1>2, <1>3 DEF TypeOK
<1>5. PacketsInv
  BY <1>1 DEF Init, PacketsInv, Holds
<1>6. ParentInv
  BY DEF Init, ParentInv
<1> QED  BY <1>4, <1>5, <1>6 DEF IInv

THEOREM InductiveInvariant == Spec => []IInv
<1>1. Init => IInv
  BY InitInv
<1>2. IInv /\ [Next]_vars => IInv'
  BY NextInv
<1> QED  BY <1>1, <1>2, PTL DEF Spec

\* Every variable keeps its type: a hop count never takes the value that means
\* "no answer", and every packet, route and parent names a node of the network.
THEOREM TypeCorrect == Spec => []TypeOK
<1>1. IInv => TypeOK
  BY DEF IInv
<1> QED  BY <1>1, InductiveInvariant, PTL
-----------------------------------------------------------------------------
(* The promise of the transport layer *)

\* isTransportReady() of MyTransport.cpp, on every node of the network: a node
\* becomes ready only with a parent, and keeps it until it is no longer ready.
THEOREM UplinkPromise == Spec => KeepsUplinkPromise
<1>1. ASSUME IInv, [Next]_vars, NEW n \in Nodes
      PROVE  UL(n)!Next \/ UNCHANGED <<state[n], parent[n]>>
  <2>1. Moves(n) /\ parent'[n] \in All \cup {AUTO}
    BY <1>1, NextOK DEF StepOK, TypeOK
  <2>2. parent'[n] \in 0 .. 255 /\ n # AUTO
    <3>1. n \in 0 .. 254 /\ All \subseteq 0 .. 254
      BY AllFacts
    <3>2. n # AUTO /\ All \cup {AUTO} \subseteq 0 .. 255
      BY <3>1 DEF AUTO
    <3> QED  BY <2>1, <3>2
  <2>3. CASE state'[n] = state[n] /\ parent'[n] = parent[n]
    BY <2>3
  <2>4. CASE state'[n] = "stParent" /\ state[n] # "stReady"
    BY <2>2, <2>4 DEF UL!Next, UL!Search
  <2>5. CASE state'[n] = "stParent" /\ state[n] = "stReady"
    BY <2>2, <2>5 DEF UL!Next, UL!Disconnect
  <2>6. CASE state'[n] = "stUplink" /\ StParentFound(n)
    BY <2>2, <2>6 DEF UL!Next, UL!Search, StParentFound
  <2>7. CASE state[n] = "stUplink" /\ state'[n] = "stReady" /\ parent'[n] = parent[n]
    BY <2>2, <2>7, <1>1 DEF UL!Next, UL!Connect, UL!Dynamic, IInv, ParentInv
  <2> QED  BY <2>1, <2>3, <2>4, <2>5, <2>6, <2>7 DEF Moves
<1>2. IInv /\ [Next]_vars =>
        [\A n \in Nodes : UL(n)!Next \/ UNCHANGED <<state[n], parent[n]>>]_vars
  BY <1>1
<1> QED  BY <1>2, InductiveInvariant, PTL DEF Spec, KeepsUplinkPromise

-----------------------------------------------------------------------------
(* No circle of nodes that all consider themselves connected *)

Up(n) == state[n] \in {"stUplink", "stReady"}

\* Node u of S waits for the answer to a ping that cannot come any more: its
\* pings are all on their way round in S.
Deaf(u, S) ==
  /\ state[u] = "stUplink" /\ pingResponse[u] = Invalid
  /\ \A k \in All : \A x \in Packet : Holds(fifo, k, x) =>
       /\ ~ (x.type = "PONG" /\ x.dest = u)
       /\ x.type = "PING" /\ x.sender = u => k \in S

\* A circle of parents may close, but then one of its nodes, which is not
\* ready, waits in vain for the gateway, and keeps the circle from being ready.
CircleInv ==
  \A S \in SUBSET Nodes :
    Cut(S) /\ (\A n \in S : Up(n)) => \E u \in S : Deaf(u, S)

\* Distances to the gateway shrink along the parents at the start.
LEMMA Nearest ==
  ASSUME NEW S \in SUBSET Nodes, S # {}
  PROVE  \E n \in S : \A m \in S : InitialDistance[n] <= InitialDistance[m]
<1> DEFINE R == {p \in Nat \X Nat : p[1] < p[2]}
           T == {InitialDistance[n] : n \in S}
<1>1. IsWellFoundedOn(R, Nat)
  BY NatLessThanWellFounded DEF OpToRel
<1>2. \A n \in S : InitialDistance[n] \in Nat
  BY NetworkAssumption
<1>3. T \subseteq Nat /\ T # {}
  BY <1>2
<1>4. PICK t \in T : \A v \in T : <<v, t>> \notin R
  <2> HIDE DEF R, T
  <2> QED  BY <1>1, <1>3, WFMin
<1>5. PICK n \in S : t = InitialDistance[n]
  OBVIOUS
<1>6. ASSUME NEW m \in S PROVE InitialDistance[n] <= InitialDistance[m]
  <2>1. InitialDistance[m] \in T /\ InitialDistance[m] \in Nat /\ t \in Nat
    BY <1>2, <1>3
  <2>2. ~ (InitialDistance[m] < t)
    BY <1>4, <2>1
  <2> QED  BY <1>5, <2>1, <2>2
<1> QED  BY <1>6

LEMMA InitCircle == Init => CircleInv
<1> SUFFICES ASSUME Init, NEW S \in SUBSET Nodes, Cut(S) PROVE FALSE
  BY DEF CircleInv
<1>1. PICK n \in S : \A m \in S : InitialDistance[n] <= InitialDistance[m]
  BY Nearest DEF Cut
<1>2. InitialParent[n] \in S
  BY DEF Cut, Init
<1>3. n \in Nodes /\ InitialParent[n] \in Nodes
  BY <1>2
<1>4. InitialDistance[InitialParent[n]] < InitialDistance[n]
  BY <1>3, NetworkAssumption
<1>5. InitialDistance[n] \in Nat /\ InitialDistance[InitialParent[n]] \in Nat
  <2>1. InitialDistance \in [Nodes -> 1 .. 255]
    BY NetworkAssumption
  <2> QED  BY <1>3, <2>1
<1>6. InitialDistance[n] <= InitialDistance[InitialParent[n]]
  BY <1>1, <1>2
<1> QED  BY <1>4, <1>5, <1>6

\* A node that has just found its parent starts with nothing under way, and
\* the ping it sends goes to that parent.
LEMMA FoundIsDeaf ==
  ASSUME Timely, IInv, NEW S \in SUBSET Nodes, NEW u \in S, StParentFound(u),
         parent[u] \in S
  PROVE  Deaf(u, S)'
<1>1. u \in Nodes /\ EnterUplink(u) /\ parent' = parent /\ TimedOut(u)
  BY DEF StParentFound
<1>2. /\ state'[u] = "stUplink" /\ pingResponse'[u] = Invalid
      /\ \A k \in All, x \in Packet : Holds(fifo', k, x) =>
           Holds(fifo, k, x) \/ (k = parent[u] /\ x = Pkt("PING", u, GW, 1))
  BY <1>1, EnterUplinkTypes
<1>3. ASSUME NEW k \in All, NEW x \in Packet, Holds(fifo, k, x)
      PROVE  ~ (x.type = "PING" /\ x.sender = u) /\ ~ (x.type = "PONG" /\ x.dest = u)
  <2>1. fifo[k] \in Seq(Packet)
    BY DEF IInv, TypeOK
  <2>2. PICK i \in 1 .. Len(fifo[k]) : fifo[k][i] = x
    BY <1>3 DEF Holds
  <2>3. i \in DOMAIN fifo[k]
    BY <2>1, <2>2, LenProperties
  <2>4. x \in Pending
    BY <2>2, <2>3 DEF Pending
  <2> QED  BY <1>1, <2>4 DEF TimedOut
<1>4. Pkt("PING", u, GW, 1).type = "PING"
  BY DEF Pkt
<1>5. ASSUME NEW k \in All, NEW x \in Packet, Holds(fifo', k, x)
      PROVE  /\ ~ (x.type = "PONG" /\ x.dest = u)
             /\ x.type = "PING" /\ x.sender = u => k \in S
  <2>1. CASE Holds(fifo, k, x)
    BY <1>3, <2>1
  <2>2. CASE k = parent[u] /\ x = Pkt("PING", u, GW, 1)
    BY <1>4, <2>2
  <2> QED  BY <1>2, <1>5, <2>1, <2>2
<1> QED  BY <1>2, <1>5 DEF Deaf, Holds

\* A node that waits in vain in a circle goes on doing so, unless it leaves it.
LEMMA DeafStays ==
  ASSUME IInv, StepOK, NEW S \in SUBSET Nodes, Cut(S),
         NEW u \in S, Deaf(u, S), Up(u)', parent'[u] \in S
  PROVE  Deaf(u, S)'
<1>1. u \in Nodes /\ u \in All /\ state[u] = "stUplink" /\ pingResponse[u] = Invalid
  BY AllFacts DEF Deaf
<1>2. \A k \in All, x \in Packet : Holds(fifo, k, x) =>
        /\ ~ (x.type = "PONG" /\ x.dest = u)
        /\ x.type = "PING" /\ x.sender = u => k \in S
  BY DEF Deaf
<1>3. state'[u] = "stUplink" /\ pingResponse'[u] = Invalid
  <2>1. Moves(u) /\ state'[u] # "stParent"
    BY <1>1 DEF StepOK, Up
  <2>2. ~ StParentFound(u)
    BY <1>1 DEF StParentFound
  <2> QED  BY <1>1, <1>2, <2>1, <2>2 DEF Moves
<1>4. ASSUME NEW k \in All, NEW x \in Packet, Holds(fifo', k, x)
      PROVE  /\ ~ (x.type = "PONG" /\ x.dest = u)
             /\ x.type = "PING" /\ x.sender = u => k \in S
  <2>1. Origin(k, x)
    BY <1>4 DEF StepOK
  <2>2. ASSUME x.type = "PONG", x.dest = u PROVE FALSE
    <3>1. CASE Holds(fifo, k, x)
      BY <1>2, <2>2, <3>1
    <3>2. ASSUME NEW m \in All, NEW y \in Packet, Holds(fifo, m, y),
                 y.type = "PONG", y.dest = x.dest
          PROVE  FALSE
      BY <1>2, <2>2, <3>2
    <3>3. ASSUME NEW y \in Packet, Holds(fifo, GW, y), y.type = "PING",
                 y.sender = x.dest
          PROVE  FALSE
      BY <1>2, <2>2, <3>3, AllFacts
    <3> QED  BY <2>1, <2>2, <3>1, <3>2, <3>3 DEF Origin
  <2>3. ASSUME x.type = "PING", x.sender = u PROVE k \in S
    <3>1. CASE Holds(fifo, k, x)
      BY <1>2, <2>3, <3>1
    <3>2. CASE k = parent'[x.sender]
      BY <2>3, <3>2
    <3>3. ASSUME NEW m \in Nodes, NEW y \in Packet, Holds(fifo, m, y),
                 y.type = "PING", y.sender = x.sender, k = parent[m]
          PROVE  k \in S
      <4>1. m \in S
        BY <1>2, <2>3, <3>3, AllFacts
      <4> QED  BY <4>1, <3>3 DEF Cut
    <3> QED  BY <2>1, <2>3, <3>1, <3>2, <3>3 DEF Origin
  <2> QED  BY <2>2, <2>3
<1> QED  BY <1>3, <1>4 DEF Deaf, Holds

LEMMA NextCircle ==
  ASSUME Timely, IInv, CircleInv, [Next]_vars
  PROVE  CircleInv'
<1> SUFFICES ASSUME NEW S \in SUBSET Nodes, Cut(S)', \A n \in S : Up(n)'
             PROVE  \E u \in S : Deaf(u, S)'
  BY DEF CircleInv
<1>1. StepOK
  BY NextOK
<1>2. CASE \E u \in S : StParentFound(u)
  <2>1. PICK u \in S : StParentFound(u)
    BY <1>2
  <2>2. parent[u] \in S
    BY <2>1 DEF StParentFound, Cut
  <2> QED  BY <2>1, <2>2, FoundIsDeaf
<1>3. CASE \A u \in S : ~ StParentFound(u)
  <2>1. ASSUME NEW n \in S
        PROVE  Up(n) /\ parent'[n] = parent[n]
    <3>1. Moves(n) /\ ~ StParentFound(n) /\ state'[n] # "stParent"
          /\ state'[n] \in {"stUplink", "stReady"}
      BY <1>1, <1>3 DEF StepOK, Up
    <3> QED  BY <3>1 DEF Moves, Up
  <2>2. Cut(S)
    BY <2>1 DEF Cut
  <2>3. PICK u \in S : Deaf(u, S)
    BY <2>1, <2>2 DEF CircleInv
  <2>4. parent'[u] \in S
    BY DEF Cut
  <2> QED  BY <1>1, <2>2, <2>3, <2>4, DeafStays
<1> QED  BY <1>2, <1>3

\* transportPingNode() of MyTransport.cpp: the uplink check before a node is
\* ready keeps nodes from forming a circle in which all of them are ready, and
\* none would ever notice - in every network, however many links fail, as long
\* as the 2 s for an answer outlast the packets of a request.
THEOREM ReadyNodesReachUpwards ==
  ASSUME Timely
  PROVE  Spec => []NoReadyCircle
<1>1. Init => CircleInv
  BY InitCircle
<1>2. IInv /\ CircleInv /\ [Next]_vars => CircleInv'
  BY NextCircle
<1>3. CircleInv => NoReadyCircle
  <2> SUFFICES ASSUME CircleInv, NEW S \in SUBSET Nodes, Cut(S),
                      \A n \in S : state[n] = "stReady"
               PROVE  FALSE
    BY DEF NoReadyCircle
  <2>1. PICK u \in S : Deaf(u, S)
    BY DEF CircleInv, Up
  <2> QED  BY <2>1 DEF Deaf
<1> QED  BY <1>1, <1>2, <1>3, InductiveInvariant, PTL DEF Spec

-----------------------------------------------------------------------------
(* Pings get nearer to where they end *)

\* S holds the parents of its nodes that are ready.
Closed(S) ==
  \A n \in S \cap Nodes : state[n] = "stReady" => parent[n] \in S

\* Way(m) is the smallest closed set around m.
LEMMA WayFacts ==
  ASSUME IInv, NEW m \in All
  PROVE  /\ Way(m) \subseteq All /\ m \in Way(m) /\ Closed(Way(m))
         /\ \A S \in SUBSET All : m \in S /\ Closed(S) => Way(m) \subseteq S
<1>1. Way(m) \subseteq All /\ m \in Way(m)
  BY DEF Way
<1>2. \A S \in SUBSET All : m \in S /\ Closed(S) => Way(m) \subseteq S
  BY DEF Way, Closed
<1>3. ASSUME NEW n \in Way(m) \cap Nodes, state[n] = "stReady"
      PROVE  parent[n] \in Way(m)
  <2>1. parent[n] \in All
    BY <1>3 DEF IInv, TypeOK, ParentInv
  <2>2. \A S \in SUBSET All : m \in S /\ Closed(S) => parent[n] \in S
    BY <1>2, <1>3 DEF Closed
  <2> QED  BY <2>1, <2>2 DEF Way, Closed
<1> QED  BY <1>1, <1>2, <1>3 DEF Closed

\* Who lies on the way of a node has no longer way, ...
LEMMA WayInside ==
  ASSUME IInv, NEW m \in All, NEW k \in Way(m)
  PROVE  k \in All /\ Way(k) \subseteq Way(m)
<1>1. Way(m) \subseteq All /\ Closed(Way(m))
  BY WayFacts
<1> QED  BY <1>1, WayFacts

\* ... and a node reaches over its parent all that it reaches.
LEMMA WayStep ==
  ASSUME IInv, NEW n \in Nodes
  PROVE  Way(n) \subseteq {n} \cup (IF state[n] = "stReady" THEN Way(parent[n]) ELSE {})
<1>1. n \in All
  BY AllFacts
<1>2. CASE state[n] = "stReady"
  <2>1. parent[n] \in All
    BY <1>2 DEF IInv, TypeOK, ParentInv
  <2>2. /\ Way(parent[n]) \subseteq All /\ parent[n] \in Way(parent[n])
        /\ Closed(Way(parent[n]))
    BY <2>1, WayFacts
  <2>3. Closed({n} \cup Way(parent[n])) /\ {n} \cup Way(parent[n]) \in SUBSET All
    BY <1>1, <2>2 DEF Closed
  <2> QED  BY <1>1, <1>2, <2>3, WayFacts
<1>3. CASE state[n] # "stReady"
  <2>1. Closed({n}) /\ {n} \in SUBSET All
    BY <1>1, <1>3 DEF Closed
  <2> QED  BY <1>1, <1>3, <2>1, WayFacts
<1> QED  BY <1>2, <1>3

\* A way that came back to its beginning would be a circle of ready nodes.
LEMMA NoWayBack ==
  ASSUME IInv, NoReadyCircle, NEW n \in Nodes, state[n] = "stReady"
  PROVE  parent[n] \in All /\ Way(parent[n]) \subseteq Way(n) \ {n}
<1> DEFINE C == {k \in Way(n) \cap Nodes : n \in Way(k)}
<1>1. n \in All /\ GW \in All /\ Nodes \subseteq All /\ parent[n] \in All
  BY AllFacts DEF IInv, TypeOK, ParentInv
<1>2. Way(n) \subseteq All /\ n \in Way(n) /\ Closed(Way(n))
  BY <1>1, WayFacts
<1>3. parent[n] \in Way(n)
  BY <1>2 DEF Closed
<1>4. Way(parent[n]) \subseteq Way(n)
  BY <1>1, <1>3, WayInside
<1>5. ASSUME n \in Way(parent[n]) PROVE FALSE
  <2>1. ASSUME NEW k \in C
        PROVE  state[k] = "stReady" /\ parent[k] \in C
    <3>1. k \in Nodes /\ k \in Way(n) /\ n \in Way(k)
      OBVIOUS
    <3>2. state[k] = "stReady"
      BY <3>1, WayStep
    <3>3. n \in Way(parent[k])
      BY <1>5, <3>1, <3>2, WayStep
    <3>4. parent[k] \in Way(n)
      BY <1>2, <3>1, <3>2 DEF Closed
    <3>5. parent[k] \in Nodes
      <4>1. Closed({GW}) /\ {GW} \in SUBSET All
        BY <1>1, AllFacts DEF Closed
      <4>2. Way(GW) \subseteq {GW}
        BY <1>1, <4>1, WayFacts
      <4> QED  BY <1>2, <3>3, <3>4, <4>2, AllFacts DEF All
    <3> QED  BY <3>2, <3>3, <3>4, <3>5
  <2>2. n \in C
    BY <1>2
  <2>3. Cut(C) /\ C \in SUBSET Nodes
    BY <2>1, <2>2 DEF Cut
  <2> QED  BY <2>1, <2>3 DEF NoReadyCircle
<1> QED  BY <1>1, <1>4, <1>5

\* A transmission adds at most one packet, in the FIFO of its receiver.
LEMMA OnlyTheReceiver ==
  ASSUME NEW m, NEW to, NEW p, NEW q \in Fifos, Transmit(m, to, p, q),
         NEW k \in All, Len(fifo'[k]) > Len(q[k])
  PROVE  k = to
<1> SUFFICES ASSUME k # to PROVE FALSE
  OBVIOUS
<1>1. fifo'[k] = q[k]
  BY DEF Transmit, Fifos
<1>2. Len(q[k]) \in Nat
  BY LenProperties DEF Fifos
<1> QED  BY <1>1, <1>2

\* Relay of MyTransport.cpp: however late a ping comes to a node, and whatever
\* has happened to the parents since it was sent, the node sends it on over its
\* parent, from where it does not come back unless a parent changes again.
THEOREM PingsDoNotComeBack ==
  ASSUME Timely
  PROVE  Spec => PingsMoveOn
<1> DEFINE Step ==
      \A n \in Nodes : LET p == Head(fifo[n])
                       IN  fifo[n] # <<>> /\ p.type = "PING" /\ Relay(n, p) =>
                             \A m \in All : Len(fifo'[m]) > Len(Rest(n)[m]) =>
                               Way(m) \subseteq Way(n) \ {n}
<1>1. ASSUME IInv, NoReadyCircle PROVE Step
  <2> SUFFICES ASSUME NEW n \in Nodes, NEW p, p = Head(fifo[n]),
                      fifo[n] # <<>>, p.type = "PING", Relay(n, p),
                      NEW m \in All, Len(fifo'[m]) > Len(Rest(n)[m])
               PROVE  Way(m) \subseteq Way(n) \ {n}
    OBVIOUS
  <2>1. n \in All /\ n # GW /\ fifo \in Fifos
    BY <1>1, AllFacts DEF IInv, TypeOK, Fifos
  <2>2. Rest(n) \in Fifos /\ p \in Packet /\ Holds(fifo, n, p)
    BY <2>1, RestHolds
  <2>3. p.dest = GW
    BY <1>1, <2>1, <2>2 DEF IInv, PacketsInv, PacketInv
  <2>4. CASE state[n] # "stReady"
    <3>1. fifo' = Rest(n)
      BY <2>1, <2>4 DEF Relay, Drop
    <3>2. Len(Rest(n)[m]) \in Nat
      BY <2>2, LenProperties DEF Fifos
    <3> QED  BY <3>1, <3>2
  <2>5. CASE state[n] = "stReady"
    <3>1. Forward(n, p) /\ NextHop(n, p.dest, p.last, route') = parent[n]
      BY <2>1, <2>3, <2>5 DEF Relay, NextHop
    <3>2. Transmit(n, parent[n], [p EXCEPT !.last = n, !.value = Hops(p)], Rest(n))
      BY <3>1 DEF Forward
    <3>3. m = parent[n]
      BY <2>2, <3>2, OnlyTheReceiver
    <3> QED  BY <1>1, <2>5, <3>3, NoWayBack
  <2> QED  BY <2>4, <2>5
<1>2. IInv /\ NoReadyCircle => [Step]_vars
  BY <1>1
<1> QED
  BY <1>2, InductiveInvariant, ReadyNodesReachUpwards, PTL DEF Spec, PingsMoveOn
=============================================================================
