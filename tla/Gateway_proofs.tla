--------------------------- MODULE Gateway_proofs ---------------------------
(***************************************************************************)
(* Proofs about Gateway, for every number of slots, of connections and of  *)
(* lines, and every length of the buffer.                                  *)
(***************************************************************************)
EXTENDS MCGateway, SequenceTheorems, TLAPS

USE DEF Nobody

LEMMA TextType ==
  ASSUME NEW n \in Nat, NEW k \in Nat \ {0}, NEW length \in Nat, k =< length + 1
  PROVE  /\ Text(n, k, length) \in Seq(Bytes)
         /\ Len(Text(n, k, length)) = length - k + 1
         /\ \A j \in 1 .. length - k + 1 :
              Text(n, k, length)[j] = [line |-> n, place |-> k + j - 1]
<1> DEFINE m == length - k + 1
<1>1. m \in Nat
  OBVIOUS
<1>2. \A j \in 1 .. m : [line |-> n, place |-> k + j - 1] \in Bytes
  BY DEF Bytes
<1>3. [j \in 1 .. m |-> [line |-> n, place |-> k + j - 1]] \in Seq(Bytes)
  BY <1>1, <1>2, IsASeq
<1> QED
  BY <1>1, <1>3 DEF Text

-----------------------------------------------------------------------------
(* Type correctness *)

LEMMA TypeInit == Init => TypeOK
<1> SUFFICES ASSUME Init PROVE TypeOK
  OBVIOUS
<1>1. << >> \in Seq(Bytes) /\ << >> \in Seq(Lines) /\ << >> \in Seq(Nat)
  OBVIOUS
<1> QED
  BY <1>1, GatewayAssumption, GatewayBoundAssumption
  DEF Init, TypeOK, Stages, Slots, Connections, Modes

LEMMA LineType ==
  ASSUME TypeOK, NEW n \in 1 .. Len(lines)
  PROVE  /\ n \in Nat \ {0} /\ lines[n] \in Lines
         /\ lines[n].conn \in Connections /\ lines[n].length \in Nat \ {0}
<1>1. lines \in Seq(Lines)
  BY DEF TypeOK
<1>2. Len(lines) \in Nat /\ \A j \in 1 .. Len(lines) : lines[j] \in Lines
  BY <1>1, ElementOfSeq, LenProperties
<1>3. lines[n] \in Lines
  BY <1>2
<1>4. lines[n].conn \in Connections /\ lines[n].length \in Lengths
  BY <1>3 DEF Lines
<1>5. lines[n].length \in Nat \ {0}
  BY <1>4, GatewayAssumption
<1>6. n \in Nat \ {0}
  BY <1>2
<1> QED
  BY <1>3, <1>4, <1>5, <1>6

LEMMA SetModeType ==
  ASSUME TypeOK, NEW mode \in {"on", "off"}, SetMode(mode)
  PROVE  /\ inclusionMode' \in {"on", "off"} /\ inclusionAge' \in 0 .. Duration + 1
         /\ told' \in [Connections -> Modes]
BY GatewayAssumption DEF TypeOK, SetMode, Modes

LEMMA NextSlotType ==
  ASSUME TypeOK, NEW after \in Stages, NextSlot(after)
  PROVE  stage' \in Stages /\ at' \in Slots
BY GatewayAssumption DEF TypeOK, NextSlot, Slots

\* The slot at hand has a byte to read.
LEMMA ReadableType ==
  ASSUME TypeOK, Readable
  PROVE  /\ at \in Slots /\ clients[at] \in Connections
         /\ wire[clients[at]] \in Seq(Bytes) /\ wire[clients[at]] # << >>
         /\ Char \in Bytes /\ Char = wire[clients[at]][1]
         /\ Tail(wire[clients[at]]) \in Seq(Bytes)
         /\ Take => wire' = [wire EXCEPT ![clients[at]] = Tail(wire[clients[at]])]
         /\ Take => wire' \in [Connections -> Seq(Bytes)]
<1>1. at \in Slots /\ clients[at] \in Connections
  BY DEF TypeOK, Readable, Connections
<1>2. wire[clients[at]] \in Seq(Bytes) /\ wire[clients[at]] # << >>
  BY <1>1 DEF TypeOK, Readable
<1>3. Head(wire[clients[at]]) \in Bytes /\ Tail(wire[clients[at]]) \in Seq(Bytes)
      /\ Head(wire[clients[at]]) = wire[clients[at]][1]
  BY <1>2
<1>4. Take => wire' = [wire EXCEPT ![clients[at]] = Tail(wire[clients[at]])]
  BY DEF Take
<1> QED
  BY <1>1, <1>2, <1>3, <1>4 DEF Char, TypeOK

LEMMA TypeNext == TypeOK /\ [Next]_vars => TypeOK'
<1> SUFFICES ASSUME TypeOK, [Next]_vars PROVE TypeOK'
  OBVIOUS
<1> USE DEF pass, slotVars, inclusion, server, sender
<1>1. CASE Connect
  BY <1>1, GatewayBoundAssumption DEF Connect, TypeOK, Connections
<1>2. ASSUME NEW c \in Connections, Close(c) PROVE TypeOK'
  BY <1>2 DEF Close, TypeOK
<1>3. ASSUME NEW c \in Connections, StartLine(c) PROVE TypeOK'
  <2>1. PICK length \in Lengths : lines' = Append(lines, [conn |-> c, length |-> length])
    BY <1>3 DEF StartLine
  <2>2. lines' \in Seq(Lines)
    BY <2>1 DEF TypeOK, Lines
  <2>3. [line |-> Len(lines) + 1, place |-> 1] \in Bytes
    BY DEF TypeOK, Bytes
  <2>4. wire' \in [Connections -> Seq(Bytes)]
    BY <1>3, <2>3 DEF StartLine, TypeOK
  <2> QED
    BY <1>3, <2>2, <2>4 DEF StartLine, TypeOK
<1>4. ASSUME NEW c \in Connections, EndLine(c) PROVE TypeOK'
  <2>1. PICK n \in 1 .. Len(lines) :
          wire' = [wire EXCEPT ![c] = Append(wire[c] \o Text(n, 2, lines[n].length), Newline(n))]
    BY <1>4 DEF EndLine
  <2>2. n \in Nat /\ lines[n] \in Lines /\ lines[n].length \in Nat \ {0}
    BY LineType
  <2>3. Text(n, 2, lines[n].length) \in Seq(Bytes)
    <3>1. 2 \in Nat \ {0} /\ lines[n].length \in Nat /\ 2 =< lines[n].length + 1
      BY <2>2
    <3> QED
      BY <2>2, <3>1, TextType
  <2>4. Newline(n) \in Bytes
    BY <2>2 DEF Newline, Bytes
  <2>5. Append(wire[c] \o Text(n, 2, lines[n].length), Newline(n)) \in Seq(Bytes)
    BY <2>3, <2>4 DEF TypeOK
  <2>6. wire' \in [Connections -> Seq(Bytes)]
    BY <2>1, <2>5 DEF TypeOK
  <2>7. /\ partial' = [partial EXCEPT ![c] = FALSE]
        /\ UNCHANGED <<pass, slotVars, inputString, msg, inclusion, server, open,
                       lines, handed>>
    BY <1>4 DEF EndLine
  <2> QED
    BY <2>6, <2>7 DEF TypeOK
<1>5. CASE InclusionProcess
  <2>1. /\ inclusionMode' \in {"on", "off"} /\ inclusionAge' \in 0 .. Duration + 1
        /\ told' \in [Connections -> Modes]
    BY <1>5, SetModeType DEF InclusionProcess, TypeOK
  <2> QED
    BY <1>5, <2>1, GatewayAssumption DEF InclusionProcess, TypeOK, Stages, Slots
<1>6. CASE CheckSlot
  <2>1. ClientOf(at) \in Connections \cup {Nobody}
    BY GatewayBoundAssumption DEF ClientOf, HasClient, TypeOK, Connections
  <2>2. Connected(ClientOf(at)) \in BOOLEAN
    BY <2>1 DEF Connected, TypeOK
  <2>3. clients' \in [Slots -> Connections \cup {Nobody}]
        /\ clientsConnected' \in [Slots -> BOOLEAN]
    BY <1>6, <2>1, <2>2 DEF CheckSlot, TypeOK
  <2>4. claimed' \in 0 .. arrived
    BY <1>6 DEF CheckSlot, TypeOK, HasClient
  <2>5. inputString' \in [Slots -> Seq(Bytes)]
        /\ \A i \in Slots : Len(inputString'[i]) < MaxLength
    <3>1. << >> \in Seq(Bytes) /\ Len(<< >>) = 0
      OBVIOUS
    <3>2. CASE inputString' = inputString
      BY <3>2 DEF TypeOK
    <3>3. CASE inputString' = [inputString EXCEPT ![at] = << >>]
      BY <3>1, <3>3, GatewayAssumption DEF TypeOK
    <3> QED
      BY <1>6, <3>2, <3>3 DEF CheckSlot
  <2>6. stage' \in Stages /\ at' \in Slots
    BY <1>6, NextSlotType DEF CheckSlot, Stages
  <2> QED
    BY <1>6, <2>3, <2>4, <2>5, <2>6 DEF CheckSlot, TypeOK
<1>7. CASE Reject
  <2>1. /\ claimed' \in 0 .. arrived /\ rejected' \subseteq Connections
        /\ open' \in [Connections -> BOOLEAN]
    <3>1. CASE UNCHANGED <<claimed, rejected, open>>
      BY <3>1 DEF TypeOK
    <3>2. CASE /\ HasClient /\ claimed' = claimed + 1
               /\ rejected' = rejected \cup {claimed + 1}
               /\ open' = [open EXCEPT ![claimed + 1] = FALSE]
      BY <3>2, GatewayBoundAssumption DEF TypeOK, HasClient, Connections
    <3> QED
      BY <1>7, <3>1, <3>2 DEF Reject
  <2>2. stage' \in Stages /\ at' \in Slots
    BY <1>7, GatewayAssumption DEF Reject, Stages, Slots
  <2> QED
    BY <1>7, <2>1, <2>2 DEF Reject, TypeOK
<1>8. CASE ReadCharacter
  <2>1. Readable /\ Take
    BY <1>8 DEF ReadCharacter
  <2>2. inputString[at] \in Seq(Bytes) /\ Len(inputString[at]) < MaxLength - 1
        /\ Len(inputString[at]) \in Nat
    BY <1>8, <2>1, ReadableType DEF ReadCharacter, TypeOK
  <2>3. /\ Append(inputString[at], Char) \in Seq(Bytes)
        /\ Len(Append(inputString[at], Char)) = Len(inputString[at]) + 1
    BY <2>1, <2>2, ReadableType
  <2>4. inputString' \in [Slots -> Seq(Bytes)]
        /\ \A i \in Slots : Len(inputString'[i]) < MaxLength
    <3>1. Len(Append(inputString[at], Char)) < MaxLength
      BY <2>2, <2>3, GatewayAssumption
    <3>2. inputString' = [inputString EXCEPT ![at] = Append(inputString[at], Char)]
      BY <1>8 DEF ReadCharacter
    <3> QED
      BY <2>3, <3>1, <3>2 DEF TypeOK
  <2> QED
    BY <1>8, <2>1, <2>4, ReadableType DEF ReadCharacter, TypeOK
<1>9. CASE ReadNewline
  <2>1. wire' \in [Connections -> Seq(Bytes)]
    BY <1>9, ReadableType DEF ReadNewline
  <2>2. inputString' \in [Slots -> Seq(Bytes)]
        /\ \A i \in Slots : Len(inputString'[i]) < MaxLength
    BY <1>9, GatewayAssumption DEF ReadNewline, TypeOK
  <2> QED
    BY <1>9, <2>1, <2>2 DEF ReadNewline, TypeOK, Stages
<1>10. CASE ReadTooLong
  <2>1. wire' \in [Connections -> Seq(Bytes)]
    BY <1>10, ReadableType DEF ReadTooLong
  <2>2. inputString' \in [Slots -> Seq(Bytes)]
        /\ \A i \in Slots : Len(inputString'[i]) < MaxLength
    BY <1>10, GatewayAssumption DEF ReadTooLong, TypeOK
  <2>3. stage' \in Stages /\ at' \in Slots
    BY <1>10, NextSlotType DEF ReadTooLong, NextClient, Stages
  <2> QED
    BY <1>10, <2>1, <2>2, <2>3 DEF ReadTooLong, TypeOK
<1>11. CASE ReadNothing
  <2>1. stage' \in Stages /\ at' \in Slots
    BY <1>11, NextSlotType DEF ReadNothing, NextClient, Stages
  <2> QED
    BY <1>11, <2>1 DEF ReadNothing, TypeOK
<1>12. CASE Handle
  <2>1. /\ inclusionMode' \in {"on", "off"} /\ inclusionAge' \in 0 .. Duration + 1
        /\ told' \in [Connections -> Modes]
    BY <1>12, SetModeType DEF Handle, TypeOK
  <2>2. IsWhole(msg) => msg[1].line \in Nat
    <3> SUFFICES ASSUME IsWhole(msg) PROVE msg[1].line \in Nat
      OBVIOUS
    <3>1. PICK n \in 1 .. Len(lines) : msg = Text(n, 1, lines[n].length)
      BY DEF IsWhole
    <3>2. n \in Nat /\ lines[n].length \in Nat \ {0}
      BY LineType
    <3>3. msg[1] = [line |-> n, place |-> 1]
      <4>1. 1 \in Nat \ {0} /\ lines[n].length \in Nat /\ 1 =< lines[n].length + 1
        BY <3>2
      <4>2. 1 \in 1 .. lines[n].length - 1 + 1
        BY <3>2
      <4>3. Text(n, 1, lines[n].length)[1] = [line |-> n, place |-> 1 + 1 - 1]
        BY ZenonT(40), <3>2, <4>1, <4>2, TextType
      <4> QED
        BY <3>1, <4>3
    <3> QED
      BY <3>2, <3>3
  <2>3. handed' \in Seq(Nat)
    BY <1>12, <2>2 DEF Handle, TypeOK
  <2> QED
    BY <1>12, <2>1, <2>3, GatewayAssumption DEF Handle, TypeOK, Stages, Slots
<1>13. CASE Tick
  BY <1>13, GatewayAssumption DEF Tick, TypeOK
<1>14. CASE UNCHANGED vars
  BY <1>14 DEF vars, TypeOK
<1> QED
  BY <1>1, <1>2, <1>3, <1>4, <1>5, <1>6, <1>7, <1>8, <1>9, <1>10, <1>11, <1>12,
     <1>13, <1>14
  DEF Next, Controller, Process

\* Buffers and counters stay within their sizes: no line is longer than its
\* buffer, with room for the 0 byte (_readFromClient).
THEOREM TypeCorrect == Spec => []TypeOK
<1> QED
  BY TypeInit, TypeNext, PTL DEF Spec

-----------------------------------------------------------------------------
(* Slots, and what their clients were told *)

\* A connection is in one slot at most, and only after it was taken.
SlotInv ==
  /\ \A i \in Slots : clients[i] =< claimed
  /\ \A i, j \in Slots : clients[i] = clients[j] /\ clients[i] # Nobody => i = j

\* Who was told a mode keeps its slot as long as it is connected.
ToldInv ==
  /\ \A c \in Connections : told[c] # "nothing" => c =< claimed
  /\ \A c \in Connections : open[c] /\ told[c] # "nothing" =>
       told[c] = inclusionMode /\ \E i \in Slots : clients[i] = c

LEMMA SlotInit == Init => SlotInv /\ ToldInv
BY DEF Init, SlotInv, ToldInv

LEMMA SetModeTold ==
  ASSUME TypeOK, SlotInv, ToldInv, NEW mode \in {"on", "off"}, SetMode(mode),
         UNCHANGED <<clients, claimed, open>>
  PROVE  ToldInv'
<1>1. CASE mode = inclusionMode
  BY <1>1 DEF SetMode, ToldInv
<1>2. CASE mode # inclusionMode
  <2>1. \A c \in Connections : told'[c] = IF c \in Served THEN mode ELSE told[c]
    BY <1>2 DEF SetMode
  <2>2. \A c \in Served : c \in Connections /\ \E i \in Slots : clients[i] = c
    BY DEF Served
  <2>3. \A c \in Served : c =< claimed
    BY <2>2 DEF SlotInv
  <2>4. ASSUME NEW c \in Connections, open[c], told[c] # "nothing"
        PROVE  c \in Served
    BY <2>4 DEF ToldInv, Served, Connected, Connections
  <2>5. inclusionMode' = mode
    BY DEF SetMode
  <2> QED
    BY <2>1, <2>2, <2>3, <2>4, <2>5 DEF ToldInv
<1> QED
  BY <1>1, <1>2

LEMMA SlotNext == TypeOK /\ SlotInv /\ ToldInv /\ [Next]_vars => (SlotInv /\ ToldInv)'
<1> SUFFICES ASSUME TypeOK, SlotInv, ToldInv, [Next]_vars PROVE SlotInv' /\ ToldInv'
  OBVIOUS
<1> USE DEF pass, slotVars, inclusion, server, sender
<1>1. CASE Connect
  <2>1. \A c \in Connections : told[c] # "nothing" => c # arrived + 1
    BY DEF ToldInv, TypeOK, Connections
  <2>2. \A c \in Connections : open'[c] /\ told[c] # "nothing" => open[c]
    BY <1>1, <2>1 DEF Connect, TypeOK
  <2> QED
    BY <1>1, <2>2 DEF Connect, SlotInv, ToldInv
<1>2. ASSUME NEW c \in Connections, Close(c) PROVE SlotInv' /\ ToldInv'
  BY <1>2 DEF Close, SlotInv, ToldInv, TypeOK
<1>3. ASSUME NEW c \in Connections, StartLine(c) PROVE SlotInv' /\ ToldInv'
  <2>1. UNCHANGED <<clients, claimed, open, told, inclusionMode>>
    BY <1>3 DEF StartLine
  <2> QED
    BY <2>1 DEF SlotInv, ToldInv
<1>4. ASSUME NEW c \in Connections, EndLine(c) PROVE SlotInv' /\ ToldInv'
  <2>1. UNCHANGED <<clients, claimed, open, told, inclusionMode>>
    BY <1>4 DEF EndLine
  <2> QED
    BY <2>1 DEF SlotInv, ToldInv
<1>5. CASE InclusionProcess
  <2>1. UNCHANGED <<clients, claimed, open>>
    BY <1>5 DEF InclusionProcess
  <2>2. SlotInv'
    BY <2>1 DEF SlotInv
  <2>3. CASE UNCHANGED inclusion
    <3>1. UNCHANGED <<told, inclusionMode>>
      BY <2>3
    <3> QED
      BY <2>1, <2>2, <3>1 DEF ToldInv
  <2>4. CASE SetMode("off")
    <3>1. "off" \in {"on", "off"}
      OBVIOUS
    <3> QED
      BY <2>1, <2>2, <2>4, <3>1, SetModeTold
  <2> QED
    BY <1>5, <2>2, <2>3, <2>4 DEF InclusionProcess
<1>6. CASE CheckSlot
  <2>1. at \in Slots /\ clients' = [clients EXCEPT ![at] = ClientOf(at)]
        /\ UNCHANGED <<told, inclusionMode, open>>
    BY <1>6 DEF CheckSlot, TypeOK
  <2>2. clients \in [Slots -> Connections \cup {Nobody}] /\ claimed \in Nat
    BY DEF TypeOK
  <2>3. \/ ClientOf(at) = clients[at] /\ claimed' = claimed
        \/ ~ Connected(clients[at]) /\ ClientOf(at) = Nobody /\ claimed' = claimed
        \/ ~ Connected(clients[at]) /\ ClientOf(at) = claimed + 1 /\ claimed' = claimed + 1
    BY <1>6 DEF CheckSlot, ClientOf, HasClient
  <2>4. \A i \in Slots : clients'[i] = IF i = at THEN ClientOf(at) ELSE clients[i]
    BY <2>1, <2>2
  <2>5. SlotInv'
    BY <2>2, <2>3, <2>4 DEF SlotInv, Connections
  <2>6. \A c \in Connections : told[c] # "nothing" => c =< claimed'
    BY <2>2, <2>3 DEF ToldInv, Connections
  <2>7. ASSUME NEW c \in Connections, open[c], told[c] # "nothing"
        PROVE  told[c] = inclusionMode /\ \E i \in Slots : clients'[i] = c
    <3>1. told[c] = inclusionMode
      BY <2>7 DEF ToldInv
    <3>2. PICK i \in Slots : clients[i] = c
      BY <2>7 DEF ToldInv
    <3>3. Connected(clients[i])
      BY <2>7, <3>2 DEF Connected, Connections
    <3>4. clients'[i] = c
      BY <2>3, <2>4, <3>2, <3>3
    <3> QED
      BY <3>1, <3>4
  <2> QED
    BY <2>1, <2>5, <2>6, <2>7 DEF ToldInv
<1>7. CASE Reject
  <2>1. UNCHANGED <<clients, told, inclusionMode>>
    BY <1>7 DEF Reject
  <2>2. claimed' \in Nat /\ claimed =< claimed'
    BY <1>7 DEF Reject, TypeOK
  <2>3. \A c \in Connections : open'[c] => open[c]
    BY <1>7 DEF Reject, TypeOK
  <2>4. clients \in [Slots -> Connections \cup {Nobody}] /\ claimed \in Nat
    BY DEF TypeOK
  <2> QED
    BY <2>1, <2>2, <2>3, <2>4 DEF SlotInv, ToldInv, Connections
<1>8. CASE ReadCharacter \/ ReadNewline \/ ReadTooLong \/ ReadNothing \/ Tick
  <2>1. UNCHANGED <<clients, claimed, open, told, inclusionMode>>
    BY <1>8 DEF ReadCharacter, ReadNewline, ReadTooLong, ReadNothing, Tick
  <2> QED
    BY <2>1 DEF SlotInv, ToldInv
<1>9. CASE Handle
  <2>1. UNCHANGED <<clients, claimed, open>>
    BY <1>9 DEF Handle
  <2>2. SlotInv'
    BY <2>1 DEF SlotInv
  <2>3. CASE UNCHANGED inclusion
    <3>1. UNCHANGED <<told, inclusionMode>>
      BY <2>3
    <3> QED
      BY <2>1, <2>2, <3>1 DEF ToldInv
  <2>4. ASSUME NEW mode \in {"on", "off"}, SetMode(mode) PROVE ToldInv'
    BY <2>1, <2>4, SetModeTold
  <2> QED
    BY <1>9, <2>2, <2>3, <2>4 DEF Handle
<1>10. CASE UNCHANGED vars
  BY <1>10 DEF vars, SlotInv, ToldInv
<1> QED
  BY <1>1, <1>2, <1>3, <1>4, <1>5, <1>6, <1>7, <1>8, <1>9, <1>10
  DEF Next, Controller, Process

\* A controller that is connected knows the inclusion mode it was told last
\* to be the one the gateway is in (inclusionModeSet, gatewayTransportSend).
THEOREM ToldTheMode == Spec => []ToldCurrentMode
<1>1. TypeOK /\ SlotInv /\ ToldInv => ToldCurrentMode
  BY DEF ToldInv, ToldCurrentMode
<1> QED
  BY <1>1, TypeInit, TypeNext, SlotInit, SlotNext, PTL DEF Spec
-----------------------------------------------------------------------------
(* The bytes of a connection *)

\* L are the lines sent.  Byte b is one of connection c; the newline counts as
\* the last character of its line.
ByteOf(L, c, b) ==
  /\ b.line \in 1 .. Len(L) /\ L[b.line].conn = c
  /\ b.place \in 0 .. L[b.line].length

Rank(L, b) == IF b.place = 0 THEN L[b.line].length + 1 ELSE b.place

Before(L, b, d) == b.line < d.line \/ (b.line = d.line /\ Rank(L, b) < Rank(L, d))

\* Byte d follows b on their connection, with nothing between them.
Succ(L, b, d) ==
  IF b.place # 0 THEN d.line = b.line /\ Rank(L, d) = Rank(L, b) + 1
  ELSE /\ d.place = 1 /\ b.line < d.line
       /\ \A m \in b.line + 1 .. d.line - 1 : L[m].conn # L[d.line].conn

\* The line of connection c that was started last
Newest(L, c, n) == L[n].conn = c /\ \A m \in n + 1 .. Len(L) : L[m].conn # c

\* An uninterrupted part of what connection c sends, in order
Stream(L, c, w) ==
  /\ \A i \in 1 .. Len(w) : ByteOf(L, c, w[i])
  /\ \A i \in 1 .. Len(w) - 1 : Succ(L, w[i], w[i + 1])
  /\ \A i, j \in 1 .. Len(w) : i < j => Before(L, w[i], w[j])

LEMMA LineOf ==
  ASSUME NEW L \in Seq(Lines), NEW n \in 1 .. Len(L)
  PROVE  /\ n \in Nat \ {0} /\ L[n].conn \in Connections
         /\ L[n].length \in Nat \ {0}
<1>1. L[n] \in Lines /\ n \in Nat \ {0}
  BY ElementOfSeq, LenProperties
<1>2. L[n].conn \in Connections /\ L[n].length \in Lengths
  BY <1>1 DEF Lines
<1> QED  BY <1>1, <1>2, GatewayAssumption

LEMMA RankType ==
  ASSUME NEW L \in Seq(Lines), NEW c, NEW b \in Bytes, ByteOf(L, c, b)
  PROVE  Rank(L, b) \in Nat \ {0} /\ b.line \in Nat \ {0}
<1>1. L[b.line].length \in Nat \ {0} /\ b.line \in Nat \ {0}
  BY LineOf DEF ByteOf
<1>2. b.place \in Nat
  BY DEF Bytes
<1> QED  BY <1>1, <1>2 DEF Rank

LEMMA SuccBefore ==
  ASSUME NEW L \in Seq(Lines), NEW c, NEW b \in Bytes, NEW d \in Bytes,
         ByteOf(L, c, b), ByteOf(L, c, d), Succ(L, b, d)
  PROVE  Before(L, b, d)
<1>1. Rank(L, b) \in Nat /\ Rank(L, d) \in Nat
  BY RankType
<1> QED  BY <1>1 DEF Succ, Before

LEMMA BeforeTransitive ==
  ASSUME NEW L \in Seq(Lines), NEW c, NEW b \in Bytes, NEW d \in Bytes, NEW e \in Bytes,
         ByteOf(L, c, b), ByteOf(L, c, d), ByteOf(L, c, e),
         Before(L, b, d), Before(L, d, e)
  PROVE  Before(L, b, e)
<1>1. /\ Rank(L, b) \in Nat /\ Rank(L, d) \in Nat /\ Rank(L, e) \in Nat
      /\ b.line \in Nat /\ d.line \in Nat /\ e.line \in Nat
  BY RankType
<1> QED  BY <1>1 DEF Before

\* Lines sent later change nothing about the bytes of the lines before.
LEMMA StreamGrows ==
  ASSUME NEW L \in Seq(Lines), NEW l \in Lines, NEW c, NEW w \in Seq(Bytes),
         Stream(L, c, w)
  PROVE  Stream(Append(L, l), c, w)
<1> DEFINE M == Append(L, l)
<1>1. /\ Len(M) = Len(L) + 1 /\ Len(L) \in Nat
      /\ \A n \in 1 .. Len(L) : M[n] = L[n]
  BY AppendProperties, LenProperties
<1> HIDE DEF M
<1>2. ASSUME NEW i \in 1 .. Len(w)
      PROVE  /\ ByteOf(M, c, w[i]) /\ w[i].line \in 1 .. Len(L)
             /\ M[w[i].line] = L[w[i].line] /\ Rank(M, w[i]) = Rank(L, w[i])
  BY <1>1 DEF Stream, ByteOf, Rank
<1>3. ASSUME NEW i \in 1 .. Len(w) - 1
      PROVE  Succ(M, w[i], w[i + 1])
  <2>1. Len(w) \in Nat /\ i \in 1 .. Len(w) /\ i + 1 \in 1 .. Len(w)
    BY LenProperties
  <2>2. Succ(L, w[i], w[i + 1])
    BY DEF Stream
  <2>3. \A m \in w[i].line + 1 .. w[i + 1].line - 1 : M[m] = L[m]
    <3>1. w[i].line \in 1 .. Len(L) /\ w[i + 1].line \in 1 .. Len(L)
      BY <1>2, <2>1
    <3> QED  BY <1>1, <3>1
  <2>4. /\ Rank(M, w[i]) = Rank(L, w[i]) /\ Rank(M, w[i + 1]) = Rank(L, w[i + 1])
        /\ M[w[i + 1].line] = L[w[i + 1].line]
    BY <1>2, <2>1
  <2> QED  BY <2>2, <2>3, <2>4 DEF Succ
<1>4. \A i, j \in 1 .. Len(w) : i < j => Before(M, w[i], w[j])
  BY <1>2 DEF Stream, Before
<1> QED  BY <1>2, <1>3, <1>4 DEF Stream, M

\* What is left when the first byte has been taken.
LEMMA StreamTail ==
  ASSUME NEW L \in Seq(Lines), NEW c, NEW w \in Seq(Bytes), w # << >>,
         Stream(L, c, w)
  PROVE  /\ Stream(L, c, Tail(w))
         /\ Tail(w) # << >> => Succ(L, w[1], Tail(w)[1])
         /\ \A j \in 1 .. Len(Tail(w)) : Before(L, w[1], Tail(w)[j])
<1>1. /\ Tail(w) \in Seq(Bytes) /\ Len(Tail(w)) = Len(w) - 1
      /\ \A i \in 1 .. Len(Tail(w)) : Tail(w)[i] = w[i + 1]
      /\ Len(w) \in Nat \ {0}
  BY HeadTailProperties, EmptySeq
<1> DEFINE t == Tail(w)
<1> HIDE DEF t
<1>2. \A i \in 1 .. Len(t) : i + 1 \in 1 .. Len(w) /\ t[i] = w[i + 1]
  BY <1>1 DEF t
<1>3. \A i \in 1 .. Len(t) : ByteOf(L, c, t[i]) /\ Before(L, w[1], t[i])
  BY <1>1, <1>2 DEF Stream
<1>4. ASSUME NEW i \in 1 .. Len(t) - 1 PROVE Succ(L, t[i], t[i + 1])
  <2>1. i \in 1 .. Len(t) /\ i + 1 \in 1 .. Len(t) /\ i + 1 \in 1 .. Len(w) - 1
    BY <1>1 DEF t
  <2>2. t[i] = w[i + 1] /\ t[i + 1] = w[i + 1 + 1]
    BY <1>2, <2>1
  <2> QED  BY <2>1, <2>2 DEF Stream
<1>5. ASSUME NEW i \in 1 .. Len(t), NEW j \in 1 .. Len(t), i < j
      PROVE  Before(L, t[i], t[j])
  <2>1. i + 1 \in 1 .. Len(w) /\ j + 1 \in 1 .. Len(w) /\ i + 1 < j + 1
    BY <1>2, <1>5
  <2>2. t[i] = w[i + 1] /\ t[j] = w[j + 1]
    BY <1>2
  <2> QED  BY <2>1, <2>2 DEF Stream
<1>6. ASSUME t # << >> PROVE Succ(L, w[1], t[1])
  <2>1. Len(t) \in Nat \ {0}
    BY <1>1, <1>6, EmptySeq DEF t
  <2>2. 1 \in 1 .. Len(w) - 1 /\ t[1] = w[1 + 1]
    BY <1>1, <1>2, <2>1 DEF t
  <2> QED  BY <2>2 DEF Stream
<1> QED  BY <1>3, <1>4, <1>5, <1>6 DEF Stream, t

\* Two parts of which the second follows the first make one.
LEMMA StreamConcat ==
  ASSUME NEW L \in Seq(Lines), NEW c, NEW w \in Seq(Bytes), NEW t \in Seq(Bytes),
         t # << >>, Stream(L, c, w), Stream(L, c, t),
         w # << >> => Succ(L, w[Len(w)], t[1])
  PROVE  Stream(L, c, w \o t)
<1> DEFINE v == w \o t
<1>1. /\ v \in Seq(Bytes) /\ Len(v) = Len(w) + Len(t)
      /\ \A i \in 1 .. Len(w) + Len(t) : v[i] = IF i <= Len(w) THEN w[i] ELSE t[i - Len(w)]
  BY ConcatProperties
<1>2. Len(w) \in Nat /\ Len(t) \in Nat \ {0}
  BY LenProperties, EmptySeq
<1>3. /\ \A i \in 1 .. Len(w) : v[i] = w[i] /\ w[i] \in Bytes
      /\ \A i \in 1 .. Len(t) : v[Len(w) + i] = t[i] /\ t[i] \in Bytes
  <2>1. ASSUME NEW i \in 1 .. Len(w) PROVE v[i] = w[i] /\ w[i] \in Bytes
    <3>1. i \in 1 .. Len(w) + Len(t) /\ i <= Len(w)
      BY <1>2
    <3> QED  BY <1>1, <3>1, ElementOfSeq
  <2>2. ASSUME NEW i \in 1 .. Len(t) PROVE v[Len(w) + i] = t[i] /\ t[i] \in Bytes
    <3>1. /\ Len(w) + i \in 1 .. Len(w) + Len(t) /\ ~ (Len(w) + i <= Len(w))
          /\ Len(w) + i - Len(w) = i
      BY <1>2
    <3> QED  BY <1>1, <3>1, ElementOfSeq
  <2> QED  BY <2>1, <2>2
<1> HIDE DEF v
<1>4. ASSUME NEW i \in 1 .. Len(v) PROVE ByteOf(L, c, v[i])
  <2>1. CASE i \in 1 .. Len(w)
    BY <1>3, <2>1 DEF Stream
  <2>2. CASE i \notin 1 .. Len(w)
    <3>1. i - Len(w) \in 1 .. Len(t) /\ i = Len(w) + (i - Len(w))
      BY <1>1, <1>2, <2>2
    <3> QED  BY <1>3, <3>1 DEF Stream
  <2> QED  BY <2>1, <2>2
<1>5. ASSUME NEW i \in 1 .. Len(v) - 1 PROVE Succ(L, v[i], v[i + 1])
  <2>1. CASE i \in 1 .. Len(w) - 1
    <3>1. i \in 1 .. Len(w) /\ i + 1 \in 1 .. Len(w)
      BY <1>2, <2>1
    <3> QED  BY <1>3, <2>1, <3>1 DEF Stream
  <2>2. CASE i = Len(w)
    <3>1. w # << >>
      BY <2>2
    <3>2. v[i] = w[Len(w)] /\ v[i + 1] = t[1]
      BY <1>2, <1>3, <2>2
    <3> QED  BY <3>1, <3>2
  <2>3. CASE i > Len(w)
    <3>1. /\ i - Len(w) \in 1 .. Len(t) - 1 /\ i - Len(w) \in 1 .. Len(t)
          /\ i - Len(w) + 1 \in 1 .. Len(t)
          /\ i = Len(w) + (i - Len(w)) /\ i + 1 = Len(w) + (i - Len(w) + 1)
      BY <1>1, <1>2, <2>3
    <3>2. v[i] = t[i - Len(w)] /\ v[i + 1] = t[i - Len(w) + 1]
      BY <1>3, <3>1
    <3> QED  BY <3>1, <3>2 DEF Stream
  <2> QED  BY <1>1, <1>2, <2>1, <2>2, <2>3
<1>6. ASSUME NEW i \in 1 .. Len(w), NEW j \in 1 .. Len(t)
      PROVE  Before(L, w[i], t[j])
  <2>1. w # << >> /\ Len(w) \in 1 .. Len(w) /\ 1 \in 1 .. Len(t)
    BY <1>2
  <2>2. /\ w[i] \in Bytes /\ w[Len(w)] \in Bytes /\ t[1] \in Bytes /\ t[j] \in Bytes
        /\ ByteOf(L, c, w[i]) /\ ByteOf(L, c, w[Len(w)])
        /\ ByteOf(L, c, t[1]) /\ ByteOf(L, c, t[j])
    BY <1>3, <2>1 DEF Stream
  <2>3. Before(L, w[Len(w)], t[1])
    BY <2>1, <2>2, SuccBefore
  <2>4. Before(L, w[i], t[1])
    <3>1. CASE i = Len(w)
      BY <2>3, <3>1
    <3>2. CASE i < Len(w)
      <4>1. Before(L, w[i], w[Len(w)])
        BY <2>1, <3>2 DEF Stream
      <4> QED  BY <2>2, <2>3, <4>1, BeforeTransitive
    <3> QED  BY <1>2, <3>1, <3>2
  <2>5. CASE j = 1
    BY <2>4, <2>5
  <2>6. CASE 1 < j
    <3>1. Before(L, t[1], t[j])
      BY <2>1, <2>6 DEF Stream
    <3> QED  BY <2>2, <2>4, <3>1, BeforeTransitive
  <2> QED  BY <1>2, <2>5, <2>6
<1>7. ASSUME NEW i \in 1 .. Len(v), NEW j \in 1 .. Len(v), i < j
      PROVE  Before(L, v[i], v[j])
  <2>1. CASE j \in 1 .. Len(w)
    <3>1. i \in 1 .. Len(w)
      BY <1>1, <1>2, <1>7, <2>1
    <3> QED  BY <1>3, <1>7, <2>1, <3>1 DEF Stream
  <2>2. CASE i \in 1 .. Len(w) /\ j \notin 1 .. Len(w)
    <3>1. j - Len(w) \in 1 .. Len(t) /\ j = Len(w) + (j - Len(w))
      BY <1>1, <1>2, <2>2
    <3>2. v[i] = w[i] /\ v[j] = t[j - Len(w)]
      BY <1>3, <2>2, <3>1
    <3> QED  BY <1>6, <2>2, <3>1, <3>2
  <2>3. CASE i \notin 1 .. Len(w) /\ j \notin 1 .. Len(w)
    <3>1. /\ i - Len(w) \in 1 .. Len(t) /\ i = Len(w) + (i - Len(w))
          /\ j - Len(w) \in 1 .. Len(t) /\ j = Len(w) + (j - Len(w))
          /\ i - Len(w) < j - Len(w)
      BY <1>1, <1>2, <1>7, <2>3
    <3>2. v[i] = t[i - Len(w)] /\ v[j] = t[j - Len(w)]
      BY <1>3, <3>1
    <3> QED  BY <3>1, <3>2 DEF Stream
  <2>4. i \notin 1 .. Len(w) => j \notin 1 .. Len(w)
    BY <1>1, <1>2, <1>7
  <2> QED  BY <2>1, <2>2, <2>3, <2>4
<1> QED  BY <1>4, <1>5, <1>7 DEF Stream, v

LEMMA SuccGrows ==
  ASSUME NEW L \in Seq(Lines), NEW l \in Lines, NEW b, NEW d,
         b.line \in 1 .. Len(L), d.line \in 1 .. Len(L), Succ(L, b, d)
  PROVE  Succ(Append(L, l), b, d)
<1> DEFINE M == Append(L, l)
<1>1. \A n \in 1 .. Len(L) : M[n] = L[n]
  BY AppendProperties
<1>2. Len(L) \in Nat
  BY LenProperties
<1> HIDE DEF M
<1>3. \A m \in b.line + 1 .. d.line - 1 : M[m] = L[m]
  BY <1>1, <1>2
<1>4. M[b.line] = L[b.line] /\ M[d.line] = L[d.line]
  BY <1>1
<1> QED  BY <1>3, <1>4 DEF Succ, Rank, M

LEMMA ByteFields ==
  ASSUME NEW n, NEW k, NEW b, b = [line |-> n, place |-> k]
  PROVE  b.line = n /\ b.place = k
OBVIOUS

LEMMA TextAppend ==
  ASSUME NEW n \in Nat, NEW k \in Nat \ {0}, NEW m \in Nat, k =< m + 1
  PROVE  Append(Text(n, k, m), [line |-> n, place |-> m + 1]) = Text(n, k, m + 1)
<1> DEFINE s == Text(n, k, m)
           b == [line |-> n, place |-> m + 1]
           t == Text(n, k, m + 1)
<1>1. /\ s \in Seq(Bytes) /\ Len(s) = m - k + 1
      /\ \A j \in 1 .. m - k + 1 : s[j] = [line |-> n, place |-> k + j - 1]
  BY TextType
<1>2. m + 1 \in Nat /\ k =< (m + 1) + 1 /\ (m + 1) - k + 1 = m - k + 2 /\ b \in Bytes
  BY DEF Bytes
<1>3. /\ t \in Seq(Bytes) /\ Len(t) = m - k + 2
      /\ \A j \in 1 .. m - k + 2 : t[j] = [line |-> n, place |-> k + j - 1]
  <2> DEFINE p == m + 1
  <2>1. p \in Nat /\ k =< p + 1 /\ p - k + 1 = m - k + 2
    BY <1>2
  <2> HIDE DEF p
  <2>2. /\ Text(n, k, p) \in Seq(Bytes) /\ Len(Text(n, k, p)) = p - k + 1
        /\ \A j \in 1 .. p - k + 1 : Text(n, k, p)[j] = [line |-> n, place |-> k + j - 1]
    BY <2>1, TextType
  <2> QED  BY <2>1, <2>2 DEF p
<1> HIDE DEF s, t
<1>4. /\ Append(s, b) \in Seq(Bytes) /\ Len(Append(s, b)) = Len(s) + 1
      /\ \A j \in 1 .. Len(s) : Append(s, b)[j] = s[j]
      /\ Append(s, b)[Len(s) + 1] = b
  <2> HIDE DEF b
  <2> QED  BY <1>1, <1>2, AppendProperties
<1>5. ASSUME NEW j \in 1 .. m - k + 2 PROVE Append(s, b)[j] = t[j]
  <2>1. CASE j \in 1 .. m - k + 1
    BY <1>1, <1>3, <1>4, <2>1
  <2>2. CASE j = m - k + 2
    <3>1. k + j - 1 = m + 1 /\ j = Len(s) + 1
      BY <1>1, <2>2
    <3> QED  BY <1>3, <1>4, <3>1
  <2>3. j \in 1 .. m - k + 1 \/ j = m - k + 2
    OBVIOUS
  <2> QED  BY <2>1, <2>2, <2>3
<1>6. Len(Append(s, b)) = Len(t) /\ Len(Append(s, b)) = m - k + 2
  BY <1>1, <1>3, <1>4
<1>7. Append(s, b) = t
  <2> HIDE DEF b
  <2> QED  BY <1>3, <1>4, <1>5, <1>6, SeqEqual
<1> QED  BY <1>7 DEF s, t

-----------------------------------------------------------------------------
(* The invariant of the lines *)

\* What was sent and not read is one part of the stream of its connection, up
\* to the byte sent last.
WireInv ==
  \A c \in Connections :
    /\ Stream(lines, c, wire[c])
    /\ wire[c] # << >> =>
         /\ Newest(lines, c, wire[c][Len(wire[c])].line)
         /\ wire[c][Len(wire[c])].place = IF partial[c] THEN 1 ELSE 0

\* A connection without a slot so far has all its lines ahead.
UnclaimedInv ==
  \A c \in Connections : c > claimed =>
    /\ wire[c] # << >> => wire[c][1].place = 1
    /\ wire[c] = << >> => ~ partial[c]

\* After the newline, or after text that was thrown away, what comes next
\* starts a line, or is the rest of one that does not fit.
Expects(c) ==
  /\ wire[c] # << >> => wire[c][1].place = 1 \/ ~ Fits(wire[c][1].line)
  /\ wire[c] = << >> /\ partial[c] =>
       \E n \in 1 .. Len(lines) : Newest(lines, c, n) /\ ~ Fits(n)

\* After place k of line n comes the next byte of connection c.
Continues(c, n, k) ==
  /\ wire[c] # << >> => Succ(lines, [line |-> n, place |-> k], wire[c][1])
  /\ wire[c] = << >> => partial[c] /\ Newest(lines, c, n) /\ k = 1

\* The buffer of a slot has a part of one line, from its start if it fits.
Collects(c, s) ==
  \E n \in 1 .. Len(lines) : \E k \in 1 .. lines[n].length :
    /\ lines[n].conn = c /\ k + Len(s) - 1 =< lines[n].length
    /\ k > 1 => ~ Fits(n)
    /\ s = Text(n, k, k + Len(s) - 1)
    /\ Continues(c, n, k + Len(s) - 1)

SlotReads(c, s) == IF s = << >> THEN Expects(c) ELSE Collects(c, s)

InputInv ==
  \A i \in Slots : \A c \in Connections \cap {clients[i]}, s \in {inputString[i]} :
    SlotReads(c, s)

\* The newline of line n is still to be read; n is being handled; or it was.
Waits(n) ==
  \/ partial[lines[n].conn] /\ Newest(lines, lines[n].conn, n)
  \/ \E i \in 1 .. Len(wire[lines[n].conn]) : wire[lines[n].conn][i] = Newline(n)
Doing(n) == stage = "handle" /\ msg = Text(n, 1, lines[n].length)
Done(n) == \E j \in 1 .. Len(handed) : handed[j] = n

\* A line that fits is in one of these three states, and the lines of a
\* connection go through them in order.
WaitInv ==
  /\ \A n \in 1 .. Len(lines) : Fits(n) =>
       /\ Waits(n) \/ Doing(n) \/ Done(n)
       /\ ~ (Waits(n) /\ Doing(n)) /\ ~ (Waits(n) /\ Done(n)) /\ ~ (Doing(n) /\ Done(n))
  /\ \A m, n \in 1 .. Len(lines) :
       m < n /\ lines[m].conn = lines[n].conn /\ Waits(m) => Waits(n)

HandedInv ==
  /\ \A j \in 1 .. Len(handed) : handed[j] \in 1 .. Len(lines) /\ Fits(handed[j])
  /\ \A i, j \in 1 .. Len(handed) :
       i < j /\ lines[handed[i]].conn = lines[handed[j]].conn => handed[i] < handed[j]
  /\ \A n \in 1 .. Len(lines) : Doing(n) =>
       /\ Fits(n)
       /\ \A j \in 1 .. Len(handed) :
            lines[handed[j]].conn = lines[n].conn => handed[j] < n

LineInv ==
  WireInv /\ UnclaimedInv /\ InputInv /\ WaitInv /\ HandedInv /\ LinesNotMixed

LEMMA LastUnique ==
  ASSUME TypeOK, NEW c, NEW m \in 1 .. Len(lines), NEW n \in 1 .. Len(lines),
         Newest(lines, c, m), Newest(lines, c, n)
  PROVE  m = n
<1>1. Len(lines) \in Nat
  BY LenProperties DEF TypeOK
<1> QED  BY <1>1 DEF Newest

\* The characters of line n from the second, and its newline
LineRest(L, n) == Append(Text(n, 2, L[n].length), Newline(n))

LEMMA RestOfLine ==
  ASSUME NEW L \in Seq(Lines), NEW n \in 1 .. Len(L)
  PROVE  /\ LineRest(L, n) \in Seq(Bytes) /\ LineRest(L, n) # << >>
         /\ Len(LineRest(L, n)) = L[n].length
         /\ Stream(L, L[n].conn, LineRest(L, n))
         /\ Succ(L, [line |-> n, place |-> 1], LineRest(L, n)[1])
         /\ \A j \in 1 .. L[n].length :
              LineRest(L, n)[j].line = n
              /\ (LineRest(L, n)[j].place = 0 => j = L[n].length)
         /\ LineRest(L, n)[L[n].length] = Newline(n)
<1>a. PICK length \in Nat \ {0} : length = L[n].length
  BY LineOf
<1>b. PICK t : t = LineRest(L, n)
  OBVIOUS
<1>0. /\ length = L[n].length /\ t = LineRest(L, n)
      /\ t = Append(Text(n, 2, length), Newline(n))
  BY <1>a, <1>b DEF LineRest
<1> DEFINE x == Text(n, 2, length)
<1>1. n \in Nat \ {0}
  BY LineOf
<1>2. n \in Nat /\ 2 \in Nat \ {0} /\ length \in Nat /\ 2 =< length + 1
  BY <1>1
<1>3. /\ x \in Seq(Bytes) /\ Len(x) = length - 2 + 1
      /\ \A j \in 1 .. length - 2 + 1 : x[j] = [line |-> n, place |-> 2 + j - 1]
  BY <1>2, TextType
<1> HIDE DEF x
<1>4. Newline(n) \in Bytes
  BY <1>1 DEF Newline, Bytes
<1>5. /\ t \in Seq(Bytes) /\ t # << >> /\ Len(t) = Len(x) + 1
      /\ \A j \in 1 .. Len(x) : t[j] = x[j]
      /\ t[Len(x) + 1] = Newline(n)
  BY <1>0, <1>3, <1>4, AppendProperties DEF x
<1>6. Len(t) = length /\ Len(x) + 1 = length /\ t[length] = Newline(n)
  BY <1>3, <1>5
<1>7. ASSUME NEW j \in 1 .. length - 1
      PROVE  t[j].line = n /\ t[j].place = j + 1 /\ Rank(L, t[j]) = j + 1
  <2>1. j \in 1 .. length - 2 + 1 /\ 2 + j - 1 = j + 1 /\ j + 1 # 0 /\ j \in 1 .. Len(x)
    BY <1>3
  <2>2. t[j] = [line |-> n, place |-> j + 1]
    BY <1>3, <1>5, <2>1
  <2>3. t[j].line = n /\ t[j].place = j + 1
    <3> DEFINE b == t[j]
    <3>1. b = [line |-> n, place |-> j + 1]
      BY <2>2
    <3> HIDE DEF b
    <3>2. b.line = n /\ b.place = j + 1
      BY <3>1, ByteFields
    <3> QED  BY <3>2 DEF b
  <2> QED  BY <2>1, <2>3 DEF Rank
<1>8. t[length].line = n /\ t[length].place = 0 /\ Rank(L, t[length]) = length + 1
  BY <1>0, <1>6 DEF Newline, Rank
<1>9. ASSUME NEW j \in 1 .. length
      PROVE  t[j].line = n /\ Rank(L, t[j]) = j + 1
  <2>1. j \in 1 .. length - 1 \/ j = length
    OBVIOUS
  <2> QED  BY <1>7, <1>8, <2>1
<1>10. ASSUME NEW j \in 1 .. length
       PROVE  t[j].place \in 0 .. length /\ (t[j].place = 0 => j = length)
  <2>1. CASE j \in 1 .. length - 1
    <3>1. j + 1 \in 0 .. length /\ j + 1 # 0
      BY <2>1
    <3> QED  BY <1>7, <2>1, <3>1
  <2>2. CASE j = length
    <3>1. t[length].place = 0
      BY <1>8
    <3>2. 0 \in 0 .. length
      OBVIOUS
    <3> QED  BY <2>2, <3>1, <3>2
  <2>3. j \in 1 .. length - 1 \/ j = length
    OBVIOUS
  <2> QED  BY <2>1, <2>2, <2>3
<1>11. Stream(L, L[n].conn, t)
  <2>1. \A j \in 1 .. length : ByteOf(L, L[n].conn, t[j])
    BY <1>0, <1>9, <1>10 DEF ByteOf
  <2>2. ASSUME NEW j \in 1 .. length - 1 PROVE Succ(L, t[j], t[j + 1])
    <3>1. j \in 1 .. length /\ j + 1 \in 1 .. length /\ j + 1 # 0
      OBVIOUS
    <3>2. t[j].place # 0 /\ t[j].line = n /\ t[j + 1].line = n
      BY <1>7, <1>9, <3>1
    <3>3. Rank(L, t[j]) = j + 1 /\ Rank(L, t[j + 1]) = j + 1 + 1
      BY <1>9, <3>1
    <3> QED  BY <3>2, <3>3 DEF Succ
  <2>3. ASSUME NEW i \in 1 .. length, NEW j \in 1 .. length, i < j
        PROVE  Before(L, t[i], t[j])
    <3>1. i + 1 < j + 1
      BY <2>3
    <3>2. /\ Rank(L, t[i]) = i + 1 /\ Rank(L, t[j]) = j + 1
          /\ t[i].line = n /\ t[j].line = n
      BY <1>9
    <3> QED  BY <3>1, <3>2 DEF Before
  <2> QED  BY <1>6, <2>1, <2>2, <2>3 DEF Stream
<1>12. Succ(L, [line |-> n, place |-> 1], t[1])
  <2>1. t[1].line = n /\ Rank(L, t[1]) = 1 + 1
    BY <1>9
  <2>2. Rank(L, [line |-> n, place |-> 1]) = 1
    BY DEF Rank
  <2> QED  BY <2>1, <2>2 DEF Succ
<1> QED  BY <1>0, <1>5, <1>6, <1>9, <1>10, <1>11, <1>12

-----------------------------------------------------------------------------
(* What the steps do to the bytes that wait *)

\* The gateway takes the next byte of the connection of the slot at hand.
LEMMA TakeFacts ==
  ASSUME TypeOK, WireInv, Readable, Take, UNCHANGED <<lines, partial>>,
         NEW c, c = clients[at]
  PROVE  /\ WireInv'
         /\ c \in Connections /\ wire[c] \in Seq(Bytes) /\ wire[c] # << >>
         /\ Char = wire[c][1] /\ Char \in Bytes /\ ByteOf(lines, c, Char)
         /\ wire'[c] = Tail(wire[c]) /\ Stream(lines, c, wire'[c])
         /\ wire'[c] # << >> =>
              /\ Newest(lines, c, wire'[c][Len(wire'[c])].line)
              /\ wire'[c][Len(wire'[c])].place = IF partial[c] THEN 1 ELSE 0
         /\ \A d \in Connections \ {c} : wire'[d] = wire[d]
         /\ wire'[c] # << >> => Succ(lines, Char, wire'[c][1])
         /\ wire'[c] = << >> => /\ Newest(lines, c, Char.line)
                                /\ Char.place = IF partial[c] THEN 1 ELSE 0
         /\ \A j \in 1 .. Len(wire'[c]) : Before(lines, Char, wire'[c][j])
<1> DEFINE w == wire[c]
           t == Tail(w)
<1>1. /\ c \in Connections /\ w \in Seq(Bytes) /\ w # << >>
      /\ Char \in Bytes /\ Char = w[1]
      /\ wire' = [wire EXCEPT ![c] = t]
  BY ReadableType
<1>2. lines \in Seq(Lines) /\ wire \in [Connections -> Seq(Bytes)]
  BY DEF TypeOK
<1>3. wire'[c] = t /\ \A d \in Connections \ {c} : wire'[d] = wire[d]
  BY <1>1, <1>2
<1>4. /\ Stream(lines, c, w)
      /\ Newest(lines, c, w[Len(w)].line)
      /\ w[Len(w)].place = IF partial[c] THEN 1 ELSE 0
  BY <1>1 DEF WireInv
<1>5. /\ t \in Seq(Bytes) /\ Len(t) = Len(w) - 1 /\ Len(w) \in Nat \ {0}
      /\ \A j \in 1 .. Len(t) : t[j] = w[j + 1]
  BY <1>1, HeadTailProperties, EmptySeq
<1> HIDE DEF w, t
<1>6. /\ Stream(lines, c, t)
      /\ t # << >> => Succ(lines, w[1], t[1])
      /\ \A j \in 1 .. Len(t) : Before(lines, w[1], t[j])
  BY <1>1, <1>2, <1>4, StreamTail DEF t
<1>7. ByteOf(lines, c, w[1])
  BY <1>4, <1>5 DEF Stream
<1>8. t = << >> => Len(w) = 1
  BY <1>5
<1>9. t # << >> => t[Len(t)] = w[Len(w)]
  <2>1. t # << >> => Len(t) \in 1 .. Len(t) /\ Len(t) + 1 = Len(w)
    BY <1>5, EmptySeq
  <2> QED  BY <1>5, <2>1
<1>10. WireInv'
  <2> SUFFICES ASSUME NEW d \in Connections
               PROVE  /\ Stream(lines, d, wire'[d])
                      /\ wire'[d] # << >> =>
                           /\ Newest(lines, d, wire'[d][Len(wire'[d])].line)
                           /\ wire'[d][Len(wire'[d])].place = IF partial[d] THEN 1 ELSE 0
    BY DEF WireInv, Newest
  <2>1. CASE d = c
    BY <1>3, <1>4, <1>6, <1>9, <2>1
  <2>2. CASE d # c
    BY <1>3, <2>2 DEF WireInv
  <2> QED  BY <2>1, <2>2
<1> QED  BY <1>1, <1>3, <1>4, <1>6, <1>7, <1>8, <1>9, <1>10 DEF w, t

\* Only the line whose newline was taken no longer waits.
LEMMA TakeWaits ==
  ASSUME TypeOK, WireInv, Readable, Take, UNCHANGED <<lines, partial>>,
         NEW n \in 1 .. Len(lines)
  PROVE  Waits(n)' <=> Waits(n) /\ ~ (lines[n].conn = clients[at] /\ Char = Newline(n))
<1> DEFINE c == clients[at]
           w == wire[c]
           t == wire'[c]
<1>1. /\ c \in Connections /\ w \in Seq(Bytes) /\ w # << >>
      /\ Char = w[1] /\ ByteOf(lines, c, Char)
      /\ t = Tail(w)
      /\ \A d \in Connections \ {c} : wire'[d] = wire[d]
      /\ t = << >> => Newest(lines, c, Char.line) /\ Char.place = IF partial[c] THEN 1 ELSE 0
      /\ \A j \in 1 .. Len(t) : Before(lines, Char, t[j])
      /\ Stream(lines, c, t)
      /\ t # << >> => /\ Newest(lines, c, t[Len(t)].line)
                      /\ t[Len(t)].place = IF partial[c] THEN 1 ELSE 0
  BY TakeFacts
<1>2. /\ t \in Seq(Bytes) /\ Len(t) = Len(w) - 1 /\ Len(w) \in Nat \ {0}
      /\ \A j \in 1 .. Len(t) : t[j] = w[j + 1]
  BY <1>1, HeadTailProperties, EmptySeq
<1>3. lines[n].conn \in Connections /\ n \in Nat \ {0} /\ lines[n].length \in Nat \ {0}
  BY LineType
<1>4. Waits(n)' <=> \/ partial[lines[n].conn] /\ Newest(lines, lines[n].conn, n)
                    \/ \E i \in 1 .. Len(wire'[lines[n].conn]) :
                         wire'[lines[n].conn][i] = Newline(n)
  BY DEF Waits, Newest, Newline
<1>5. CASE lines[n].conn # c
  BY <1>1, <1>3, <1>4, <1>5 DEF Waits
<1>6. CASE lines[n].conn = c
  <2>1. Newline(n).line = n /\ Newline(n).place = 0
    BY DEF Newline
  <2>2. Rank(lines, Newline(n)) = lines[n].length + 1
    BY <2>1 DEF Rank
  <2>3. ASSUME Char = Newline(n), NEW i \in 1 .. Len(t), t[i] = Newline(n)
        PROVE  FALSE
    <3>1. Before(lines, Newline(n), Newline(n))
      BY <1>1, <2>3
    <3> QED  BY <1>3, <2>1, <2>2, <3>1 DEF Before
  <2>4. ASSUME Char = Newline(n), partial[c], Newest(lines, c, n)
        PROVE  FALSE
    <3>1. t # << >>
      BY <1>1, <2>1, <2>4
    <3>2. Len(t) \in 1 .. Len(t)
      BY <1>2, <3>1, EmptySeq
    <3>3. Newest(lines, c, t[Len(t)].line) /\ t[Len(t)].place = 1
      BY <1>1, <2>4, <3>1
    <3>4. ByteOf(lines, c, t[Len(t)])
      BY <1>1, <3>2 DEF Stream
    <3>5. t[Len(t)].line = n
      BY <2>4, <3>3, <3>4, LastUnique DEF ByteOf
    <3>6. Rank(lines, t[Len(t)]) = 1
      BY <3>3 DEF Rank
    <3>7. Before(lines, Newline(n), t[Len(t)])
      BY <1>1, <2>4, <3>2
    <3> QED  BY <1>3, <2>1, <2>2, <3>5, <3>6, <3>7 DEF Before
  <2>5. (\E i \in 1 .. Len(t) : t[i] = Newline(n)) =>
          \E i \in 1 .. Len(w) : w[i] = Newline(n)
    <3> SUFFICES ASSUME NEW i \in 1 .. Len(t), t[i] = Newline(n)
                 PROVE  \E k \in 1 .. Len(w) : w[k] = Newline(n)
      OBVIOUS
    <3>1. i + 1 \in 1 .. Len(w) /\ w[i + 1] = Newline(n)
      BY <1>2
    <3> QED  BY <3>1
  <2>6. ASSUME Char # Newline(n), NEW i \in 1 .. Len(w), w[i] = Newline(n)
        PROVE  \E k \in 1 .. Len(t) : t[k] = Newline(n)
    <3>1. i # 1
      BY <1>1, <2>6
    <3>2. i - 1 \in 1 .. Len(t) /\ (i - 1) + 1 = i
      BY <1>2, <3>1
    <3>3. t[i - 1] = Newline(n)
      BY <1>2, <2>6, <3>2
    <3> QED  BY <3>2, <3>3
  <2> HIDE DEF w, t, c
  <2>7. Waits(n) <=> \/ partial[c] /\ Newest(lines, c, n)
                     \/ \E i \in 1 .. Len(w) : w[i] = Newline(n)
    BY <1>6 DEF Waits, c, w
  <2>8. Waits(n)' <=> \/ partial[c] /\ Newest(lines, c, n)
                      \/ \E i \in 1 .. Len(t) : t[i] = Newline(n)
    BY <1>4, <1>6 DEF c, t
  <2>9. CASE Char = Newline(n)
    BY <1>6, <2>3, <2>4, <2>8, <2>9 DEF c
  <2>10. CASE Char # Newline(n)
    BY <2>5, <2>6, <2>7, <2>8, <2>10
  <2> QED  BY <2>9, <2>10
<1> QED  BY <1>5, <1>6

\* A controller starts a line.
LEMMA StartFacts ==
  ASSUME TypeOK, WireInv, NEW c \in Connections, StartLine(c)
  PROVE  /\ WireInv' /\ lines' \in Seq(Lines)
         /\ Len(lines') = Len(lines) + 1 /\ Len(lines) \in Nat
         /\ \A n \in 1 .. Len(lines) : lines'[n] = lines[n]
         /\ \A b, d : b.line \in 1 .. Len(lines) /\ d.line \in 1 .. Len(lines)
              /\ Succ(lines, b, d) => Succ(lines', b, d)
         /\ lines'[Len(lines) + 1].conn = c
         /\ ~ partial[c] /\ partial'[c]
         /\ wire'[c] = Append(wire[c], [line |-> Len(lines) + 1, place |-> 1])
         /\ \A d \in Connections \ {c} : wire'[d] = wire[d] /\ partial'[d] = partial[d]
         /\ \A d \in Connections \ {c}, n \in 1 .. Len(lines) :
              Newest(lines', d, n) <=> Newest(lines, d, n)
         /\ Newest(lines', c, Len(lines) + 1)
<1> DEFINE N == Len(lines) + 1
           b == [line |-> N, place |-> 1]
           w == wire[c]
<1>1. PICK length \in Lengths : lines' = Append(lines, [conn |-> c, length |-> length])
  BY DEF StartLine
<1>2. /\ lines \in Seq(Lines) /\ [conn |-> c, length |-> length] \in Lines
      /\ wire \in [Connections -> Seq(Bytes)] /\ partial \in [Connections -> BOOLEAN]
  BY DEF TypeOK, Lines
<1>3. /\ Len(lines') = Len(lines) + 1 /\ Len(lines) \in Nat /\ lines' \in Seq(Lines)
      /\ \A n \in 1 .. Len(lines) : lines'[n] = lines[n]
      /\ lines'[N] = [conn |-> c, length |-> length]
  BY <1>1, <1>2, AppendProperties, LenProperties
<1>4. lines'[N].conn = c /\ lines'[N].length = length /\ length \in Nat \ {0}
  BY <1>3, GatewayAssumption
<1>5. /\ ~ partial[c] /\ partial' = [partial EXCEPT ![c] = TRUE]
      /\ wire' = [wire EXCEPT ![c] = Append(wire[c], b)]
  BY DEF StartLine
<1>6. /\ partial'[c] /\ wire'[c] = Append(w, b) /\ w \in Seq(Bytes)
      /\ \A d \in Connections \ {c} : wire'[d] = wire[d] /\ partial'[d] = partial[d]
  BY <1>2, <1>5
<1>7. b.line = N /\ b.place = 1 /\ b \in Bytes
  BY <1>3 DEF Bytes
<1>8. ASSUME NEW l \in Lines, lines' = Append(lines, l), NEW x, NEW y,
             x.line \in 1 .. Len(lines), y.line \in 1 .. Len(lines), Succ(lines, x, y)
      PROVE  Succ(lines', x, y)
  BY <1>2, <1>8, SuccGrows
<1> HIDE DEF b, w
<1>9. ASSUME NEW d \in Connections
      PROVE  Stream(lines', d, wire[d])
  BY <1>1, <1>2, StreamGrows DEF WireInv
<1>10. ASSUME NEW d \in Connections \ {c}, NEW n \in 1 .. Len(lines)
       PROVE  Newest(lines', d, n) <=> Newest(lines, d, n)
  <2>1. Newest(lines', d, n) <=>
          lines'[n].conn = d /\ \A m \in n + 1 .. Len(lines') : lines'[m].conn # d
    BY DEF Newest
  <2>2. (\A m \in n + 1 .. Len(lines') : lines'[m].conn # d) <=>
          \A m \in n + 1 .. Len(lines) : lines[m].conn # d
    <3>1. n + 1 .. Len(lines') = (n + 1 .. Len(lines)) \cup {N}
      BY <1>3
    <3>2. \A m \in n + 1 .. Len(lines) : lines'[m] = lines[m]
      BY <1>3
    <3> QED  BY <1>4, <3>1, <3>2
  <2> QED  BY <1>3, <2>1, <2>2 DEF Newest
<1>11. Newest(lines', c, N)
  <2>1. N + 1 .. Len(lines') = {}
    BY <1>3
  <2> QED  BY <1>4, <2>1 DEF Newest
<1>12. Stream(lines', c, << b >>)
  <2>1. ByteOf(lines', c, b)
    BY <1>3, <1>4, <1>7 DEF ByteOf
  <2>2. << b >> \in Seq(Bytes) /\ Len(<< b >>) = 1 /\ << b >>[1] = b
    BY <1>7
  <2> QED  BY <2>1, <2>2 DEF Stream
<1>13. ASSUME w # << >> PROVE Succ(lines', w[Len(w)], b)
  <2>1. Len(w) \in 1 .. Len(w)
    BY <1>6, <1>13, EmptySeq
  <2>2. Newest(lines, c, w[Len(w)].line) /\ w[Len(w)].place = 0
    BY <1>5, <1>13 DEF WireInv, w
  <2>3. w[Len(w)].line \in 1 .. Len(lines)
    BY <2>1 DEF WireInv, Stream, ByteOf, w
  <2>4. \A m \in w[Len(w)].line + 1 .. N - 1 : lines'[m].conn # c
    BY <1>3, <2>2, <2>3 DEF Newest
  <2> QED  BY <1>3, <1>4, <1>7, <2>2, <2>3, <2>4 DEF Succ
<1>14. Stream(lines', c, wire'[c])
  <2>1. << b >> \in Seq(Bytes) /\ << b >> # << >> /\ << b >>[1] = b
    BY <1>7
  <2>2. wire'[c] = w \o << b >>
    BY <1>6, <1>7, AppendIsConcat
  <2>3. Stream(lines', c, w)
    BY <1>9 DEF w
  <2> QED  BY <1>3, <1>6, <1>12, <1>13, <2>1, <2>2, <2>3, StreamConcat
<1>15. /\ wire'[c] # << >> /\ wire'[c][Len(wire'[c])] = b
  BY <1>6, <1>7, AppendProperties
<1>16. WireInv'
  <2> SUFFICES ASSUME NEW d \in Connections
               PROVE  /\ Stream(lines', d, wire'[d])
                      /\ wire'[d] # << >> =>
                           /\ Newest(lines', d, wire'[d][Len(wire'[d])].line)
                           /\ wire'[d][Len(wire'[d])].place = IF partial'[d] THEN 1 ELSE 0
    BY DEF WireInv
  <2>1. CASE d = c
    BY <1>6, <1>7, <1>11, <1>14, <1>15, <2>1
  <2>2. CASE d # c
    <3>1. ASSUME wire[d] # << >>
          PROVE  wire[d][Len(wire[d])].line \in 1 .. Len(lines)
      <4>1. Len(wire[d]) \in 1 .. Len(wire[d])
        BY <1>2, <3>1, EmptySeq
      <4> QED  BY <4>1 DEF WireInv, Stream, ByteOf
    <3>2. wire[d] # << >> => Newest(lines', d, wire[d][Len(wire[d])].line)
      BY <1>10, <2>2, <3>1 DEF WireInv
    <3> QED  BY <1>6, <1>9, <2>2, <3>2 DEF WireInv
  <2> QED  BY <2>1, <2>2
<1> QED  BY <1>1, <1>2, <1>3, <1>4, <1>5, <1>6, <1>8, <1>10, <1>11, <1>16 DEF b, w

\* The line that is started waits, and changes nothing for the others.
LEMMA StartWaits ==
  ASSUME TypeOK, WireInv, NEW c \in Connections, StartLine(c)
  PROVE  /\ \A n \in 1 .. Len(lines) : Waits(n)' <=> Waits(n)
         /\ \A n : n = Len(lines) + 1 => Waits(n)'
<1> DEFINE N == Len(lines) + 1
           b == [line |-> N, place |-> 1]
           w == wire[c]
<1>1. /\ Len(lines') = Len(lines) + 1 /\ Len(lines) \in Nat
      /\ \A n \in 1 .. Len(lines) : lines'[n] = lines[n]
      /\ lines'[N].conn = c
      /\ ~ partial[c] /\ partial'[c]
      /\ wire'[c] = Append(w, b)
      /\ \A d \in Connections \ {c} : wire'[d] = wire[d] /\ partial'[d] = partial[d]
      /\ \A d \in Connections \ {c}, n \in 1 .. Len(lines) :
           Newest(lines', d, n) <=> Newest(lines, d, n)
      /\ Newest(lines', c, N)
  BY StartFacts
<1>2. b \in Bytes /\ b.place = 1
  BY <1>1 DEF Bytes
<1>3. w \in Seq(Bytes)
  BY DEF TypeOK
<1> HIDE DEF b, w
<1>4. /\ Len(Append(w, b)) = Len(w) + 1 /\ Len(w) \in Nat
      /\ \A i \in 1 .. Len(w) : Append(w, b)[i] = w[i]
      /\ Append(w, b)[Len(w) + 1] = b
  BY <1>2, <1>3, AppendProperties, LenProperties
<1>5. ASSUME NEW n \in 1 .. Len(lines)
      PROVE  Waits(n)' <=> Waits(n)
  <2>1. lines[n].conn \in Connections /\ lines'[n].conn = lines[n].conn
    BY <1>1, LineType
  <2>2. Waits(n)' <=> \/ partial'[lines[n].conn] /\ Newest(lines', lines[n].conn, n)
                      \/ \E i \in 1 .. Len(wire'[lines[n].conn]) :
                           wire'[lines[n].conn][i] = Newline(n)
    BY <2>1 DEF Waits, Newline
  <2>3. CASE lines[n].conn # c
    BY <1>1, <2>1, <2>2, <2>3 DEF Waits
  <2>4. CASE lines[n].conn = c
    <3>1. ~ Newest(lines', c, n)
      <4>1. N \in n + 1 .. Len(lines')
        BY <1>1
      <4> QED  BY <1>1, <4>1 DEF Newest
    <3>2. Newline(n) # b
      BY <1>2 DEF Newline
    <3>3. (\E i \in 1 .. Len(w) + 1 : Append(w, b)[i] = Newline(n)) <=>
            \E i \in 1 .. Len(w) : w[i] = Newline(n)
      <4>1. 1 .. Len(w) + 1 = (1 .. Len(w)) \cup {Len(w) + 1}
        BY <1>4
      <4> QED  BY <1>4, <3>2, <4>1
    <3>4. Waits(n) <=> \E i \in 1 .. Len(w) : w[i] = Newline(n)
      BY <1>1, <2>4 DEF Waits, w
    <3>5. Waits(n)' <=> \E i \in 1 .. Len(wire'[c]) : wire'[c][i] = Newline(n)
      BY <2>2, <2>4, <3>1
    <3>6. Waits(n)' <=> \E i \in 1 .. Len(w) + 1 : Append(w, b)[i] = Newline(n)
      BY <1>1, <1>4, <3>5
    <3> QED  BY <3>3, <3>4, <3>6
  <2> QED  BY <2>3, <2>4
<1>6. ASSUME NEW n, n = Len(lines) + 1
      PROVE  Waits(n)'
  <2>1. n = N
    BY <1>6
  <2>2. lines'[n].conn = c /\ partial'[c] /\ Newest(lines', c, n)
    BY <1>1, <2>1
  <2> QED  BY <2>2 DEF Waits
<1> QED  BY <1>5, <1>6

\* A controller ends its line.
LEMMA EndFacts ==
  ASSUME TypeOK, WireInv, NEW c \in Connections, EndLine(c)
  PROVE  /\ WireInv' /\ lines' = lines
         /\ partial[c] /\ ~ partial'[c]
         /\ \A d \in Connections \ {c} : wire'[d] = wire[d] /\ partial'[d] = partial[d]
         /\ wire'[c] \in Seq(Bytes) /\ wire'[c] # << >>
         /\ wire[c] # << >> => wire'[c][1] = wire[c][1]
         /\ \E n \in 1 .. Len(lines) :
              /\ Newest(lines, c, n)
              /\ wire[c] = << >> => Succ(lines, [line |-> n, place |-> 1], wire'[c][1])
              /\ \A m : (\E i \in 1 .. Len(wire'[c]) : wire'[c][i] = Newline(m)) <=>
                          m = n \/ \E i \in 1 .. Len(wire[c]) : wire[c][i] = Newline(m)
<1>1. PICK n \in 1 .. Len(lines) :
        /\ IsLast(c, n)
        /\ wire' = [wire EXCEPT ![c] =
                      Append(wire[c] \o Text(n, 2, lines[n].length), Newline(n))]
  BY DEF EndLine
<1>2. /\ partial[c] /\ partial' = [partial EXCEPT ![c] = FALSE] /\ lines' = lines
  BY DEF EndLine, sender
<1>3. /\ lines \in Seq(Lines) /\ wire \in [Connections -> Seq(Bytes)]
      /\ partial \in [Connections -> BOOLEAN]
  BY DEF TypeOK
<1>4. PICK length \in Nat \ {0} : length = lines[n].length
  BY LineType
<1> DEFINE x == Text(n, 2, length)
           t == LineRest(lines, n)
           w == wire[c]
           v == wire'[c]
<1>0. t = Append(x, Newline(n))
  BY <1>4 DEF LineRest
<1> HIDE DEF t
<1>5. /\ t \in Seq(Bytes) /\ t # << >> /\ Len(t) = length
      /\ Stream(lines, lines[n].conn, t)
      /\ Succ(lines, [line |-> n, place |-> 1], t[1])
      /\ \A j \in 1 .. length : t[j].line = n /\ (t[j].place = 0 => j = length)
      /\ t[length] = Newline(n)
  BY <1>3, <1>4, RestOfLine DEF t
<1>6. x \in Seq(Bytes)
  <2>1. n \in Nat /\ 2 \in Nat \ {0} /\ length \in Nat /\ 2 =< length + 1
    BY LineType
  <2> QED  BY <2>1, TextType
<1>7. Newline(n) \in Bytes
  BY LineType DEF Newline, Bytes
<1>8. v = w \o t /\ w \in Seq(Bytes)
  <2>1. v = Append(w \o x, Newline(n)) /\ w \in Seq(Bytes)
    BY <1>1, <1>3, <1>4
  <2> HIDE DEF x, w, v
  <2>2. w \o x \in Seq(Bytes) /\ << Newline(n) >> \in Seq(Bytes)
    BY <1>6, <1>7, <2>1, ConcatProperties
  <2>3. Append(w \o x, Newline(n)) = (w \o x) \o << Newline(n) >>
    BY <1>7, <2>2, AppendIsConcat
  <2>4. Append(x, Newline(n)) = x \o << Newline(n) >>
    BY <1>6, <1>7, AppendIsConcat
  <2>5. (w \o x) \o << Newline(n) >> = w \o (x \o << Newline(n) >>)
    BY <1>6, <2>1, <2>2, ConcatAssociative
  <2> QED  BY <1>0, <2>1, <2>3, <2>4, <2>5
<1>9. Newest(lines, c, n) /\ lines[n].conn = c
  BY <1>1 DEF IsLast, Newest
<1>10. /\ ~ partial'[c]
       /\ \A d \in Connections \ {c} : wire'[d] = wire[d] /\ partial'[d] = partial[d]
  BY <1>1, <1>2, <1>3
<1> HIDE DEF x, w, v
<1>11. w # << >> => Succ(lines, w[Len(w)], t[1])
  <2> SUFFICES ASSUME w # << >> PROVE Succ(lines, w[Len(w)], t[1])
    OBVIOUS
  <2>1. Len(w) \in 1 .. Len(w)
    BY <1>8, EmptySeq
  <2>2. Newest(lines, c, w[Len(w)].line) /\ w[Len(w)].place = 1
    BY <1>2 DEF WireInv, w
  <2>3. w[Len(w)].line \in 1 .. Len(lines) /\ w[Len(w)] \in Bytes
    BY <1>8, <2>1, ElementOfSeq DEF WireInv, Stream, ByteOf, w
  <2>4. w[Len(w)].line = n
    BY <1>9, <2>2, <2>3, LastUnique
  <2>5. w[Len(w)] = [line |-> n, place |-> 1]
    BY <2>2, <2>3, <2>4 DEF Bytes
  <2> QED  BY <1>5, <2>5
<1>12. Stream(lines, c, v)
  <2>1. Stream(lines, c, w)
    BY DEF WireInv, w
  <2> QED  BY <1>3, <1>5, <1>8, <1>9, <1>11, <2>1, StreamConcat
<1>13. /\ v \in Seq(Bytes) /\ Len(v) = Len(w) + Len(t) /\ Len(w) \in Nat
       /\ \A i \in 1 .. Len(w) + Len(t) :
            v[i] = IF i <= Len(w) THEN w[i] ELSE t[i - Len(w)]
  BY <1>5, <1>8, ConcatProperties, LenProperties
<1>14. v # << >> /\ v[Len(v)] = Newline(n)
  <2>1. Len(v) # 0 /\ Len(v) \in 1 .. Len(w) + Len(t) /\ ~ (Len(v) <= Len(w))
        /\ Len(v) - Len(w) = length
    BY <1>5, <1>13
  <2> QED  BY <1>5, <1>13, <2>1
<1>15. w # << >> => v[1] = w[1]
  <2> SUFFICES ASSUME w # << >> PROVE v[1] = w[1]
    OBVIOUS
  <2>1. 1 \in 1 .. Len(w) + Len(t) /\ 1 <= Len(w)
    BY <1>5, <1>8, EmptySeq
  <2> QED  BY <1>13, <2>1
<1>16. w = << >> => v[1] = t[1]
  <2> SUFFICES ASSUME w = << >> PROVE v[1] = t[1]
    OBVIOUS
  <2>1. Len(w) = 0 /\ 1 \in 1 .. Len(w) + Len(t) /\ ~ (1 <= Len(w)) /\ 1 - Len(w) = 1
    BY <1>5
  <2> QED  BY <1>13, <2>1
<1>17. ASSUME NEW m
       PROVE  (\E i \in 1 .. Len(v) : v[i] = Newline(m)) <=>
                m = n \/ \E i \in 1 .. Len(w) : w[i] = Newline(m)
  <2>1. m = n => \E i \in 1 .. Len(v) : v[i] = Newline(m)
    <3>1. Len(v) \in 1 .. Len(v)
      BY <1>13, <1>14, EmptySeq
    <3> QED  BY <1>14, <3>1
  <2>2. ASSUME NEW i \in 1 .. Len(w), w[i] = Newline(m)
        PROVE  \E j \in 1 .. Len(v) : v[j] = Newline(m)
    <3>1. i \in 1 .. Len(v) /\ i \in 1 .. Len(w) + Len(t) /\ i <= Len(w)
      BY <1>5, <1>13
    <3>2. v[i] = w[i]
      BY <1>13, <3>1
    <3> QED  BY <2>2, <3>1, <3>2
  <2>3. ASSUME NEW i \in 1 .. Len(v), v[i] = Newline(m)
        PROVE  m = n \/ \E j \in 1 .. Len(w) : w[j] = Newline(m)
    <3>1. CASE i \in 1 .. Len(w)
      <4>1. i \in 1 .. Len(w) + Len(t) /\ i <= Len(w)
        BY <1>5, <1>13, <3>1
      <4> QED  BY <1>13, <2>3, <3>1, <4>1
    <3>2. CASE i \notin 1 .. Len(w)
      <4>1. i - Len(w) \in 1 .. length /\ i \in 1 .. Len(w) + Len(t) /\ ~ (i <= Len(w))
        BY <1>5, <1>13, <3>2
      <4>2. t[i - Len(w)] = Newline(m)
        BY <1>13, <2>3, <4>1
      <4>3. Newline(m).line = m
        BY DEF Newline
      <4> QED  BY <1>5, <4>1, <4>2, <4>3
    <3> QED  BY <3>1, <3>2
  <2> QED  BY <2>1, <2>2, <2>3
<1>18. WireInv'
  <2> SUFFICES ASSUME NEW d \in Connections
               PROVE  /\ Stream(lines, d, wire'[d])
                      /\ wire'[d] # << >> =>
                           /\ Newest(lines, d, wire'[d][Len(wire'[d])].line)
                           /\ wire'[d][Len(wire'[d])].place = IF partial'[d] THEN 1 ELSE 0
    BY <1>2 DEF WireInv
  <2>1. CASE d = c
    <3>1. Newline(n).line = n /\ Newline(n).place = 0
      BY DEF Newline
    <3> QED  BY <1>9, <1>10, <1>12, <1>14, <2>1, <3>1 DEF v
  <2>2. CASE d # c
    BY <1>10, <2>2 DEF WireInv
  <2> QED  BY <2>1, <2>2
<1>19. w = << >> => Succ(lines, [line |-> n, place |-> 1], v[1])
  BY <1>5, <1>16
<1> QED  BY <1>2, <1>9, <1>10, <1>13, <1>14, <1>15, <1>17, <1>18, <1>19 DEF v, w

LEMMA EndWaits ==
  ASSUME TypeOK, WireInv, NEW c \in Connections, EndLine(c),
         NEW n \in 1 .. Len(lines)
  PROVE  Waits(n)' <=> Waits(n)
<1>1. /\ lines' = lines /\ partial[c] /\ ~ partial'[c]
      /\ \A d \in Connections \ {c} : wire'[d] = wire[d] /\ partial'[d] = partial[d]
  BY EndFacts
<1>2. PICK k \in 1 .. Len(lines) :
        /\ Newest(lines, c, k)
        /\ \A m : (\E i \in 1 .. Len(wire'[c]) : wire'[c][i] = Newline(m)) <=>
                    m = k \/ \E i \in 1 .. Len(wire[c]) : wire[c][i] = Newline(m)
  BY EndFacts
<1>3. lines[n].conn \in Connections
  BY LineType
<1>4. Waits(n)' <=> \/ partial'[lines[n].conn] /\ Newest(lines, lines[n].conn, n)
                    \/ \E i \in 1 .. Len(wire'[lines[n].conn]) :
                         wire'[lines[n].conn][i] = Newline(n)
  BY <1>1 DEF Waits, Newline
<1>5. CASE lines[n].conn # c
  BY <1>1, <1>3, <1>4, <1>5 DEF Waits
<1>6. CASE lines[n].conn = c
  <2>1. Newest(lines, c, n) <=> n = k
    BY <1>2, LastUnique
  <2>2. Waits(n) <=> n = k \/ \E i \in 1 .. Len(wire[c]) : wire[c][i] = Newline(n)
    BY <1>1, <1>6, <2>1 DEF Waits
  <2>3. Waits(n)' <=> \E i \in 1 .. Len(wire'[c]) : wire'[c][i] = Newline(n)
    BY <1>1, <1>4, <1>6
  <2> QED  BY <1>2, <2>2, <2>3
<1> QED  BY <1>5, <1>6
-----------------------------------------------------------------------------
(* The steps preserve the invariant of the lines *)

LEMMA TextFirst ==
  ASSUME NEW n \in Nat, NEW k \in Nat \ {0}, NEW length \in Nat, k =< length
  PROVE  Text(n, k, length)[1] = [line |-> n, place |-> k]
<1> DEFINE x == Text(n, k, length)
<1>0. k =< length + 1
  OBVIOUS
<1>1. /\ x \in Seq(Bytes) /\ Len(x) = length - k + 1
      /\ \A j \in 1 .. length - k + 1 : x[j] = [line |-> n, place |-> k + j - 1]
  BY ZenonT(40), <1>0, TextType
<1> HIDE DEF x
<1>2. 1 \in 1 .. length - k + 1 /\ k + 1 - 1 = k
  OBVIOUS
<1>3. x[1] = [line |-> n, place |-> k]
  BY <1>1, <1>2
<1> QED  BY <1>3 DEF x

\* Only one line is being handled.
LEMMA SameLine ==
  ASSUME NEW L \in Seq(Lines), NEW m \in 1 .. Len(L), NEW n \in 1 .. Len(L),
         NEW k \in 1 .. L[n].length,
         Text(m, 1, L[m].length) = Text(n, k, L[n].length)
  PROVE  m = n /\ k = 1
<1>1. /\ m \in Nat /\ n \in Nat /\ k \in Nat \ {0} /\ 1 \in Nat \ {0}
      /\ L[m].length \in Nat \ {0} /\ L[n].length \in Nat \ {0}
  BY LineOf
<1>2. PICK a \in Nat \ {0} : a = L[m].length
  BY <1>1
<1>3. PICK b \in Nat \ {0} : b = L[n].length
  BY <1>1
<1>4. a \in Nat /\ b \in Nat /\ 1 =< a /\ k =< b
  BY <1>1, <1>2, <1>3
<1>5. Text(m, 1, a)[1] = [line |-> m, place |-> 1]
  BY ZenonT(40), <1>1, <1>4, TextFirst
<1>6. Text(n, k, b)[1] = [line |-> n, place |-> k]
  BY ZenonT(40), <1>1, <1>4, TextFirst
<1>7. Text(m, 1, a) = Text(n, k, b)
  BY <1>2, <1>3
<1> DEFINE x == [line |-> m, place |-> 1]
           y == [line |-> n, place |-> k]
<1>8. x = y
  BY <1>5, <1>6, <1>7
<1>9. x.line = m /\ x.place = 1 /\ y.line = n /\ y.place = k
  OBVIOUS
<1> HIDE DEF x, y
<1> QED  BY <1>8, <1>9

\* A step that touches no byte, and neither begins nor ends the handling
LEMMA QuietLines ==
  ASSUME LineInv, UNCHANGED <<lines, wire, partial, handed, msg>>,
         claimed \in Nat, claimed' \in Nat, claimed =< claimed',
         stage' = "handle" <=> stage = "handle", InputInv'
  PROVE  LineInv'
<1>1. WireInv'
  BY DEF LineInv, WireInv
<1>2. UnclaimedInv'
  BY DEF LineInv, UnclaimedInv, Connections
<1>3. \A n : (Waits(n)' <=> Waits(n)) /\ (Doing(n)' <=> Doing(n)) /\ (Done(n)' <=> Done(n))
  BY DEF Waits, Doing, Done
<1>4. \A n : Fits(n)' <=> Fits(n)
  BY DEF Fits
<1>5. WaitInv'
  BY <1>3, <1>4 DEF LineInv, WaitInv
<1>6. HandedInv'
  BY <1>3, <1>4 DEF LineInv, HandedInv
<1>7. LinesNotMixed'
  BY DEF LineInv, LinesNotMixed
<1> QED  BY <1>1, <1>2, <1>5, <1>6, <1>7 DEF LineInv

\* A slot that takes a connection starts with its first line.
LEMMA CheckSlotLines ==
  ASSUME TypeOK, LineInv, CheckSlot
  PROVE  LineInv'
<1>1. /\ UNCHANGED <<lines, wire, partial, handed, msg>> /\ at \in Slots
      /\ clients' = [clients EXCEPT ![at] = ClientOf(at)] /\ stage = "slots"
  BY DEF CheckSlot, TypeOK, sender
<1>2. claimed \in Nat /\ claimed' \in Nat /\ claimed =< claimed'
  BY DEF CheckSlot, TypeOK
<1>3. stage' # "handle"
  BY DEF CheckSlot, NextSlot
<1>4. \/ ClientOf(at) = clients[at] /\ inputString' = inputString
      \/ ClientOf(at) = Nobody /\ inputString' = inputString
      \/ /\ ClientOf(at) = claimed + 1 /\ claimed + 1 \in Connections
         /\ inputString' = [inputString EXCEPT ![at] = << >>]
  <2>1. HasClient => claimed + 1 \in Connections
    BY GatewayBoundAssumption DEF HasClient, TypeOK, Connections
  <2>2. CASE ~ Connected(clients[at]) /\ HasClient
    <3>1. inputString' = [inputString EXCEPT ![at] = << >>]
      BY <2>2 DEF CheckSlot
    <3> QED  BY <2>1, <2>2, <3>1 DEF ClientOf
  <2>3. CASE ~ (~ Connected(clients[at]) /\ HasClient)
    <3>1. inputString' = inputString
      BY <2>3 DEF CheckSlot
    <3> QED  BY <2>3, <3>1 DEF ClientOf
  <2> QED  BY <2>2, <2>3
<1>5. \A c, s : SlotReads(c, s)' <=> SlotReads(c, s)
  BY <1>1 DEF SlotReads, Expects, Collects, Continues, Fits
<1>6. ASSUME NEW i \in Slots, NEW c \in Connections, NEW s,
             c = clients'[i], s = inputString'[i]
      PROVE  SlotReads(c, s)'
  <2>1. SlotReads(c, s)
    <3>1. CASE i # at
      BY <1>1, <1>4, <1>6, <3>1 DEF LineInv, InputInv, TypeOK
    <3>2. CASE i = at /\ ClientOf(at) = clients[at] /\ inputString' = inputString
      BY <1>1, <1>6, <3>2 DEF LineInv, InputInv, TypeOK
    <3>3. CASE i = at /\ ClientOf(at) = Nobody
      BY <1>1, <1>6, <3>3 DEF TypeOK, Connections
    <3>4. CASE /\ i = at /\ ClientOf(at) = claimed + 1 /\ claimed + 1 \in Connections
               /\ inputString' = [inputString EXCEPT ![at] = << >>]
      <4>1. c = claimed + 1 /\ s = << >>
        BY <1>1, <1>6, <3>4 DEF TypeOK
      <4>2. Expects(c)
        BY <1>2, <3>4, <4>1 DEF LineInv, UnclaimedInv, Expects
      <4> QED  BY <4>1, <4>2 DEF SlotReads
    <3> QED  BY <1>4, <3>1, <3>2, <3>3, <3>4
  <2> QED  BY <1>5, <2>1
<1>7. InputInv'
  BY <1>6 DEF InputInv
<1> QED  BY <1>1, <1>2, <1>3, <1>7, QuietLines

LEMMA StartLineLines ==
  ASSUME TypeOK, LineInv, NEW c \in Connections, StartLine(c)
  PROVE  LineInv'
<1> DEFINE N == Len(lines) + 1
           b == [line |-> N, place |-> 1]
<1>1. /\ WireInv' /\ lines' \in Seq(Lines)
      /\ Len(lines') = Len(lines) + 1 /\ Len(lines) \in Nat
      /\ \A n \in 1 .. Len(lines) : lines'[n] = lines[n]
      /\ lines'[N].conn = c
      /\ ~ partial[c] /\ partial'[c]
      /\ wire'[c] = Append(wire[c], b)
      /\ \A d \in Connections \ {c} : wire'[d] = wire[d] /\ partial'[d] = partial[d]
      /\ Newest(lines', c, N)
  BY StartFacts DEF LineInv
<1>2. \A x, y : x.line \in 1 .. Len(lines) /\ y.line \in 1 .. Len(lines)
              /\ Succ(lines, x, y) => Succ(lines', x, y)
  BY StartFacts DEF LineInv
<1>3. \A d \in Connections \ {c}, n \in 1 .. Len(lines) :
        Newest(lines', d, n) <=> Newest(lines, d, n)
  BY StartFacts DEF LineInv
<1>4. /\ \A n \in 1 .. Len(lines) : Waits(n)' <=> Waits(n)
      /\ \A n : n = N => Waits(n)'
  BY StartWaits DEF LineInv
<1>5. /\ UNCHANGED <<stage, clients, claimed, inputString, msg, handed>>
      /\ wire[c] \in Seq(Bytes)
  BY DEF StartLine, pass, slotVars, server, TypeOK
<1>6. b \in Bytes /\ b.place = 1
  BY <1>1 DEF Bytes
<1> HIDE DEF N, b
<1>7. N = Len(lines) + 1
  BY DEF N
<1>8. /\ wire'[c] # << >>
      /\ wire[c] # << >> => wire'[c][1] = wire[c][1]
      /\ wire[c] = << >> => wire'[c][1] = b
  <2>1. /\ Len(Append(wire[c], b)) = Len(wire[c]) + 1 /\ Len(wire[c]) \in Nat
        /\ \A i \in 1 .. Len(wire[c]) : Append(wire[c], b)[i] = wire[c][i]
        /\ Append(wire[c], b)[Len(wire[c]) + 1] = b
        /\ Append(wire[c], b) # << >>
    BY <1>5, <1>6, AppendProperties, LenProperties
  <2>2. wire[c] # << >> => 1 \in 1 .. Len(wire[c])
    BY <1>5, EmptySeq
  <2>3. wire[c] = << >> => Len(wire[c]) + 1 = 1
    OBVIOUS
  <2> QED  BY <1>1, <2>1, <2>2, <2>3
<1>9. \A n \in 1 .. Len(lines) : Fits(n)' <=> Fits(n)
  BY <1>1 DEF Fits
<1>10. ASSUME NEW d \in Connections, wire[d] # << >>
       PROVE  wire[d][1].line \in 1 .. Len(lines)
  <2>1. 1 \in 1 .. Len(wire[d])
    BY <1>10, EmptySeq DEF TypeOK
  <2> QED  BY <2>1 DEF LineInv, WireInv, Stream, ByteOf
<1>11. UnclaimedInv'
  <2> SUFFICES ASSUME NEW d \in Connections, d > claimed
               PROVE  /\ wire'[d] # << >> => wire'[d][1].place = 1
                      /\ wire'[d] = << >> => ~ partial'[d]
    BY <1>5 DEF UnclaimedInv
  <2>1. CASE d = c
    BY <1>6, <1>8, <2>1 DEF LineInv, UnclaimedInv
  <2>2. CASE d # c
    BY <1>1, <2>2 DEF LineInv, UnclaimedInv
  <2> QED  BY <2>1, <2>2
<1>12. ASSUME NEW d \in Connections, Expects(d)
       PROVE  Expects(d)'
  <2>1. Expects(d)' <=>
          /\ wire'[d] # << >> =>
               \A n : n = wire'[d][1].line => wire'[d][1].place = 1 \/ ~ Fits(n)'
          /\ wire'[d] = << >> /\ partial'[d] =>
               \E n \in 1 .. Len(lines') : Newest(lines', d, n) /\ ~ Fits(n)'
    BY DEF Expects, Fits
  <2>2. CASE d = c
    BY <1>6, <1>8, <1>9, <1>10, <1>12, <2>1, <2>2 DEF Expects
  <2>3. CASE d # c
    <3>1. wire'[d] = wire[d] /\ partial'[d] = partial[d]
      BY <1>1, <2>3
    <3>2. wire[d] # << >> => wire[d][1].place = 1 \/ ~ Fits(wire[d][1].line)
      BY <1>12 DEF Expects
    <3>3. ASSUME wire[d] = << >>, partial[d]
          PROVE  \E n \in 1 .. Len(lines') : Newest(lines', d, n) /\ ~ Fits(n)'
      <4>1. PICK n \in 1 .. Len(lines) : Newest(lines, d, n) /\ ~ Fits(n)
        BY <1>12, <3>3 DEF Expects
      <4>2. n \in 1 .. Len(lines')
        BY <1>1
      <4> QED  BY <1>3, <1>9, <2>3, <4>1, <4>2
    <3> QED  BY <1>9, <1>10, <2>1, <3>1, <3>2, <3>3
  <2> QED  BY <2>2, <2>3
<1>13. ASSUME NEW d \in Connections, NEW n \in 1 .. Len(lines), NEW k \in Nat,
              Continues(d, n, k)
       PROVE  Continues(d, n, k)'
  <2>1. Continues(d, n, k)' <=>
          /\ wire'[d] # << >> => Succ(lines', [line |-> n, place |-> k], wire'[d][1])
          /\ wire'[d] = << >> => partial'[d] /\ Newest(lines', d, n) /\ k = 1
    BY DEF Continues
  <2>2. ASSUME wire[d] # << >>
        PROVE  Succ(lines', [line |-> n, place |-> k], wire[d][1])
    <3> DEFINE x == [line |-> n, place |-> k]
    <3>1. x.line = n
      OBVIOUS
    <3>2. Succ(lines, x, wire[d][1])
      BY <1>13, <2>2 DEF Continues
    <3> HIDE DEF x
    <3>3. Succ(lines', x, wire[d][1])
      BY <1>2, <1>10, <2>2, <3>1, <3>2
    <3> QED  BY <3>3 DEF x
  <2>3. CASE d = c
    <3>1. wire[d] # << >>
      BY <1>1, <1>13, <2>3 DEF Continues
    <3> QED  BY <1>8, <2>1, <2>2, <2>3, <3>1
  <2>4. CASE d # c
    <3>1. wire'[d] = wire[d] /\ partial'[d] = partial[d]
      BY <1>1, <2>4
    <3>2. wire[d] = << >> => partial[d] /\ Newest(lines', d, n) /\ k = 1
      BY <1>3, <1>13, <2>4 DEF Continues
    <3> QED  BY <2>1, <2>2, <3>1, <3>2
  <2> QED  BY <2>3, <2>4
<1>14. ASSUME NEW d \in Connections, NEW s \in Seq(Bytes), Collects(d, s)
       PROVE  Collects(d, s)'
  <2>0. PICK n \in 1 .. Len(lines) : \E k \in 1 .. lines[n].length :
          /\ lines[n].conn = d /\ k + Len(s) - 1 =< lines[n].length
          /\ k > 1 => ~ Fits(n)
          /\ s = Text(n, k, k + Len(s) - 1)
          /\ Continues(d, n, k + Len(s) - 1)
    BY <1>14 DEF Collects
  <2>1. PICK k \in 1 .. lines[n].length :
          /\ lines[n].conn = d /\ k + Len(s) - 1 =< lines[n].length
          /\ k > 1 => ~ Fits(n)
          /\ s = Text(n, k, k + Len(s) - 1)
          /\ Continues(d, n, k + Len(s) - 1)
    BY <2>0
  <2>2. k + Len(s) - 1 \in Nat
    BY LineType, LenProperties
  <2>3. Continues(d, n, k + Len(s) - 1)'
    BY <1>13, <2>1, <2>2
  <2>4. n \in 1 .. Len(lines') /\ lines'[n] = lines[n] /\ (Fits(n)' <=> Fits(n))
    BY <1>1, <1>9
  <2>5. Text(n, k, k + Len(s) - 1)' = Text(n, k, k + Len(s) - 1)
    BY DEF Text
  <2> QED  BY <2>1, <2>3, <2>4, <2>5 DEF Collects
<1>15. InputInv'
  <2> SUFFICES ASSUME NEW i \in Slots, NEW d \in Connections, NEW s,
                      d = clients[i], s = inputString[i]
               PROVE  SlotReads(d, s)'
    BY <1>5 DEF InputInv
  <2>1. SlotReads(d, s) /\ s \in Seq(Bytes)
    BY DEF LineInv, InputInv, TypeOK
  <2> QED  BY <1>12, <1>14, <2>1 DEF SlotReads
<1>16. \A n \in 1 .. Len(lines) : (Doing(n)' <=> Doing(n)) /\ (Done(n)' <=> Done(n))
  BY <1>1, <1>5 DEF Doing, Done, Text
<1>17. ASSUME stage = "handle"
       PROVE  \E n \in 1 .. Len(lines) : \E k \in 1 .. lines[n].length :
                /\ k > 1 => lines[n].length >= MaxLength - 1
                /\ msg = Text(n, k, lines[n].length)
  BY <1>17 DEF LineInv, LinesNotMixed
<1>18. LinesNotMixed'
  <2> SUFFICES ASSUME stage = "handle"
               PROVE  \E n \in 1 .. Len(lines') : \E k \in 1 .. lines'[n].length :
                        /\ k > 1 => lines'[n].length >= MaxLength - 1
                        /\ msg = Text(n, k, lines'[n].length)
    BY <1>5 DEF LinesNotMixed, Text
  <2>1. PICK n \in 1 .. Len(lines) : \E k \in 1 .. lines[n].length :
          /\ k > 1 => lines[n].length >= MaxLength - 1
          /\ msg = Text(n, k, lines[n].length)
    BY <1>17
  <2>2. n \in 1 .. Len(lines') /\ lines'[n] = lines[n]
    BY <1>1
  <2> QED  BY <2>1, <2>2
<1>19. ASSUME NEW n, n = N
       PROVE  ~ Doing(n)' /\ ~ Done(n)'
  <2>1. ~ Done(n)'
    BY <1>1, <1>5, <1>7, <1>19 DEF Done, LineInv, HandedInv
  <2>2. ASSUME Doing(n)' PROVE FALSE
    <3>0. PICK m \in 1 .. Len(lines) : \E k \in 1 .. lines[m].length :
            msg = Text(m, k, lines[m].length)
      BY <1>5, <1>17, <2>2 DEF Doing
    <3>1. PICK k \in 1 .. lines[m].length : msg = Text(m, k, lines[m].length)
      BY <3>0
    <3>2. m \in 1 .. Len(lines') /\ k \in 1 .. lines'[m].length /\ n \in 1 .. Len(lines')
          /\ lines'[m] = lines[m]
      BY <1>1, <1>7, <1>19, <3>1
    <3>3. Text(n, 1, lines'[n].length) = Text(m, k, lines'[m].length)
      BY <1>5, <2>2, <3>1, <3>2 DEF Doing, Text
    <3>4. n = m
      BY <1>1, <3>2, <3>3, SameLine
    <3> QED  BY <1>7, <1>19, <3>4
  <2> QED  BY <2>1, <2>2
<1>20. WaitInv'
  <2>1. ASSUME NEW n \in 1 .. Len(lines'), Fits(n)'
        PROVE  /\ Waits(n)' \/ Doing(n)' \/ Done(n)'
               /\ ~ (Waits(n)' /\ Doing(n)') /\ ~ (Waits(n)' /\ Done(n)')
               /\ ~ (Doing(n)' /\ Done(n)')
    <3>1. CASE n \in 1 .. Len(lines)
      BY <1>4, <1>9, <1>16, <2>1, <3>1 DEF LineInv, WaitInv
    <3>2. CASE n = N
      BY <1>4, <1>19, <3>2
    <3> QED  BY <1>1, <1>7, <3>1, <3>2
  <2>2. ASSUME NEW m \in 1 .. Len(lines'), NEW n \in 1 .. Len(lines'),
               m < n, lines'[m].conn = lines'[n].conn, Waits(m)'
        PROVE  Waits(n)'
    <3>1. CASE n = N
      BY <1>4, <3>1
    <3>2. CASE n \in 1 .. Len(lines)
      <4>1. m \in 1 .. Len(lines)
        BY <2>2, <3>2
      <4> QED  BY <1>1, <1>4, <2>2, <3>2, <4>1 DEF LineInv, WaitInv
    <3> QED  BY <1>1, <1>7, <3>1, <3>2
  <2> QED  BY <2>1, <2>2 DEF WaitInv
<1>21. HandedInv'
  <2>1. \A j \in 1 .. Len(handed) :
          handed[j] \in 1 .. Len(lines) /\ Fits(handed[j]) /\ lines'[handed[j]] = lines[handed[j]]
    BY <1>1 DEF LineInv, HandedInv
  <2>2. \A j \in 1 .. Len(handed) : \A n : n = handed[j] => n \in 1 .. Len(lines') /\ Fits(n)'
    BY <1>1, <1>9, <2>1
  <2>3. \A i, j \in 1 .. Len(handed) :
          i < j /\ lines'[handed[i]].conn = lines'[handed[j]].conn => handed[i] < handed[j]
    BY <2>1 DEF LineInv, HandedInv
  <2>4. ASSUME NEW n \in 1 .. Len(lines'), Doing(n)'
        PROVE  /\ Fits(n)'
               /\ \A j \in 1 .. Len(handed) :
                    lines'[handed[j]].conn = lines'[n].conn => handed[j] < n
    <3>1. n \in 1 .. Len(lines)
      BY <1>1, <1>7, <1>19, <2>4
    <3> QED  BY <1>1, <1>9, <1>16, <2>1, <2>4, <3>1 DEF LineInv, HandedInv
  <2> QED  BY <1>5, <2>2, <2>3, <2>4 DEF HandedInv, Fits
<1> QED  BY <1>1, <1>11, <1>15, <1>18, <1>20, <1>21 DEF LineInv

LEMMA EndLineLines ==
  ASSUME TypeOK, LineInv, NEW c \in Connections, EndLine(c)
  PROVE  LineInv'
<1>1. /\ WireInv' /\ lines' = lines
      /\ partial[c] /\ ~ partial'[c]
      /\ \A d \in Connections \ {c} : wire'[d] = wire[d] /\ partial'[d] = partial[d]
      /\ wire'[c] # << >>
      /\ wire[c] # << >> => wire'[c][1] = wire[c][1]
  BY EndFacts DEF LineInv
<1>2. PICK l \in 1 .. Len(lines) :
        /\ Newest(lines, c, l)
        /\ wire[c] = << >> => Succ(lines, [line |-> l, place |-> 1], wire'[c][1])
  BY EndFacts DEF LineInv
<1>3. UNCHANGED <<stage, clients, claimed, inputString, msg, handed>>
  BY DEF EndLine, pass, slotVars, server
<1>4. \A n \in 1 .. Len(lines) : /\ Waits(n)' <=> Waits(n)
                                 /\ Doing(n)' <=> Doing(n)
                                 /\ Done(n)' <=> Done(n)
                                 /\ Fits(n)' <=> Fits(n)
  BY <1>1, <1>3, EndWaits DEF LineInv, Doing, Done, Fits, Text
<1>5. UnclaimedInv'
  <2> SUFFICES ASSUME NEW d \in Connections, d > claimed
               PROVE  /\ wire'[d] # << >> => wire'[d][1].place = 1
                      /\ wire'[d] = << >> => ~ partial'[d]
    BY <1>3 DEF UnclaimedInv
  <2> QED  BY <1>1 DEF LineInv, UnclaimedInv
<1>6. ASSUME NEW d \in Connections, Expects(d)
      PROVE  Expects(d)'
  <2>1. Expects(d)' <=>
          /\ wire'[d] # << >> => wire'[d][1].place = 1 \/ ~ Fits(wire'[d][1].line)
          /\ wire'[d] = << >> /\ partial'[d] =>
               \E n \in 1 .. Len(lines) : Newest(lines, d, n) /\ ~ Fits(n)
    BY <1>1 DEF Expects, Fits
  <2>2. CASE d # c
    BY <1>1, <1>6, <2>1, <2>2 DEF Expects
  <2>3. CASE d = c /\ wire[c] # << >>
    BY <1>1, <1>6, <2>1, <2>3 DEF Expects
  <2>4. CASE d = c /\ wire[c] = << >>
    <3>1. ~ Fits(l)
      BY <1>1, <1>2, <1>6, <2>4, LastUnique DEF Expects
    <3>2. wire'[c][1].line = l
      BY <1>2, <2>4 DEF Succ
    <3> QED  BY <1>1, <2>1, <2>4, <3>1, <3>2
  <2> QED  BY <2>2, <2>3, <2>4
<1>7. ASSUME NEW d \in Connections, NEW n \in 1 .. Len(lines), NEW k \in Nat,
             Continues(d, n, k)
      PROVE  Continues(d, n, k)'
  <2>1. Continues(d, n, k)' <=>
          /\ wire'[d] # << >> => Succ(lines, [line |-> n, place |-> k], wire'[d][1])
          /\ wire'[d] = << >> => partial'[d] /\ Newest(lines, d, n) /\ k = 1
    BY <1>1 DEF Continues
  <2>2. CASE d # c
    BY <1>1, <1>7, <2>1, <2>2 DEF Continues
  <2>3. CASE d = c /\ wire[c] # << >>
    BY <1>1, <1>7, <2>1, <2>3 DEF Continues
  <2>4. CASE d = c /\ wire[c] = << >>
    <3>1. n = l /\ k = 1
      BY <1>2, <1>7, <2>4, LastUnique DEF Continues
    <3> QED  BY <1>1, <1>2, <2>1, <2>4, <3>1
  <2> QED  BY <2>2, <2>3, <2>4
<1>8. ASSUME NEW d \in Connections, NEW s \in Seq(Bytes), Collects(d, s)
      PROVE  Collects(d, s)'
  <2>1. PICK n \in 1 .. Len(lines) : \E k \in 1 .. lines[n].length :
          /\ lines[n].conn = d /\ k + Len(s) - 1 =< lines[n].length
          /\ k > 1 => ~ Fits(n)
          /\ s = Text(n, k, k + Len(s) - 1)
          /\ Continues(d, n, k + Len(s) - 1)
    BY <1>8 DEF Collects
  <2>2. PICK k \in 1 .. lines[n].length :
          /\ lines[n].conn = d /\ k + Len(s) - 1 =< lines[n].length
          /\ k > 1 => ~ Fits(n)
          /\ s = Text(n, k, k + Len(s) - 1)
          /\ Continues(d, n, k + Len(s) - 1)
    BY <2>1
  <2>3. k + Len(s) - 1 \in Nat
    BY LineType, LenProperties
  <2>4. Continues(d, n, k + Len(s) - 1)'
    BY <1>7, <2>2, <2>3
  <2>5. Text(n, k, k + Len(s) - 1)' = Text(n, k, k + Len(s) - 1)
    BY DEF Text
  <2> QED  BY <1>1, <1>4, <2>2, <2>4, <2>5 DEF Collects
<1>9. InputInv'
  <2> SUFFICES ASSUME NEW i \in Slots, NEW d \in Connections, NEW s,
                      d = clients[i], s = inputString[i]
               PROVE  SlotReads(d, s)'
    BY <1>3 DEF InputInv
  <2>1. SlotReads(d, s) /\ s \in Seq(Bytes)
    BY DEF LineInv, InputInv, TypeOK
  <2> QED  BY <1>6, <1>8, <2>1 DEF SlotReads
<1>10. WaitInv'
  BY <1>1, <1>4 DEF LineInv, WaitInv
<1>11. HandedInv'
  BY <1>1, <1>3, <1>4 DEF LineInv, HandedInv, Fits
<1>12. LinesNotMixed'
  BY <1>1, <1>3 DEF LineInv, LinesNotMixed
<1> QED  BY <1>1, <1>5, <1>9, <1>10, <1>11, <1>12 DEF LineInv

\* What the next byte of a slot is.
LEMMA CharOfSlot ==
  ASSUME TypeOK, LineInv, Readable, NEW c, c = clients[at], NEW s, s = inputString[at]
  PROVE  /\ s = << >> => Char.place = 1 \/ ~ Fits(Char.line)
         /\ s # << >> =>
              \E k \in 1 .. lines[Char.line].length :
                \E m \in k .. lines[Char.line].length :
                  /\ k > 1 => ~ Fits(Char.line)
                  /\ s = Text(Char.line, k, m)
                  /\ Rank(lines, Char) = m + 1
<1>1. /\ at \in Slots /\ c \in Connections /\ wire[c] # << >> /\ Char = wire[c][1]
      /\ s \in Seq(Bytes)
  BY ReadableType DEF TypeOK
<1>2. SlotReads(c, s)
  BY <1>1 DEF LineInv, InputInv
<1>3. CASE s = << >>
  BY <1>1, <1>2, <1>3 DEF SlotReads, Expects
<1>4. CASE s # << >>
  <2>1. PICK n \in 1 .. Len(lines) : \E k \in 1 .. lines[n].length :
          /\ lines[n].conn = c /\ k + Len(s) - 1 =< lines[n].length
          /\ k > 1 => ~ Fits(n)
          /\ s = Text(n, k, k + Len(s) - 1)
          /\ Continues(c, n, k + Len(s) - 1)
    BY <1>2, <1>4 DEF SlotReads, Collects
  <2>2. PICK k \in 1 .. lines[n].length :
          /\ lines[n].conn = c /\ k + Len(s) - 1 =< lines[n].length
          /\ k > 1 => ~ Fits(n)
          /\ s = Text(n, k, k + Len(s) - 1)
          /\ Continues(c, n, k + Len(s) - 1)
    BY <2>1
  <2>4. Len(s) \in Nat \ {0}
    BY <1>1, <1>4, LenProperties, EmptySeq
  <2>a. k \in Nat \ {0}
    BY LineType
  <2>b. k + Len(s) - 1 \in Nat
    BY <2>4, <2>a
  <2>3. PICK m \in Nat : m = k + Len(s) - 1
    BY <2>b
  <2>5. m \in k .. lines[n].length /\ m # 0
    BY <2>2, <2>3, <2>4, LineType
  <2>6. Succ(lines, [line |-> n, place |-> m], Char)
    BY <1>1, <2>2, <2>3 DEF Continues
  <2>7. Rank(lines, [line |-> n, place |-> m]) = m
    BY <2>5 DEF Rank
  <2>8. Char.line = n /\ Rank(lines, Char) = m + 1
    BY <2>5, <2>6, <2>7 DEF Succ
  <2>9. s = Text(Char.line, k, m) /\ (k > 1 => ~ Fits(Char.line))
    BY <2>2, <2>3, <2>8
  <2> QED  BY <1>4, <2>5, <2>8, <2>9
<1> QED  BY <1>3, <1>4

\* Reading a byte leaves the other slots as they are, and every line that
\* waits keeps its turn.
LEMMA TakeLines ==
  ASSUME TypeOK, SlotInv, LineInv, Readable, Take,
         UNCHANGED <<lines, partial, clients, claimed>>,
         \A i \in Slots \ {at} : inputString'[i] = inputString[i],
         \A d, s : d = clients[at] /\ s = inputString'[at] => SlotReads(d, s)'
  PROVE  /\ WireInv' /\ UnclaimedInv' /\ InputInv'
         /\ \A m, n \in 1 .. Len(lines) :
              m < n /\ lines[m].conn = lines[n].conn /\ Waits(m)' => Waits(n)'
<1> DEFINE c == clients[at]
<1>1. /\ WireInv' /\ c \in Connections /\ wire[c] # << >>
      /\ Char = wire[c][1] /\ ByteOf(lines, c, Char)
      /\ \A d \in Connections \ {c} : wire'[d] = wire[d]
      /\ \A j \in 1 .. Len(wire'[c]) : Before(lines, Char, wire'[c][j])
  BY TakeFacts DEF LineInv
<1>2. at \in Slots /\ c # Nobody
  BY ReadableType DEF Readable
<1> HIDE DEF c
<1>3. \A i \in Slots \ {at} : clients[i] # c
  BY <1>2 DEF SlotInv, c
<1>4. c =< claimed
  BY <1>2 DEF SlotInv, c
<1>5. UnclaimedInv'
  <2> SUFFICES ASSUME NEW d \in Connections, d > claimed
               PROVE  /\ wire'[d] # << >> => wire'[d][1].place = 1
                      /\ wire'[d] = << >> => ~ partial[d]
    BY DEF UnclaimedInv
  <2>1. d # c
    BY <1>4 DEF TypeOK, Connections
  <2> QED  BY <1>1, <2>1 DEF LineInv, UnclaimedInv
<1>6. InputInv'
  <2> SUFFICES ASSUME NEW i \in Slots, NEW d \in Connections, NEW s,
                      d = clients[i], s = inputString'[i]
               PROVE  SlotReads(d, s)'
    BY DEF InputInv
  <2>1. CASE i = at
    BY <2>1 DEF c
  <2>2. CASE i # at
    <3>1. d # c /\ wire'[d] = wire[d] /\ s = inputString[i]
      BY <1>1, <1>3, <2>2
    <3>2. SlotReads(d, s)
      BY <3>1 DEF LineInv, InputInv
    <3>3. SlotReads(d, s)' <=> SlotReads(d, s)
      BY <3>1 DEF SlotReads, Expects, Collects, Continues, Fits, Text
    <3> QED  BY <3>2, <3>3
  <2> QED  BY <2>1, <2>2
<1>7. ASSUME NEW m \in 1 .. Len(lines), NEW n \in 1 .. Len(lines),
             m < n, lines[m].conn = lines[n].conn, Waits(m)'
      PROVE  Waits(n)'
  <2>1. Waits(m) /\ (Waits(n)' <=> Waits(n) /\ ~ (lines[n].conn = c /\ Char = Newline(n)))
    BY <1>7, TakeWaits DEF LineInv, c
  <2>2. Waits(n)
    BY <1>7, <2>1 DEF LineInv, WaitInv
  <2>3. ASSUME lines[n].conn = c, Char = Newline(n) PROVE FALSE
    <3>1. \/ partial[c] /\ Newest(lines, c, m)
          \/ \E i \in 1 .. Len(wire'[c]) : wire'[c][i] = Newline(m)
      BY <1>7, <2>3 DEF Waits, Newline, Newest
    <3>2. ~ Newest(lines, c, m)
      <4>1. n \in m + 1 .. Len(lines)
        BY <1>7, LineType
      <4> QED  BY <2>3, <4>1 DEF Newest
    <3>3. Before(lines, Newline(n), Newline(m))
      BY <1>1, <2>3, <3>1, <3>2
    <3>4. Newline(n).line = n /\ Newline(m).line = m
      BY DEF Newline
    <3> QED  BY <1>7, <3>3, <3>4, LineType DEF Before
  <2> QED  BY <2>1, <2>2, <2>3
<1> QED  BY <1>1, <1>5, <1>6, <1>7

LEMMA TextOfOne ==
  ASSUME NEW n \in Nat, NEW p \in Nat \ {0}
  PROVE  Text(n, p, p) = << [line |-> n, place |-> p] >>
<1> DEFINE x == Text(n, p, p)
           b == [line |-> n, place |-> p]
<1>1. n \in Nat /\ p \in Nat \ {0} /\ p \in Nat /\ p =< p + 1
  OBVIOUS
<1>2. /\ x \in Seq(Bytes) /\ Len(x) = p - p + 1
      /\ \A j \in 1 .. p - p + 1 : x[j] = [line |-> n, place |-> p + j - 1]
  BY ZenonT(40), <1>1, TextType
<1> HIDE DEF x
<1>3. p - p + 1 = 1 /\ p + 1 - 1 = p
  OBVIOUS
<1>4. Len(x) = 1 /\ x[1] = b
  BY <1>2, <1>3
<1>5. b \in Bytes
  BY DEF Bytes
<1> HIDE DEF b
<1>6. x = << b >>
  BY <1>2, <1>4, <1>5
<1> QED  BY <1>6 DEF x, b

\* A byte that is read is the next part of its line, or starts one.
LEMMA ReadCharacterLines ==
  ASSUME TypeOK, SlotInv, LineInv, ReadCharacter
  PROVE  LineInv'
<1>1. PICK c \in Connections : c = clients[at]
  BY ReadableType DEF ReadCharacter
<1>2. PICK s \in Seq(Bytes) : s = inputString[at]
  BY ReadableType DEF ReadCharacter, TypeOK
<1>3. /\ Readable /\ Take /\ stage = "read" /\ Char.place # 0
      /\ UNCHANGED <<stage, lines, partial, clients, claimed, handed, msg>>
      /\ inputString' = [inputString EXCEPT ![at] = Append(s, Char)]
  BY <1>2 DEF ReadCharacter, pass, slotVars, server, sender
<1>4. at \in Slots /\ inputString'[at] = Append(s, Char)
      /\ \A i \in Slots \ {at} : inputString'[i] = inputString[i]
  BY <1>3, ReadableType DEF TypeOK
<1>5. /\ Char \in Bytes /\ ByteOf(lines, c, Char)
      /\ wire'[c] # << >> => Succ(lines, Char, wire'[c][1])
      /\ wire'[c] = << >> => /\ Newest(lines, c, Char.line)
                             /\ Char.place = IF partial[c] THEN 1 ELSE 0
  BY <1>1, <1>3, TakeFacts DEF LineInv
<1>6. PICK n \in 1 .. Len(lines) : n = Char.line /\ lines[n].conn = c
  BY <1>5 DEF ByteOf
<1>7. PICK length \in Nat \ {0} : length = lines[n].length
  BY LineType
<1>8. PICK p \in 1 .. length : p = Char.place /\ Char = [line |-> n, place |-> p]
  <2>1. Char.place \in 0 .. length
    BY <1>5, <1>6, <1>7 DEF ByteOf
  <2>2. Char = [line |-> n, place |-> Char.place]
    BY <1>5, <1>6 DEF Bytes
  <2> QED  BY <1>3, <2>1, <2>2
<1>9. Rank(lines, Char) = p
  BY <1>3, <1>8 DEF Rank
<1>10. PICK k \in 1 .. p : Append(s, Char) = Text(n, k, p) /\ (k > 1 => ~ Fits(n))
  <2>1. CASE s = << >>
    <3>1. p = 1 \/ ~ Fits(n)
      BY <1>1, <1>2, <1>3, <1>6, <1>8, <2>1, CharOfSlot
    <3>2. Text(n, p, p) = << Char >>
      <4>1. n \in Nat /\ p \in Nat \ {0}
        BY LineType
      <4> QED  BY <1>8, <4>1, TextOfOne
    <3>3. Append(s, Char) = << Char >>
      BY <1>5, <2>1
    <3> QED  BY <3>1, <3>2, <3>3
  <2>2. CASE s # << >>
    <3>1. PICK k \in 1 .. length : \E m \in k .. length :
            (k > 1 => ~ Fits(n)) /\ s = Text(n, k, m) /\ Rank(lines, Char) = m + 1
      BY <1>1, <1>2, <1>3, <1>6, <1>7, <2>2, CharOfSlot
    <3>2. PICK m \in k .. length :
            (k > 1 => ~ Fits(n)) /\ s = Text(n, k, m) /\ Rank(lines, Char) = m + 1
      BY <3>1
    <3>3. p = m + 1 /\ k \in 1 .. p
      BY <1>9, <3>2
    <3>4. n \in Nat /\ k \in Nat \ {0} /\ m \in Nat /\ k =< m + 1
      BY <3>3, LineType
    <3>5. Append(Text(n, k, m), [line |-> n, place |-> m + 1]) = Text(n, k, m + 1)
      BY <3>4, TextAppend
    <3> QED  BY <1>8, <3>2, <3>3, <3>5
  <2> QED  BY <2>1, <2>2
<1>11. k \in 1 .. length /\ Len(Text(n, k, p)) = p - k + 1 /\ Text(n, k, p) # << >>
       /\ k + Len(Text(n, k, p)) - 1 = p
  <2>1. n \in Nat /\ k \in Nat \ {0} /\ p \in Nat /\ k =< p
    BY <1>7, LineType
  <2>2. Len(Text(n, k, p)) = p - k + 1 /\ Text(n, k, p) # << >>
    <3>1. p =< p + 1 /\ k =< p + 1
      BY <2>1
    <3>2. Text(n, k, p) \in Seq(Bytes) /\ Len(Text(n, k, p)) = p - k + 1
      BY ZenonT(40), <2>1, <3>1, TextType
    <3> DEFINE x == Text(n, k, p)
    <3> HIDE DEF x
    <3>3. x # << >>
      BY <2>1, <3>2 DEF x
    <3> QED  BY <3>2, <3>3 DEF x
  <2> QED  BY <2>1, <2>2
<1>12. Continues(c, n, p)'
  <2>1. wire'[c] = << >> => partial[c] /\ Newest(lines, c, n) /\ p = 1
    BY <1>3, <1>5, <1>6, <1>8
  <2>2. wire'[c] # << >> => Succ(lines, [line |-> n, place |-> p], wire'[c][1])
    BY <1>5, <1>8
  <2> QED  BY <1>3, <2>1, <2>2 DEF Continues, Newest
<1>13. ASSUME NEW d, NEW x, d = clients[at], x = inputString'[at]
       PROVE  SlotReads(d, x)'
  <2>1. d = c /\ x = Text(n, k, p)
    BY <1>1, <1>4, <1>10, <1>13
  <2>2. Collects(d, x)' <=>
          \E i \in 1 .. Len(lines) : \E j \in 1 .. lines[i].length :
            /\ lines[i].conn = d /\ j + Len(x) - 1 =< lines[i].length
            /\ j > 1 => ~ Fits(i)
            /\ x = Text(i, j, j + Len(x) - 1)
            /\ Continues(d, i, j + Len(x) - 1)'
    BY <1>3 DEF Collects, Text, Fits
  <2>3. k + Len(x) - 1 = p /\ Continues(d, n, k + Len(x) - 1)'
    BY <1>11, <1>12, <2>1
  <2>4. Collects(d, x)'
    BY <1>6, <1>7, <1>8, <1>10, <1>11, <2>1, <2>2, <2>3
  <2> QED  BY <1>11, <2>1, <2>4 DEF SlotReads
<1>14. /\ WireInv' /\ UnclaimedInv' /\ InputInv'
       /\ \A a, b \in 1 .. Len(lines) :
            a < b /\ lines[a].conn = lines[b].conn /\ Waits(a)' => Waits(b)'
  BY <1>3, <1>4, <1>13, TakeLines
<1>15. \A a \in 1 .. Len(lines) : /\ Waits(a)' <=> Waits(a)
                                  /\ Doing(a)' <=> Doing(a)
                                  /\ Done(a)' <=> Done(a)
                                  /\ Fits(a)' <=> Fits(a)
  <2>1. \A a : Newline(a).place = 0
    BY DEF Newline
  <2> QED  BY <1>3, <2>1, TakeWaits DEF LineInv, Doing, Done, Fits, Text
<1>16. WaitInv'
  BY <1>3, <1>14, <1>15 DEF LineInv, WaitInv
<1>17. HandedInv'
  BY <1>3, <1>15 DEF LineInv, HandedInv, Fits
<1>18. LinesNotMixed'
  BY <1>3 DEF LinesNotMixed
<1> QED  BY <1>14, <1>16, <1>17, <1>18 DEF LineInv

\* When the newline of a line that fits is read, the buffer has the whole line,
\* and no other part of a line is ever taken for one.
LEMMA ReadNewlineLines ==
  ASSUME TypeOK, SlotInv, LineInv, ReadNewline
  PROVE  LineInv'
<1>1. PICK c \in Connections : c = clients[at]
  BY ReadableType DEF ReadNewline
<1>2. PICK s \in Seq(Bytes) : s = inputString[at]
  BY ReadableType DEF ReadNewline, TypeOK
<1>3. /\ Readable /\ Take /\ stage = "read" /\ Char.place = 0
      /\ UNCHANGED <<lines, partial, clients, claimed, handed>>
      /\ inputString' = [inputString EXCEPT ![at] = << >>]
      /\ Len(s) < MaxLength - 1
      /\ \/ s # << >> /\ stage' = "handle" /\ msg' = s
         \/ ~ IsWhole(s) /\ UNCHANGED <<stage, msg>>
  BY <1>2 DEF ReadNewline, pass, slotVars, server, sender
<1>4. at \in Slots /\ inputString'[at] = << >>
      /\ \A i \in Slots \ {at} : inputString'[i] = inputString[i]
  BY <1>3, ReadableType DEF TypeOK
<1>5. /\ Char \in Bytes /\ ByteOf(lines, c, Char) /\ Char = wire[c][1]
      /\ wire[c] \in Seq(Bytes) /\ wire[c] # << >>
      /\ wire'[c] # << >> => Succ(lines, Char, wire'[c][1])
      /\ wire'[c] = << >> => Char.place = IF partial[c] THEN 1 ELSE 0
  BY <1>1, <1>3, TakeFacts DEF LineInv
<1>6. PICK n \in 1 .. Len(lines) : n = Char.line /\ lines[n].conn = c
  BY <1>5 DEF ByteOf
<1>7. PICK length \in Nat \ {0} : length = lines[n].length
  BY LineType
<1>8. Char = Newline(n) /\ Rank(lines, Char) = length + 1
  BY <1>3, <1>5, <1>6, <1>7 DEF Bytes, Newline, Rank
<1>9. ASSUME NEW d, NEW x, d = clients[at], x = inputString'[at]
      PROVE  SlotReads(d, x)'
  <2>1. d = c /\ x = << >>
    BY <1>1, <1>4, <1>9
  <2>2. wire'[c] # << >> => wire'[c][1].place = 1
    BY <1>3, <1>5 DEF Succ
  <2>3. ~ (wire'[c] = << >> /\ partial'[c])
    BY <1>3, <1>5
  <2>4. Expects(d)'
    BY <2>1, <2>2, <2>3 DEF Expects
  <2> QED  BY <2>1, <2>4 DEF SlotReads
<1>10. /\ WireInv' /\ UnclaimedInv' /\ InputInv'
       /\ \A a, b \in 1 .. Len(lines) :
            a < b /\ lines[a].conn = lines[b].conn /\ Waits(a)' => Waits(b)'
  BY <1>3, <1>4, <1>9, TakeLines
<1>11. Waits(n)
  <2>1. 1 \in 1 .. Len(wire[c])
    BY <1>5, EmptySeq
  <2> QED  BY <1>5, <1>6, <1>8, <2>1 DEF Waits
<1>12. \A a \in 1 .. Len(lines) : /\ Waits(a)' <=> Waits(a) /\ a # n
                                  /\ Done(a)' <=> Done(a)
                                  /\ Fits(a)' <=> Fits(a)
                                  /\ ~ Doing(a)
  <2>1. \A a : Newline(a) = Newline(n) => a = n
    BY DEF Newline
  <2> QED  BY <1>1, <1>3, <1>6, <1>8, <2>1, TakeWaits DEF LineInv, Done, Fits, Doing
<1>13. s # << >> => \E k \in 1 .. length : (k > 1 => ~ Fits(n)) /\ s = Text(n, k, length)
  <2> SUFFICES ASSUME s # << >>
               PROVE  \E k \in 1 .. length : (k > 1 => ~ Fits(n)) /\ s = Text(n, k, length)
    OBVIOUS
  <2>1. PICK k \in 1 .. length : \E m \in k .. length :
          (k > 1 => ~ Fits(n)) /\ s = Text(n, k, m) /\ Rank(lines, Char) = m + 1
    BY <1>1, <1>2, <1>3, <1>6, <1>7, CharOfSlot
  <2>2. PICK m \in k .. length :
          (k > 1 => ~ Fits(n)) /\ s = Text(n, k, m) /\ Rank(lines, Char) = m + 1
    BY <2>1
  <2>3. m = length
    BY <1>8, <2>2
  <2> QED  BY <2>2, <2>3
<1>14. CASE stage' = "handle"
  <2>1. s # << >> /\ msg' = s
    BY <1>3, <1>14
  <2>2. PICK k \in 1 .. length : (k > 1 => ~ Fits(n)) /\ s = Text(n, k, length)
    BY <1>13, <2>1
  <2>3. ASSUME NEW a \in 1 .. Len(lines)
        PROVE  Doing(a)' <=> a = n /\ k = 1
    <3>1. Doing(a)' <=> Text(n, k, lines[n].length) = Text(a, 1, lines[a].length)
      BY <1>3, <1>7, <1>14, <2>1, <2>2 DEF Doing, Text
    <3>2. lines \in Seq(Lines) /\ k \in 1 .. lines[n].length
      BY <1>7 DEF TypeOK
    <3> QED  BY <3>1, <3>2, SameLine
  <2>4. k = 1 => Fits(n)
    <3> SUFFICES ASSUME k = 1 PROVE Fits(n)
      OBVIOUS
    <3>1. n \in Nat /\ 1 \in Nat \ {0} /\ length \in Nat /\ 1 =< length + 1
      BY LineType
    <3>2. Len(Text(n, 1, length)) = length - 1 + 1
      BY ZenonT(40), <3>1, TextType
    <3>3. Len(s) = length
      BY <2>2, <3>2
    <3> QED  BY <1>3, <1>7, <3>3 DEF Fits
  <2>5. Fits(n) => k = 1
    BY <2>2
  <2>6. WaitInv'
    <3>1. ASSUME NEW a \in 1 .. Len(lines), Fits(a)
          PROVE  /\ Waits(a)' \/ Doing(a)' \/ Done(a)'
                 /\ ~ (Waits(a)' /\ Doing(a)') /\ ~ (Waits(a)' /\ Done(a)')
                 /\ ~ (Doing(a)' /\ Done(a)')
      BY <1>11, <1>12, <2>3, <2>5, <3>1 DEF LineInv, WaitInv
    <3> QED  BY <1>3, <1>10, <1>12, <3>1 DEF WaitInv
  <2>7. HandedInv'
    <3>1. ASSUME NEW j \in 1 .. Len(handed), lines[handed[j]].conn = lines[n].conn, k = 1
          PROVE  handed[j] < n
      <4>1. PICK h \in 1 .. Len(lines) : h = handed[j] /\ Fits(h)
        BY DEF LineInv, HandedInv
      <4>2. Done(h)
        BY <4>1 DEF Done
      <4>3. ~ Waits(h)
        BY <4>1, <4>2 DEF LineInv, WaitInv
      <4>4. h # n
        BY <1>11, <4>3
      <4>5. ~ (n < h)
        BY <1>11, <3>1, <4>1, <4>3 DEF LineInv, WaitInv
      <4>6. h \in Nat /\ n \in Nat
        BY LineType
      <4> QED  BY <4>1, <4>4, <4>5, <4>6
    <3>2. /\ \A j \in 1 .. Len(handed) : handed[j] \in 1 .. Len(lines) /\ Fits(handed[j])
          /\ \A i, j \in 1 .. Len(handed) :
               i < j /\ lines[handed[i]].conn = lines[handed[j]].conn => handed[i] < handed[j]
      BY DEF LineInv, HandedInv
    <3>3. ASSUME NEW a \in 1 .. Len(lines), Doing(a)'
          PROVE  /\ Fits(a)
                 /\ \A j \in 1 .. Len(handed) :
                      lines[handed[j]].conn = lines[a].conn => handed[j] < a
      BY <2>3, <2>4, <3>1, <3>3
    <3> QED  BY <1>3, <3>2, <3>3 DEF HandedInv, Fits
  <2>8. LinesNotMixed'
    <3>1. k > 1 => lines[n].length >= MaxLength - 1
      BY <1>7, <2>2, GatewayAssumption DEF Fits
    <3> QED  BY <1>3, <1>7, <2>1, <2>2, <3>1 DEF LinesNotMixed, Text
  <2> QED  BY <1>10, <2>6, <2>7, <2>8 DEF LineInv
<1>15. CASE stage' # "handle"
  <2>1. ~ IsWhole(s) /\ stage' = "read"
    BY <1>3, <1>15
  <2>2. ~ Fits(n)
    <3>1. CASE s = << >>
      BY <1>1, <1>2, <1>3, <1>6, <3>1, CharOfSlot
    <3>2. CASE s # << >>
      <4>1. PICK k \in 1 .. length : (k > 1 => ~ Fits(n)) /\ s = Text(n, k, length)
        BY <1>13, <3>2
      <4>2. k # 1
        BY <1>7, <2>1, <4>1 DEF IsWhole
      <4> QED  BY <4>1, <4>2
    <3> QED  BY <3>1, <3>2
  <2>3. \A a \in 1 .. Len(lines) : ~ Doing(a)'
    BY <2>1 DEF Doing
  <2>4. WaitInv'
    <3>1. ASSUME NEW a \in 1 .. Len(lines), Fits(a)
          PROVE  /\ Waits(a)' \/ Doing(a)' \/ Done(a)'
                 /\ ~ (Waits(a)' /\ Doing(a)') /\ ~ (Waits(a)' /\ Done(a)')
                 /\ ~ (Doing(a)' /\ Done(a)')
      BY <1>12, <2>2, <2>3, <3>1 DEF LineInv, WaitInv
    <3> QED  BY <1>3, <1>10, <1>12, <3>1 DEF WaitInv
  <2>5. HandedInv'
    BY <1>3, <2>3 DEF LineInv, HandedInv, Fits
  <2>6. LinesNotMixed'
    BY <1>15 DEF LinesNotMixed
  <2> QED  BY <1>10, <2>4, <2>5, <2>6 DEF LineInv
<1> QED  BY <1>14, <1>15

\* Only bytes of lines that do not fit are thrown away.
LEMMA ReadTooLongLines ==
  ASSUME TypeOK, SlotInv, LineInv, ReadTooLong
  PROVE  LineInv'
<1>1. PICK c \in Connections : c = clients[at]
  BY ReadableType DEF ReadTooLong
<1>2. PICK s \in Seq(Bytes) : s = inputString[at]
  BY ReadableType DEF ReadTooLong, TypeOK
<1>3. /\ Readable /\ Take /\ stage = "read" /\ stage' # "handle"
      /\ UNCHANGED <<lines, partial, clients, claimed, handed, msg>>
      /\ inputString' = [inputString EXCEPT ![at] = << >>]
      /\ Len(s) >= MaxLength - 1
  BY <1>2 DEF ReadTooLong, NextClient, NextSlot, slotVars, server, sender
<1>4. at \in Slots /\ inputString'[at] = << >>
      /\ \A i \in Slots \ {at} : inputString'[i] = inputString[i]
  BY <1>3, ReadableType DEF TypeOK
<1>5. /\ Char \in Bytes /\ ByteOf(lines, c, Char)
      /\ wire'[c] # << >> => Succ(lines, Char, wire'[c][1])
      /\ wire'[c] = << >> => Newest(lines, c, Char.line)
  BY <1>1, <1>3, TakeFacts DEF LineInv
<1>6. PICK n \in 1 .. Len(lines) : n = Char.line /\ lines[n].conn = c
  BY <1>5 DEF ByteOf
<1>7. PICK length \in Nat \ {0} : length = lines[n].length
  BY LineType
<1>8. ~ Fits(n)
  <2>1. length >= MaxLength - 1
    <3>1. CASE s = << >>
      BY <1>3, <3>1, GatewayAssumption
    <3>2. CASE s # << >>
      <4>1. PICK k \in 1 .. length : \E m \in k .. length : s = Text(n, k, m)
        BY <1>1, <1>2, <1>3, <1>6, <1>7, <3>2, CharOfSlot
      <4>2. PICK m \in k .. length : s = Text(n, k, m)
        BY <4>1
      <4>3. n \in Nat /\ k \in Nat \ {0} /\ m \in Nat /\ k =< m + 1
        BY LineType
      <4>4. Len(Text(n, k, m)) = m - k + 1
        BY ZenonT(40), <4>3, TextType
      <4>5. Len(s) = m - k + 1
        BY <4>2, <4>4
      <4> QED  BY <1>3, <4>5, GatewayAssumption
    <3> QED  BY <3>1, <3>2
  <2> QED  BY <1>7, <2>1, GatewayAssumption DEF Fits
<1>9. ASSUME NEW d, NEW x, d = clients[at], x = inputString'[at]
      PROVE  SlotReads(d, x)'
  <2>1. d = c /\ x = << >>
    BY <1>1, <1>4, <1>9
  <2>2. wire'[c] # << >> => wire'[c][1].place = 1 \/ wire'[c][1].line = n
    BY <1>5, <1>6 DEF Succ
  <2>3. wire'[c] = << >> => Newest(lines, c, n)
    BY <1>5, <1>6
  <2>4. Expects(d)'
    BY <1>3, <1>8, <2>1, <2>2, <2>3 DEF Expects, Fits, Newest
  <2> QED  BY <2>1, <2>4 DEF SlotReads
<1>10. /\ WireInv' /\ UnclaimedInv' /\ InputInv'
       /\ \A a, b \in 1 .. Len(lines) :
            a < b /\ lines[a].conn = lines[b].conn /\ Waits(a)' => Waits(b)'
  BY <1>3, <1>4, <1>9, TakeLines
<1>11. \A a \in 1 .. Len(lines) : /\ Fits(a) => (Waits(a)' <=> Waits(a))
                                  /\ Done(a)' <=> Done(a)
                                  /\ Fits(a)' <=> Fits(a)
                                  /\ ~ Doing(a) /\ ~ Doing(a)'
  <2>1. \A a : Char = Newline(a) => a = n
    BY <1>6 DEF Newline
  <2> QED  BY <1>3, <1>8, <2>1, TakeWaits DEF LineInv, Done, Fits, Doing
<1>12. WaitInv'
  <2>1. ASSUME NEW a \in 1 .. Len(lines), Fits(a)
        PROVE  /\ Waits(a)' \/ Doing(a)' \/ Done(a)'
               /\ ~ (Waits(a)' /\ Doing(a)') /\ ~ (Waits(a)' /\ Done(a)')
               /\ ~ (Doing(a)' /\ Done(a)')
    BY <1>11, <2>1 DEF LineInv, WaitInv
  <2> QED  BY <1>3, <1>10, <1>11, <2>1 DEF WaitInv
<1>13. HandedInv'
  BY <1>3, <1>11 DEF LineInv, HandedInv, Fits
<1>14. LinesNotMixed'
  BY <1>3 DEF LinesNotMixed
<1> QED  BY <1>10, <1>12, <1>13, <1>14 DEF LineInv

LEMMA HandleLines ==
  ASSUME TypeOK, LineInv, Handle
  PROVE  LineInv'
<1>1. /\ UNCHANGED <<lines, wire, partial, clients, claimed, inputString, msg>>
      /\ stage = "handle" /\ stage' = "inclusion"
      /\ handed' = IF IsWhole(msg) THEN Append(handed, msg[1].line) ELSE handed
  BY DEF Handle, slotVars, server, sender
<1>2. \A n \in 1 .. Len(lines) : /\ Waits(n)' <=> Waits(n)
                                 /\ ~ Doing(n)'
                                 /\ Fits(n)' <=> Fits(n)
  BY <1>1 DEF Waits, Doing, Fits, Newest, Newline
<1>3. WireInv' /\ UnclaimedInv'
  BY <1>1 DEF LineInv, WireInv, UnclaimedInv
<1>4. InputInv'
  <2> SUFFICES ASSUME NEW i \in Slots, NEW d \in Connections, NEW s,
                      d = clients[i], s = inputString[i]
               PROVE  SlotReads(d, s)'
    BY <1>1 DEF InputInv
  <2>1. SlotReads(d, s)
    BY DEF LineInv, InputInv
  <2> QED  BY <1>1, <2>1 DEF SlotReads, Expects, Collects, Continues, Fits, Text, Newest
<1>5. LinesNotMixed'
  BY <1>1 DEF LinesNotMixed
<1>6. handed \in Seq(Nat) /\ Len(handed) \in Nat
  BY LenProperties DEF TypeOK
<1>7. CASE ~ IsWhole(msg)
  <2>1. \A n \in 1 .. Len(lines) : ~ Doing(n) /\ (Done(n)' <=> Done(n))
    BY <1>1, <1>7 DEF IsWhole, Doing, Done
  <2>2. WaitInv'
    BY <1>1, <1>2, <2>1 DEF LineInv, WaitInv
  <2>3. HandedInv'
    BY <1>1, <1>2, <1>7 DEF LineInv, HandedInv, Fits
  <2> QED  BY <1>3, <1>4, <1>5, <2>2, <2>3 DEF LineInv
<1>8. CASE IsWhole(msg)
  <2>1. PICK p \in 1 .. Len(lines) : msg = Text(p, 1, lines[p].length)
    BY <1>8 DEF IsWhole
  <2>2. p \in Nat /\ Doing(p)
    BY <1>1, <2>1, LineType DEF Doing
  <2>3. msg[1].line = p
    <3>1. PICK length \in Nat \ {0} : length = lines[p].length
      BY LineType
    <3>2. 1 \in Nat \ {0} /\ length \in Nat /\ 1 =< length
      OBVIOUS
    <3>3. Text(p, 1, length)[1] = [line |-> p, place |-> 1]
      BY ZenonT(40), <2>2, <3>2, TextFirst
    <3>4. msg[1] = [line |-> p, place |-> 1]
      BY <2>1, <3>1, <3>3
    <3> QED  BY <3>4
  <2>4. /\ Len(handed') = Len(handed) + 1
        /\ \A j \in 1 .. Len(handed) : handed'[j] = handed[j]
        /\ handed'[Len(handed) + 1] = p
    BY <1>1, <1>6, <1>8, <2>2, <2>3, AppendProperties
  <2>5. \A n \in 1 .. Len(lines) : Doing(n) <=> n = p
    <3>1. ASSUME NEW n \in 1 .. Len(lines), Doing(n) PROVE n = p
      <4>1. Text(n, 1, lines[n].length) = Text(p, 1, lines[p].length)
        BY <2>1, <3>1 DEF Doing
      <4>2. lines \in Seq(Lines) /\ 1 \in 1 .. lines[p].length
        BY LineType DEF TypeOK
      <4> QED  BY <4>1, <4>2, SameLine
    <3> QED  BY <2>2, <3>1
  <2>6. \A n \in 1 .. Len(lines) : Done(n)' <=> Done(n) \/ n = p
    <3> SUFFICES ASSUME NEW n \in 1 .. Len(lines)
                 PROVE  (\E j \in 1 .. Len(handed') : handed'[j] = n)
                          <=> (\E j \in 1 .. Len(handed) : handed[j] = n) \/ n = p
      BY DEF Done
    <3>1. 1 .. Len(handed') = (1 .. Len(handed)) \cup {Len(handed) + 1}
      BY <1>6, <2>4
    <3> QED  BY <2>4, <3>1
  <2>7. WaitInv'
    <3>1. ASSUME NEW n \in 1 .. Len(lines), Fits(n)
          PROVE  /\ Waits(n) \/ Done(n)'
                 /\ ~ (Waits(n) /\ Done(n)')
      BY <2>5, <2>6, <3>1 DEF LineInv, WaitInv
    <3> QED  BY <1>1, <1>2, <3>1 DEF LineInv, WaitInv
  <2>8. /\ Fits(p)
        /\ \A j \in 1 .. Len(handed) :
             lines[handed[j]].conn = lines[p].conn => handed[j] < p
    BY <2>2 DEF LineInv, HandedInv
  <2>9. HandedInv'
    <3>1. ASSUME NEW j \in 1 .. Len(handed')
          PROVE  handed'[j] \in 1 .. Len(lines) /\ Fits(handed'[j])
      <4>1. CASE j \in 1 .. Len(handed)
        BY <2>4, <4>1 DEF LineInv, HandedInv
      <4>2. CASE j = Len(handed) + 1
        BY <2>4, <2>8, <4>2
      <4> QED  BY <1>6, <2>4, <4>1, <4>2
    <3>2. ASSUME NEW i \in 1 .. Len(handed'), NEW j \in 1 .. Len(handed'), i < j,
                 lines[handed'[i]].conn = lines[handed'[j]].conn
          PROVE  handed'[i] < handed'[j]
      <4>1. i \in 1 .. Len(handed)
        BY <1>6, <2>4, <3>2
      <4>2. CASE j \in 1 .. Len(handed)
        BY <2>4, <3>2, <4>1, <4>2 DEF LineInv, HandedInv
      <4>3. CASE j = Len(handed) + 1
        BY <2>4, <2>8, <3>2, <4>1, <4>3
      <4> QED  BY <1>6, <2>4, <4>2, <4>3
    <3> QED  BY <1>1, <1>2, <3>1, <3>2 DEF HandedInv, Fits
  <2> QED  BY <1>3, <1>4, <1>5, <2>7, <2>9 DEF LineInv
<1> QED  BY <1>7, <1>8

LEMMA LineInit == Init => LineInv
<1> SUFFICES ASSUME Init PROVE LineInv
  OBVIOUS
<1>1. /\ stage = "inclusion" /\ lines = << >> /\ handed = << >>
      /\ \A c \in Connections : wire[c] = << >> /\ ~ partial[c]
      /\ \A i \in Slots : clients[i] = Nobody
  BY DEF Init
<1>2. Len(<< >>) = 0 /\ 1 .. 0 = {}
  OBVIOUS
<1>3. WireInv
  BY <1>1, <1>2 DEF WireInv, Stream
<1>4. UnclaimedInv
  BY <1>1 DEF UnclaimedInv
<1>5. InputInv
  BY <1>1 DEF InputInv, Connections
<1>6. WaitInv
  BY <1>1, <1>2 DEF WaitInv
<1>7. HandedInv
  BY <1>1, <1>2 DEF HandedInv
<1>8. LinesNotMixed
  BY <1>1 DEF LinesNotMixed
<1> QED  BY <1>3, <1>4, <1>5, <1>6, <1>7, <1>8 DEF LineInv

LEMMA LineNext == TypeOK /\ SlotInv /\ LineInv /\ [Next]_vars => LineInv'
<1> SUFFICES ASSUME TypeOK, SlotInv, LineInv, [Next]_vars PROVE LineInv'
  OBVIOUS
<1>1. claimed \in Nat /\ claimed' \in Nat
  BY TypeNext DEF TypeOK
<1>2. ASSUME UNCHANGED <<lines, wire, partial, handed, msg, clients, inputString>>,
             claimed =< claimed', stage' = "handle" <=> stage = "handle"
      PROVE  LineInv'
  <2>1. InputInv'
    <3> SUFFICES ASSUME NEW i \in Slots, NEW d \in Connections, NEW s,
                        d = clients[i], s = inputString[i]
                 PROVE  SlotReads(d, s)'
      BY <1>2 DEF InputInv
    <3>1. SlotReads(d, s)
      BY DEF LineInv, InputInv
    <3> QED
      BY <1>2, <3>1 DEF SlotReads, Expects, Collects, Continues, Fits, Text, Newest
  <2> QED  BY <1>1, <1>2, <2>1, QuietLines
<1> USE DEF pass, slotVars, inclusion, server, sender
<1>3. CASE Connect \/ Tick \/ UNCHANGED vars
  <2>1. /\ UNCHANGED <<lines, wire, partial, handed, msg, clients, inputString>>
        /\ UNCHANGED <<claimed, stage>>
    BY <1>3 DEF Connect, Tick, vars
  <2> QED  BY <1>1, <1>2, <2>1
<1>4. ASSUME NEW c \in Connections, Close(c) PROVE LineInv'
  <2>1. /\ UNCHANGED <<lines, wire, partial, handed, msg, clients, inputString>>
        /\ UNCHANGED <<claimed, stage>>
    BY <1>4 DEF Close
  <2> QED  BY <1>1, <1>2, <2>1
<1>5. CASE InclusionProcess \/ ReadNothing
  <2>1. /\ UNCHANGED <<lines, wire, partial, handed, msg, clients, inputString>>
        /\ UNCHANGED claimed
    BY <1>5 DEF InclusionProcess, ReadNothing
  <2>2. stage # "handle" /\ stage' # "handle"
    BY <1>5 DEF InclusionProcess, ReadNothing, NextClient, NextSlot
  <2> QED  BY <1>1, <1>2, <2>1, <2>2
<1>6. CASE Reject
  <2>1. /\ UNCHANGED <<lines, wire, partial, handed, msg, clients, inputString>>
        /\ claimed =< claimed' /\ stage # "handle" /\ stage' # "handle"
    BY <1>1, <1>6 DEF Reject
  <2> QED  BY <1>2, <2>1
<1>7. ASSUME NEW c \in Connections, StartLine(c) \/ EndLine(c) PROVE LineInv'
  BY <1>7, StartLineLines, EndLineLines
<1>8. CASE CheckSlot \/ ReadCharacter \/ ReadNewline \/ ReadTooLong \/ Handle
  BY <1>8, CheckSlotLines, ReadCharacterLines, ReadNewlineLines, ReadTooLongLines,
     HandleLines
<1> QED
  BY <1>3, <1>4, <1>5, <1>6, <1>7, <1>8 DEF Next, Controller, Process

\* Text of two lines, or of a client that left and of the one that took its
\* slot, is never put together to one message (_readFromClient, and the reset
\* of its buffer for a new client).
THEOREM LinesKeptApart == Spec => []LinesNotMixed
<1>1. LineInv => LinesNotMixed
  BY DEF LineInv
<1> QED
  BY <1>1, TypeInit, TypeNext, SlotInit, SlotNext, LineInit, LineNext, PTL DEF Spec

\* Every line that fits into the buffer is handed over once and in order:
\* before it came exactly the lines its connection sent before it.
THEOREM EveryLineOnce == Spec => []EachLineOnce
<1>1. TypeOK /\ LineInv => EachLineOnce
  <2> SUFFICES ASSUME TypeOK, LineInv, NEW j \in 1 .. Len(handed)
               PROVE  /\ handed[j] \in 1 .. Len(lines) /\ Fits(handed[j])
                      /\ \A n \in 1 .. Len(lines) :
                           Fits(n) /\ lines[n].conn = lines[handed[j]].conn =>
                             (n < handed[j] <=> \E i \in 1 .. j - 1 : handed[i] = n)
    BY DEF EachLineOnce
  <2>1. PICK h \in 1 .. Len(lines) : h = handed[j] /\ Fits(h)
    BY DEF LineInv, HandedInv
  <2>2. Done(h) /\ ~ Waits(h)
    BY <2>1 DEF Done, LineInv, WaitInv
  <2>3. Len(handed) \in Nat /\ h \in Nat
    BY LenProperties, LineType DEF TypeOK
  <2>4. ASSUME NEW n \in 1 .. Len(lines), Fits(n), lines[n].conn = lines[h].conn
        PROVE  n < h <=> \E i \in 1 .. j - 1 : handed[i] = n
    <3>1. ASSUME NEW i \in 1 .. j - 1, handed[i] = n
          PROVE  n < h
      <4>1. i \in 1 .. Len(handed) /\ i < j
        BY <2>3
      <4> QED  BY <2>1, <2>4, <3>1, <4>1 DEF LineInv, HandedInv
    <3>2. ASSUME n < h
          PROVE  \E i \in 1 .. j - 1 : handed[i] = n
      <4>1. ~ Waits(n)
        BY <2>2, <2>4, <3>2 DEF LineInv, WaitInv
      <4>2. ~ Doing(n)
        <5>1. ASSUME Doing(n) PROVE h < n
          BY <2>1, <2>4, <5>1 DEF LineInv, HandedInv
        <5> QED  BY <2>3, <3>2, <5>1, LineType
      <4>3. PICK i \in 1 .. Len(handed) : handed[i] = n
        BY <2>4, <4>1, <4>2 DEF LineInv, WaitInv, Done
      <4>4. ~ (j < i)
        <5>1. ASSUME j < i PROVE h < n
          BY <2>1, <2>4, <4>3, <5>1 DEF LineInv, HandedInv
        <5> QED  BY <2>3, <3>2, <5>1, LineType
      <4>5. j # i
        BY <2>1, <2>3, <3>2, <4>3
      <4> QED  BY <2>3, <4>3, <4>4, <4>5
    <3> QED  BY <3>1, <3>2
  <2> QED  BY <2>1, <2>4
<1> QED
  BY <1>1, TypeInit, TypeNext, SlotInit, SlotNext, LineInit, LineNext, PTL DEF Spec

-----------------------------------------------------------------------------
(* No line is left where nobody reads it *)

\* Only connections that arrived are open or sent anything.
ArrivedInv ==
  /\ \A c \in Connections : open[c] => c =< arrived
  /\ \A n \in 1 .. Len(lines) : lines[n].conn =< arrived

\* A connection that was taken and not rejected keeps its slot as long as it is
\* open or has sent something that was not read.
KeptInv ==
  \A c \in Connections :
    c =< claimed /\ c \notin rejected /\ Connected(c) =>
      \E i \in Slots : clients[i] = c

LEMMA ArrivedNext == TypeOK /\ ArrivedInv /\ [Next]_vars => ArrivedInv'
<1> SUFFICES ASSUME TypeOK, ArrivedInv, [Next]_vars PROVE ArrivedInv'
  OBVIOUS
<1> USE DEF pass, slotVars, inclusion, server, sender
<1>1. arrived \in Nat /\ \A c \in Connections : c \in Nat
  BY DEF TypeOK, Connections
<1>2. CASE Connect
  <2>1. /\ arrived' = arrived + 1 /\ lines' = lines
        /\ \A c \in Connections : open'[c] => open[c] \/ c = arrived + 1
    BY <1>2 DEF Connect, TypeOK
  <2>2. \A n \in 1 .. Len(lines) : lines[n].conn \in Nat
    BY <1>1, LineType
  <2> QED  BY <1>1, <2>1, <2>2 DEF ArrivedInv
<1>3. ASSUME NEW c \in Connections, StartLine(c) PROVE ArrivedInv'
  <2>1. PICK length \in Lengths : lines' = Append(lines, [conn |-> c, length |-> length])
    BY <1>3 DEF StartLine
  <2>2. [conn |-> c, length |-> length] \in Lines /\ lines \in Seq(Lines)
    BY DEF Lines, TypeOK
  <2>3. /\ Len(lines') = Len(lines) + 1 /\ Len(lines) \in Nat
        /\ \A n \in 1 .. Len(lines) : lines'[n] = lines[n]
        /\ lines'[Len(lines) + 1] = [conn |-> c, length |-> length]
    BY <2>1, <2>2, AppendProperties, LenProperties
  <2>4. c =< arrived /\ UNCHANGED <<arrived, open>>
    BY <1>3 DEF StartLine, ArrivedInv
  <2>5. ASSUME NEW n \in 1 .. Len(lines') PROVE lines'[n].conn =< arrived
    <3>1. CASE n \in 1 .. Len(lines)
      BY <2>3, <3>1 DEF ArrivedInv
    <3>2. CASE n = Len(lines) + 1
      BY <2>3, <2>4, <3>2
    <3> QED  BY <2>3, <3>1, <3>2
  <2> QED  BY <2>4, <2>5 DEF ArrivedInv
<1>4. ASSUME UNCHANGED <<lines, arrived>>, \A c \in Connections : open'[c] => open[c]
      PROVE  ArrivedInv'
  BY <1>4 DEF ArrivedInv
<1>5. ASSUME NEW c \in Connections, Close(c) \/ EndLine(c) PROVE ArrivedInv'
  BY <1>4, <1>5 DEF Close, EndLine, TypeOK
<1>6. CASE Process \/ Tick \/ UNCHANGED vars
  <2>1. UNCHANGED <<lines, arrived>> /\ (UNCHANGED open \/ Reject)
    BY <1>6 DEF Process, InclusionProcess, CheckSlot, Reject, ReadCharacter, ReadNewline,
       ReadTooLong, ReadNothing, Handle, Tick, vars
  <2>2. \A c \in Connections : open'[c] => open[c]
    BY <2>1 DEF Reject, TypeOK
  <2> QED  BY <1>4, <2>1, <2>2
<1> QED
  BY <1>2, <1>3, <1>5, <1>6 DEF Next, Controller

LEMMA KeptNext ==
  TypeOK /\ SlotInv /\ ArrivedInv /\ KeptInv /\ [Next]_vars => KeptInv'
<1> SUFFICES ASSUME TypeOK, SlotInv, ArrivedInv, KeptInv, [Next]_vars PROVE KeptInv'
  OBVIOUS
<1> USE DEF pass, slotVars, inclusion, server, sender
<1>1. /\ arrived \in Nat /\ claimed \in 0 .. arrived
      /\ \A c \in Connections : c \in Nat \ {0} /\ c # Nobody
      /\ clients \in [Slots -> Connections \cup {Nobody}]
  BY DEF TypeOK, Connections
\* Who comes to be connected is open, and those who were taken stay so.
<1>2. ASSUME UNCHANGED <<clients, claimed, rejected>>,
             \A c \in Connections : c =< claimed /\ Connected(c)' => Connected(c)
      PROVE  KeptInv'
  BY <1>2 DEF KeptInv
<1>3. CASE Connect
  <2>1. ASSUME NEW c \in Connections, c =< claimed
        PROVE  open'[c] = open[c] /\ wire'[c] = wire[c]
    <3>1. c # arrived + 1
      BY <1>1, <2>1
    <3> QED  BY <1>3, <3>1 DEF Connect, TypeOK
  <2>2. UNCHANGED <<clients, claimed, rejected>>
    BY <1>3 DEF Connect
  <2> QED  BY <1>2, <2>1, <2>2 DEF Connected
<1>4. ASSUME NEW d \in Connections, Close(d) \/ StartLine(d) \/ EndLine(d)
      PROVE  KeptInv'
  <2>1. UNCHANGED <<clients, claimed, rejected>>
    BY <1>4 DEF Close, StartLine, EndLine
  <2>2. \A c \in Connections : open'[c] => open[c]
    BY <1>4 DEF Close, StartLine, EndLine, TypeOK
  <2>3. \A c \in Connections : wire'[c] = wire[c] \/ (c = d /\ open[d])
    BY <1>4 DEF Close, StartLine, EndLine, TypeOK
  <2> QED  BY <1>2, <2>1, <2>2, <2>3 DEF Connected
<1>5. CASE InclusionProcess \/ ReadNothing \/ Handle \/ Tick \/ UNCHANGED vars
  <2>1. UNCHANGED <<clients, claimed, rejected, open, wire>>
    BY <1>5 DEF InclusionProcess, ReadNothing, Handle, Tick, vars
  <2> QED  BY <1>2, <2>1 DEF Connected
<1>6. CASE ReadCharacter \/ ReadNewline \/ ReadTooLong
  <2>1. UNCHANGED <<clients, claimed, rejected, open>> /\ Readable /\ Take
    BY <1>6 DEF ReadCharacter, ReadNewline, ReadTooLong
  <2>2. \A c \in Connections : wire'[c] # << >> => wire[c] # << >>
    BY <2>1, ReadableType DEF TypeOK
  <2> QED  BY <1>2, <2>1, <2>2 DEF Connected
<1>7. CASE CheckSlot
  <2>1. /\ at \in Slots /\ UNCHANGED <<open, wire, rejected>>
        /\ \A i \in Slots : clients'[i] = IF i = at THEN ClientOf(at) ELSE clients[i]
    BY <1>1, <1>7 DEF CheckSlot, TypeOK
  <2>2. \/ ClientOf(at) = clients[at] /\ claimed' = claimed
        \/ ~ Connected(clients[at]) /\ claimed' = claimed
        \/ /\ ~ Connected(clients[at]) /\ ClientOf(at) = claimed + 1
           /\ claimed' = claimed + 1
    BY <1>7 DEF CheckSlot, ClientOf, HasClient
  <2>3. ASSUME NEW c \in Connections, c =< claimed', c \notin rejected, Connected(c)
        PROVE  \E i \in Slots : clients'[i] = c
    <3>1. CASE c =< claimed
      <4>1. PICK i \in Slots : clients[i] = c
        BY <2>3, <3>1 DEF KeptInv
      <4> QED  BY <2>1, <2>2, <2>3, <4>1
    <3>2. CASE ~ (c =< claimed)
      <4>1. c = claimed + 1 /\ ClientOf(at) = claimed + 1
        BY <1>1, <2>2, <2>3, <3>2
      <4> QED  BY <2>1, <4>1
    <3> QED  BY <3>1, <3>2
  <2>4. \A c : Connected(c)' <=> Connected(c)
    BY <2>1 DEF Connected
  <2> QED  BY <2>1, <2>3, <2>4 DEF KeptInv
<1>8. CASE Reject
  <2>1. /\ UNCHANGED <<clients, wire>> /\ rejected \subseteq rejected'
        /\ \/ claimed' = claimed
           \/ claimed' = claimed + 1 /\ claimed + 1 \in rejected'
        /\ \A c \in Connections : open'[c] => open[c]
    BY <1>8 DEF Reject, TypeOK
  <2>2. ASSUME NEW c \in Connections, c =< claimed', c \notin rejected', Connected(c)'
        PROVE  \E i \in Slots : clients[i] = c
    <3>1. c =< claimed
      BY <1>1, <2>1, <2>2
    <3>2. Connected(c)
      BY <2>1, <2>2 DEF Connected
    <3> QED  BY <2>1, <2>2, <3>1, <3>2 DEF KeptInv
  <2> QED  BY <2>1, <2>2 DEF KeptInv
<1> QED
  BY <1>3, <1>4, <1>5, <1>6, <1>7, <1>8 DEF Next, Controller, Process

\* Where a line is that was sent as a whole, fits into the buffer and was
\* neither handed over nor refused with its connection: at the handler; or
\* unread, its newline with it, in a slot, also if the controller has closed
\* the connection; or with a connection that waits to be taken.  It is the part
\* of LinesHandled that does not need fairness.
OnWire(n) ==
  \E k \in 1 .. Len(wire[lines[n].conn]) : wire[lines[n].conn][k] = Newline(n)

NoLineForgotten ==
  \A n \in Sent \ Settled :
    \/ stage = "handle" /\ msg = Text(n, 1, lines[n].length)
    \/ /\ OnWire(n)
       /\ \/ \E i \in Slots : clients[i] = lines[n].conn
          \/ lines[n].conn \in claimed + 1 .. arrived

THEOREM LinesStayInReach == Spec => []NoLineForgotten
<1>1. Init => ArrivedInv /\ KeptInv
  BY DEF Init, ArrivedInv, KeptInv, Connected
<1>2. TypeOK /\ ArrivedInv /\ KeptInv /\ LineInv => NoLineForgotten
  <2> SUFFICES ASSUME TypeOK, ArrivedInv, KeptInv, LineInv,
                      NEW n \in Sent \ Settled, ~ Doing(n)
               PROVE  /\ OnWire(n)
                      /\ \/ \E i \in Slots : clients[i] = lines[n].conn
                         \/ lines[n].conn \in claimed + 1 .. arrived
    BY DEF NoLineForgotten, Doing
  <2>1. n \in 1 .. Len(lines) /\ Fits(n) /\ ~ Done(n) /\ lines[n].conn \notin rejected
    BY DEF Sent, Settled, Done
  <2>2. Waits(n)
    BY <2>1 DEF LineInv, WaitInv
  <2>3. ~ (partial[lines[n].conn] /\ Newest(lines, lines[n].conn, n))
    BY DEF Sent, IsLast, Newest
  <2>4. OnWire(n)
    BY <2>2, <2>3 DEF Waits, OnWire
  <2>5. PICK c \in Connections : c = lines[n].conn
    BY <2>1, LineType
  <2>6. Connected(c)
    <3>1. wire[c] # << >>
      BY <2>4, <2>5 DEF OnWire
    <3> QED  BY <3>1 DEF Connected, Connections
  <2>7. c \in Nat /\ c =< arrived /\ claimed \in Nat /\ arrived \in Nat
    BY <2>1, <2>5 DEF ArrivedInv, TypeOK, Connections
  <2>8. CASE c =< claimed
    BY <2>1, <2>4, <2>5, <2>6, <2>8 DEF KeptInv
  <2>9. CASE ~ (c =< claimed)
    BY <2>4, <2>5, <2>7, <2>9
  <2> QED  BY <2>8, <2>9
<1> QED
  BY <1>1, <1>2, TypeInit, TypeNext, SlotInit, SlotNext, LineInit, LineNext,
     ArrivedNext, KeptNext, PTL DEF Spec

-----------------------------------------------------------------------------
(* The timer of inclusion mode *)

\* The age the program computes is the time the mode has been on.
TimerInv ==
  /\ inclusionMode \in {"on", "off"} /\ onFor \in 0 .. Duration + 1
  /\ inclusionMode = "on" => inclusionAge = onFor
  /\ inclusionMode = "off" => onFor = 0

LEMMA SetModeTimer ==
  ASSUME TimerInv, NEW mode \in {"on", "off"}, SetMode(mode),
         onFor' = IF inclusionMode' = "on" THEN onFor ELSE 0
  PROVE  TimerInv'
<1>1. inclusionMode' = mode /\ 0 \in 0 .. Duration + 1
  BY GatewayAssumption DEF SetMode
<1>2. CASE mode = inclusionMode
  BY <1>1, <1>2 DEF SetMode, TimerInv
<1>3. CASE mode # inclusionMode
  BY <1>1, <1>3 DEF SetMode, TimerInv
<1> QED
  BY <1>2, <1>3

LEMMA TimerNext == TimerInv /\ [MCNext]_mcVars => TimerInv'
<1> SUFFICES ASSUME TimerInv, [MCNext]_mcVars PROVE TimerInv'
  OBVIOUS
<1>1. CASE Tick /\ onFor' = IF onFor > Duration THEN onFor ELSE onFor + 1
  <2>1. /\ inclusionMode = "on" /\ UNCHANGED inclusionMode
        /\ inclusionAge < Duration + 1 /\ inclusionAge' = inclusionAge + 1
    BY <1>1 DEF Tick
  <2> QED
    BY <1>1, <2>1, GatewayAssumption DEF TimerInv
<1>2. CASE /\ Controller \/ Process
           /\ onFor' = IF inclusionMode' = "on" THEN onFor ELSE 0
  <2>1. CASE UNCHANGED inclusion
    BY <1>2, <2>1 DEF TimerInv, inclusion
  <2>2. CASE InclusionProcess
    BY <1>2, <2>1, <2>2, SetModeTimer DEF InclusionProcess
  <2>3. CASE Handle
    BY <1>2, <2>1, <2>3, SetModeTimer DEF Handle
  <2>4. Controller => UNCHANGED inclusion
    BY DEF Controller, Connect, Close, StartLine, EndLine
  <2>5. CheckSlot \/ Reject => UNCHANGED inclusion
    BY DEF CheckSlot, Reject
  <2>6. ReadCharacter \/ ReadNewline \/ ReadTooLong \/ ReadNothing => UNCHANGED inclusion
    BY DEF ReadCharacter, ReadNewline, ReadTooLong, ReadNothing
  <2> QED
    BY <1>2, <2>1, <2>2, <2>3, <2>4, <2>5, <2>6 DEF Process
<1>3. CASE UNCHANGED mcVars
  BY <1>3 DEF TimerInv, mcVars, vars
<1> QED
  BY <1>1, <1>2, <1>3 DEF MCNext

\* For every duration, and however often the mode is asked for while it is on:
\* the first pass that begins after its time ends it.
THEOREM InclusionIsOnTime == MCSpec => InclusionEndsOnTime
<1>1. MCInit => TimerInv
  BY GatewayAssumption DEF MCInit, Init, TimerInv
<1>2. TimerInv /\ [MCNext]_mcVars =>
        [stage = "inclusion" /\ stage' # "inclusion" /\ onFor > Duration
           => inclusionMode' = "off"]_mcVars
  <2> SUFFICES ASSUME TimerInv, MCNext, stage = "inclusion", stage' # "inclusion",
                      onFor > Duration
               PROVE  inclusionMode' = "off"
    OBVIOUS
  <2>1. InclusionProcess
    BY DEF MCNext, Controller, Process, Tick, Connect, Close, StartLine, EndLine, pass,
       CheckSlot, Reject, ReadCharacter, ReadNewline, ReadTooLong, ReadNothing, Handle
  <2>2. inclusionMode = "on" /\ inclusionAge = onFor
    BY GatewayAssumption DEF TimerInv
  <2> QED
    BY <2>1, <2>2 DEF InclusionProcess, SetMode
<1> QED
  BY <1>1, <1>2, TimerNext, PTL DEF MCSpec, InclusionEndsOnTime

=============================================================================
