------------------------------- MODULE Gateway -------------------------------
(***************************************************************************)
(* The controller's side of the ESP8266 gateway in server mode             *)
(* (MyGatewayTransportEthernet.cpp, MyGatewayTransport.cpp) and its        *)
(* inclusion mode (MyInclusionMode.cpp): a fixed number of client slots,   *)
(* each with a buffer in which lines are put together byte by byte, and a  *)
(* mode that a client starts and a client or a timer ends.                 *)
(*                                                                         *)
(* One pass of _process() is a sequence of steps: inclusionProcess(), a    *)
(* test of every slot, the rejection of a client nobody has a slot for,    *)
(* and the reading of the slots in order, which ends with the first whole  *)
(* message.  Controllers connect, send pieces of lines and close at any    *)
(* time.  A byte is the line it belongs to and its place there; the        *)
(* newline has place 0.  Connections and lines are numbered as they come.  *)
(***************************************************************************)
EXTENDS Integers, Sequences, FiniteSets

CONSTANTS
  MaxClients,         \* MY_GATEWAY_MAX_CLIENTS
  MaxLength,          \* MY_GATEWAY_MAX_RECEIVE_LENGTH
  Duration,           \* MY_INCLUSION_MODE_DURATION
  Lengths,            \* characters of the lines controllers send
  MaxConnections,     \* bound: connections
  MaxClosed,          \* bound: those a controller closes
  MaxLines            \* bound: lines sent

ASSUME GatewayAssumption ==
  /\ MaxClients \in Nat \ {0} /\ MaxLength \in Nat \ {0}
  /\ Duration \in Nat /\ Lengths \subseteq Nat \ {0}

ASSUME GatewayBoundAssumption ==
  MaxConnections \in Nat /\ MaxClosed \in Nat /\ MaxLines \in Nat

Slots == 1 .. MaxClients
Connections == 1 .. MaxConnections
Nobody == 0           \* a WiFiClient without a connection
Stages == {"inclusion", "slots", "reject", "read", "handle"}
Lines == [conn : Connections, length : Lengths]
Bytes == [line : Nat, place : Nat]

VARIABLES
  \* the gateway
  stage, at,          \* where the pass is, and at which slot
  clients,            \* the connection of every slot
  clientsConnected,   \* what the last pass found
  inputString,        \* the characters collected of every slot
  msg,                \* _ethernetMsg, the line that was parsed last
  inclusionMode,
  inclusionAge,       \* since _inclusionStartTime, while it is on
  \* the network
  arrived, claimed,   \* connections that arrived, and that the server took
  open,               \* not closed by either side
  wire,               \* bytes sent and not read
  lines, partial,     \* the lines sent; the last one is not complete
  \* history
  rejected,           \* connections that got no slot
  handed,             \* the lines that were handed over
  told                \* the last mode every connection was told

pass == <<stage, at>>
slotVars == <<clients, clientsConnected>>
inclusion == <<inclusionMode, inclusionAge, told>>
server == <<arrived, claimed, rejected>>
sender == <<lines, partial>>
vars == <<stage, at, clients, clientsConnected, inputString, msg, inclusionMode,
          inclusionAge, arrived, claimed, open, wire, lines, partial, rejected,
          handed, told>>

Modes == {"nothing", "on", "off"}

TypeOK ==
  /\ stage \in Stages /\ at \in Slots
  /\ clients \in [Slots -> Connections \cup {Nobody}]
  /\ clientsConnected \in [Slots -> BOOLEAN]
  /\ inputString \in [Slots -> Seq(Bytes)]
  /\ \A i \in Slots : Len(inputString[i]) < MaxLength   \* room for the 0 byte
  /\ msg \in Seq(Bytes)
  /\ inclusionMode \in {"on", "off"} /\ inclusionAge \in 0 .. Duration + 1
  /\ arrived \in 0 .. MaxConnections /\ claimed \in 0 .. arrived
  /\ open \in [Connections -> BOOLEAN]
  /\ wire \in [Connections -> Seq(Bytes)]
  /\ lines \in Seq(Lines)
  /\ partial \in [Connections -> BOOLEAN]
  /\ rejected \subseteq Connections
  /\ handed \in Seq(Nat)
  /\ told \in [Connections -> Modes]

Init ==
  /\ stage = "inclusion" /\ at = 1
  /\ clients = [i \in Slots |-> Nobody]
  /\ clientsConnected = [i \in Slots |-> FALSE]
  /\ inputString = [i \in Slots |-> << >>]
  /\ msg = << >>
  /\ inclusionMode = "off" /\ inclusionAge = 0
  /\ arrived = 0 /\ claimed = 0
  /\ open = [c \in Connections |-> FALSE]
  /\ wire = [c \in Connections |-> << >>]
  /\ lines = << >>
  /\ partial = [c \in Connections |-> FALSE]
  /\ rejected = {}
  /\ handed = << >>
  /\ told = [c \in Connections |-> "nothing"]

-----------------------------------------------------------------------------
(* Controllers *)

Connect ==
  /\ arrived < MaxConnections
  /\ arrived' = arrived + 1
  /\ open' = [open EXCEPT ![arrived + 1] = TRUE]
  /\ UNCHANGED <<pass, slotVars, inputString, msg, inclusion, claimed, rejected,
                 wire, sender, handed>>

Closed == {c \in 1 .. arrived : ~ open[c] /\ c \notin rejected}

Close(c) ==
  /\ open[c] /\ Cardinality(Closed) < MaxClosed
  /\ open' = [open EXCEPT ![c] = FALSE]
  /\ UNCHANGED <<pass, slotVars, inputString, msg, inclusion, server, wire,
                 sender, handed>>

\* The characters of line n from place k on
Text(n, k, length) == [j \in 1 .. length - k + 1 |-> [line |-> n, place |-> k + j - 1]]

Newline(n) == [line |-> n, place |-> 0]

\* A segment ends within a line, after its first character, or with it.
StartLine(c) ==
  /\ open[c] /\ ~ partial[c] /\ Len(lines) < MaxLines
  /\ \E length \in Lengths : lines' = Append(lines, [conn |-> c, length |-> length])
  /\ wire' = [wire EXCEPT ![c] = Append(@, [line |-> Len(lines) + 1, place |-> 1])]
  /\ partial' = [partial EXCEPT ![c] = TRUE]
  /\ UNCHANGED <<pass, slotVars, inputString, msg, inclusion, server, open, handed>>

\* The line of a connection that was started last
IsLast(c, n) == lines[n].conn = c /\ \A m \in n + 1 .. Len(lines) : lines[m].conn # c

EndLine(c) ==
  /\ open[c] /\ partial[c]
  /\ \E n \in 1 .. Len(lines) :
       /\ IsLast(c, n)
       /\ wire' = [wire EXCEPT ![c] =
                     Append(@ \o Text(n, 2, lines[n].length), Newline(n))]
  /\ partial' = [partial EXCEPT ![c] = FALSE]
  /\ UNCHANGED <<pass, slotVars, inputString, msg, inclusion, server, open, lines,
                 handed>>

-----------------------------------------------------------------------------
(* The pass of the gateway *)

\* WiFiClient::connected(): a closed connection counts until it is read.
Connected(c) == c # Nobody /\ (open[c] \/ wire[c] # << >>)

\* gatewayTransportSend: a message goes to every connected client.
Served == {c \in Connections : Connected(c) /\ \E i \in Slots : clients[i] = c}

\* Mutation: the end of the mode is not reported.
SetModeSilentOff(mode) ==
  /\ inclusionMode' = mode
  /\ told' = IF mode = "on" /\ inclusionMode = "off"
               THEN [c \in Connections |-> IF c \in Served THEN mode ELSE told[c]]
               ELSE told
  /\ inclusionAge' = IF mode # inclusionMode THEN 0 ELSE inclusionAge

\* Mutation: every request starts the timer.
SetModeRestarts(mode) ==
  /\ inclusionMode' = mode
  /\ told' = IF mode # inclusionMode
               THEN [c \in Connections |-> IF c \in Served THEN mode ELSE told[c]]
               ELSE told
  /\ inclusionAge' = 0

\* inclusionModeSet
SetMode(mode) ==
  /\ inclusionMode' = mode
  /\ told' = IF mode # inclusionMode
               THEN [c \in Connections |-> IF c \in Served THEN mode ELSE told[c]]
               ELSE told
  /\ inclusionAge' = IF mode # inclusionMode THEN 0 ELSE inclusionAge

\* The feature of a button, which starts inclusion here, is not compiled in.
InclusionProcess ==
  /\ stage = "inclusion"
  /\ IF inclusionMode = "on" /\ inclusionAge > Duration
       THEN SetMode("off")
       ELSE UNCHANGED inclusion
  /\ stage' = "slots" /\ at' = 1
  /\ UNCHANGED <<slotVars, inputString, msg, server, open, wire, sender, handed>>

HasClient == claimed < arrived

\* A slot whose client is gone takes the next one, which is greeted.
ClientOf(i) ==
  IF Connected(clients[i]) THEN clients[i]
  ELSE IF HasClient THEN claimed + 1
  ELSE IF clientsConnected[i] THEN Nobody
  ELSE clients[i]

NextSlot(after) ==
  IF at < MaxClients THEN at' = at + 1 /\ UNCHANGED stage
                     ELSE at' = 1 /\ stage' = after

\* Mutation: the text of the last client stays in the buffer.
CheckSlotKeepsText ==
  /\ stage = "slots"
  /\ clients' = [clients EXCEPT ![at] = ClientOf(at)]
  /\ clientsConnected' = [clientsConnected EXCEPT ![at] = Connected(ClientOf(at))]
  /\ claimed' = IF ~ Connected(clients[at]) /\ HasClient THEN claimed + 1 ELSE claimed
  /\ NextSlot("reject")
  /\ UNCHANGED <<inputString, msg, inclusion, arrived, rejected, open, wire,
                 sender, handed>>

CheckSlot ==
  /\ stage = "slots"
  /\ clients' = [clients EXCEPT ![at] = ClientOf(at)]
  /\ clientsConnected' = [clientsConnected EXCEPT ![at] = Connected(ClientOf(at))]
  /\ IF ~ Connected(clients[at]) /\ HasClient
       THEN /\ claimed' = claimed + 1
            /\ inputString' = [inputString EXCEPT ![at] = << >>]
       ELSE UNCHANGED <<claimed, inputString>>
  /\ NextSlot("reject")
  /\ UNCHANGED <<msg, inclusion, arrived, rejected, open, wire, sender, handed>>

\* Without a free slot the next client is accepted and closed.
Reject ==
  /\ stage = "reject"
  /\ IF HasClient /\ \A i \in Slots : clientsConnected[i]
       THEN /\ claimed' = claimed + 1
            /\ rejected' = rejected \cup {claimed + 1}
            /\ open' = [open EXCEPT ![claimed + 1] = FALSE]
       ELSE UNCHANGED <<claimed, rejected, open>>
  /\ stage' = "read" /\ at' = 1
  /\ UNCHANGED <<slotVars, inputString, msg, inclusion, arrived, wire, sender,
                 handed>>

\* clients[at] has a byte, which _readFromClient takes.
Char == Head(wire[clients[at]])
Readable == clients[at] # Nobody /\ wire[clients[at]] # << >>
Take == wire' = [wire EXCEPT ![clients[at]] = Tail(@)]

\* A line that arrived from its first to its last character
IsWhole(s) ==
  \E n \in 1 .. Len(lines) : s = Text(n, 1, lines[n].length)

ReadCharacter ==
  /\ stage = "read" /\ Readable
  /\ Len(inputString[at]) < MaxLength - 1 /\ Char.place # 0
  /\ Take
  /\ inputString' = [inputString EXCEPT ![at] = Append(@, Char)]
  /\ UNCHANGED <<pass, slotVars, msg, inclusion, server, open, sender, handed>>

\* Mutation: the result of protocolParse is ignored.
ReadNewlineUntested ==
  /\ stage = "read" /\ Readable
  /\ Len(inputString[at]) < MaxLength - 1 /\ Char.place = 0
  /\ Take
  /\ inputString' = [inputString EXCEPT ![at] = << >>]
  /\ stage' = "handle"
  /\ msg' = IF IsWhole(inputString[at]) THEN inputString[at] ELSE msg
  /\ UNCHANGED <<at, slotVars, inclusion, server, open, sender, handed>>

\* A newline ends the line.  protocolParse takes every whole line, no empty one,
\* and the rest of a line that was too long if it looks like a message.
ReadNewline ==
  /\ stage = "read" /\ Readable
  /\ Len(inputString[at]) < MaxLength - 1 /\ Char.place = 0
  /\ Take
  /\ inputString' = [inputString EXCEPT ![at] = << >>]
  /\ \/ inputString[at] # << >> /\ stage' = "handle" /\ msg' = inputString[at]
     \/ ~ IsWhole(inputString[at]) /\ UNCHANGED <<stage, msg>>
  /\ UNCHANGED <<at, slotVars, inclusion, server, open, sender, handed>>

NextClient == NextSlot("inclusion")

\* Mutation: the characters stay in the buffer.
ReadTooLongKeeps ==
  /\ stage = "read" /\ Readable
  /\ Len(inputString[at]) >= MaxLength - 1
  /\ Take
  /\ NextClient
  /\ UNCHANGED <<slotVars, inputString, msg, inclusion, server, open, sender,
                 handed>>

\* Too long: the characters so far are thrown away, and this one with them.
ReadTooLong ==
  /\ stage = "read" /\ Readable
  /\ Len(inputString[at]) >= MaxLength - 1
  /\ Take
  /\ inputString' = [inputString EXCEPT ![at] = << >>]
  /\ NextClient
  /\ UNCHANGED <<slotVars, msg, inclusion, server, open, sender, handed>>

ReadNothing ==
  /\ stage = "read" /\ ~ Readable
  /\ NextClient
  /\ UNCHANGED <<slotVars, inputString, msg, inclusion, server, open, wire,
                 sender, handed>>

\* gatewayTransportProcess: I_INCLUSION_MODE sets the mode; whatever else the
\* message says is not kept.
Handle ==
  /\ stage = "handle"
  /\ SetMode("on") \/ SetMode("off") \/ UNCHANGED inclusion
  /\ handed' = IF IsWhole(msg) THEN Append(handed, msg[1].line) ELSE handed
  /\ stage' = "inclusion" /\ at' = 1
  /\ UNCHANGED <<slotVars, inputString, msg, server, open, wire, sender>>

Tick ==
  /\ inclusionMode = "on" /\ inclusionAge < Duration + 1
  /\ inclusionAge' = inclusionAge + 1
  /\ UNCHANGED <<pass, slotVars, inputString, msg, inclusionMode, told, server,
                 open, wire, sender, handed>>

Controller ==
  \/ Connect
  \/ \E c \in Connections : Close(c) \/ StartLine(c) \/ EndLine(c)

Process ==
  \/ InclusionProcess \/ CheckSlot \/ Reject
  \/ ReadCharacter \/ ReadNewline \/ ReadTooLong \/ ReadNothing
  \/ Handle

Next == Controller \/ Process \/ Tick

Spec == Init /\ [][Next]_vars

\* loop() runs for ever; controllers owe nothing.
FairSpec == Spec /\ WF_vars(Process)

-----------------------------------------------------------------------------
(* Properties *)

\* What is handed over is one line of one connection, or the end of a line
\* that is too long for the buffer: text of two lines, or of a client that
\* left and the one that took its slot, is never put together.
LinesNotMixed ==
  stage = "handle" =>
    \E n \in 1 .. Len(lines) : \E k \in 1 .. lines[n].length :
      /\ k > 1 => lines[n].length >= MaxLength - 1
      /\ msg = Text(n, k, lines[n].length)

Fits(n) == lines[n].length < MaxLength - 1

\* Every line that fits is handed over once, in order and without a gap: what
\* was handed over before it is exactly what its connection sent before it,
\* whatever long lines precede it and however the slots are read.
EachLineOnce ==
  \A j \in 1 .. Len(handed) :
    /\ handed[j] \in 1 .. Len(lines) /\ Fits(handed[j])
    /\ \A n \in 1 .. Len(lines) :
         Fits(n) /\ lines[n].conn = lines[handed[j]].conn =>
           (n < handed[j] <=> \E i \in 1 .. j - 1 : handed[i] = n)

\* Every controller still connected that was told an inclusion mode was told
\* the one the gateway is in.
ToldCurrentMode ==
  \A c \in Connections :
    open[c] /\ told[c] # "nothing" => told[c] = inclusionMode

\* The lines that were sent as a whole, and those done with
Sent == {n \in 1 .. Len(lines) :
           Fits(n) /\ (partial[lines[n].conn] => ~ IsLast(lines[n].conn, n))}
Settled == {n \in 1 .. Len(lines) :
              lines[n].conn \in rejected \/ \E j \in 1 .. Len(handed) : handed[j] = n}

\* Once no more lines come, every whole line that fits is handled, wherever it
\* waits: also behind other slots, whose messages end the pass, and also if its
\* controller closes the connection at once.  Only the lines of a client that
\* was rejected are not.  (While lines keep coming the first slot may starve
\* the others: every pass begins with it.)
LinesHandled == <>[][lines' = lines]_lines => []<>(Sent \subseteq Settled)
=============================================================================
