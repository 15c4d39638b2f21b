# A verification project for a MySensors network and its nodes

This directory holds TLA+ models of the code in this repository: a fork of the
MySensors Arduino library (2.1) together with the author's own sketches.  The
models are checked by TLC on small instances; the theorems are proved with
TLAPS for every value of the constants.  Paths below are relative to the
repository; `core/` is `Arduino/libraries/MySensors/core/`.

## 1. Inventory

A network is a tree of nodes below a gateway.  Every node runs one thread:
`setup()` once, then `loop()` for ever, and every call into the library may run
`_process()`, which drives everything else.  There are no tasks, but there is
re-entrancy: a handler that waits for an answer processes other messages while
it waits.  With `MY_RX_MESSAGE_BUFFER_FEATURE` there is preemption, too: the
interrupt handler of the nRF24 radio fills the receive queue; other interrupts
only wake the node.

| Component | Source | State | Operations | Talks to |
|---|---|---|---|---|
| Transport state machine | `core/MyTransport.cpp`, `.h` | current state, retries, time in state; parent, distance, ID; ping gate; failure counters | six states with transition and update functions, `transportProcess`, `transportSendRoute`, `transportCheckUplink` | radio below, core above (ready callback, `isTransportReady`) |
| Message handling and routing | `core/MyTransport.cpp` | routing table, `_msg`, `_msgTmp` | `transportProcessFIFO`, `transportProcessMessage`, `transportRouteMessage`, relaying | neighbours' radios, core, signing |
| Core | `core/MySensorsCore.cpp` | presentation sent, registered, controller configuration | `_begin`, `_process`, `presentNode`, `send`, `request`, `wait`, `sleep`, internal messages | transport, sketch |
| OTA firmware update | `core/MyOTAFirmwareUpdate.cpp` | current block, retries, configuration in RAM and EEPROM, external flash | configuration response, block request and response, CRC, reboot | transport, EEPROM, boot loader |
| Signing | `core/MySigning*.cpp` | nonces, verification timer, per-node requirements, lock counters | nonce request and response, sign, verify, presentation | transport (synchronous waits) |
| Gateway transports | `core/MyGatewayTransport*.cpp` | clients, input buffers | read, write, connect | controller |
| Inclusion mode | `core/MyInclusionMode.cpp` | mode and its start time | start, stop, timeout | gateway |
| Message and serial protocol | `core/MyMessage.cpp`, `MyProtocolMySensors.cpp` | none | formatting, parsing | gateway |
| LEDs, indications | `core/MyLeds.cpp`, `MyIndication.cpp` | blink counters | blink | pins |
| Platform | `core/MyHw*.cpp`, `MyMain*.cpp` | EEPROM, clocks | read, write, sleep, reboot | everything |
| Radio drivers | `core/MyTransport{NRF24,RFM69,RFM95,RS485}.cpp`, `drivers/RF24/RF24.cpp`, `drivers/CircularBuffer/` | FIFO of the radio, receive queue, messages lost | send with acknowledgement, receive, interrupt handler | transport |
| Alarm clock | `Arduino/MySensor/ClockRebuild/` | local, remote and active alarm time, flags, LED and speaker, alarm slots | keypad, controller messages, alarm service | core |
| Sensor sketches | `Arduino/MySensor/{Bathroom,BedOccupancySensor,DoorAlarm,WindowAlarm,Hum_Temp_OLED}/` | last sent values, counters, filters | `loop()` | core |
| ESP8266 gateway | `Arduino/MySensor/ESP8266Gateway/` | none | configuration | gateway transport |

The other libraries under `Arduino/libraries/` (DHT, MPR121, Time, U8glib,
RCSwitch, ...), the rest of `MySensors/drivers` and the examples are third-party
code and are not listed further; of Bounce2 the debouncer itself is modelled,
since the sketches' reports depend on it.

### What is hard in this code

* *Re-entrancy.*  `transportPingNode` and `presentNode` wait inside a message
  handler, and the FIFO loop runs inside the wait; `presentNode`, called by the
  transition into `stReady`, even runs the state machine inside itself.
* *Distributed parent selection* with only local knowledge: the parent pointers
  of all nodes have to form a tree, although answers come late, links break
  and the only test against circles looks one hop far.
* *An interrupt handler and a main thread* that share a queue without a lock
  around the record being filled or read; a level (RX_DR) and an edge (the IRQ
  line) that have to stay in step.
* *Shared buffers*: one `_msg` for everything received, one `_msgSign` for all
  nested calls of the signer, one `_ethernetMsg` for all clients.
* *Two writers*: the alarm is set by keypad and controller, the inclusion mode by
  any controller and a timer; the message about a change can be lost.
* *Failures*: lost messages, radios that die, resets at any point with part of
  the state in EEPROM; retries with bounded counters in narrow bit fields.
* *Boundaries*: 3- and 4-bit counters, 255 as address, distance and hop count
  at the same time.

### What makes each component correct

* State machine: `isTransportReady()` is never a lie; a ready node keeps its
  parent, and a configured ID; a state is given up only after all its retries,
  and every failure is left again; the ping gate never stays shut; a static
  parent is never given up; the ID in use is the one in EEPROM.
* Network: ready nodes never form a circle; a ping is relayed only nearer to its
  end; every node joins eventually.
* Core: the start ends, whatever is answered; a node that runs has been
  presented.
* Sensors: what the controller shows is what the pins read, in the end.
* OTA: the boot loader only ever finds a complete image with a correct CRC, and
  the version in EEPROM is the version that runs.
* Signing: a message is signed with a nonce of its destination; a nonce verifies
  at most one message; a lock outlives a reset.
* Receive queue: messages are handed over whole, in order, each once; what is
  not handed over is counted; none is forgotten in the radio.
* Gateway and inclusion mode: lines of controllers are never mixed and each is
  handled once; every controller knows the mode it was told to be the current
  one; inclusion mode ends on time.
* Alarm clock: the alarm that rings is the one that was set last, and there is
  never more than one slot in use for it.

`PROJECT.json` lists every hazard at its line, and the properties that cover it.

## 2. Plan

| Order | Module | Abstract specification | State |
|---|---|---|---|
| 1 | `TransportSM`: one node, arbitrary neighbours | `Uplink` | checked, proved |
| 2 | `Network`: several nodes, gateway, routing | `Uplink` for every node | checked, proved |
| 3 | `OTAFirmware`: block transfer, power loss | `Installation` | checked, proved |
| 4 | `ClockAlarm`: local and remote alarm, slots of `TimeAlarms` | clock and controller agree in the end | checked, proved |
| 5 | `Signing`: nonce exchange of several nodes, node lock | one nonce, one message | checked, proved |
| 6 | `SensorNode`: presentation, registration, reports of the sketches | the controller shows what the pins read, in the end | checked, start and record of the reports proved |
| 7 | `RxQueue`: interrupt handler and main thread | `Mailbox` | checked, proved |
| 8 | `Gateway`: slots, lines, inclusion mode | each line once | checked, proved |

Left for later: the gateway's way from the network to the controllers, if
acknowledgements are to matter.

Dropped: a model of ID assignment among several nodes.  An `I_ID_RESPONSE` is
addressed to `AUTO` and names nobody, so two nodes that boot together may take
the same ID whatever the code around it does; a model would only restate the
format of the message.

## 3. Modules

### `TransportSM` - the state machine of one node

Variables carry the names of the fields of `_transportSM` and
`_transportConfig` (`core/MyTransport.h`).  Differences:

* `timeInState` and `uplinkCheckAge` are the differences `hwMillis() - ...` the
  code computes, in ticks, capped above the largest timeout that looks at them.
* `stack` holds the handlers that wait: a ping on behalf of a parent request,
  `presentNode()` of the ready callback, `presentNode()` of an
  `I_PRESENTATION`.  `fifoOpen` tells whether the innermost running code is the
  loop of `transportProcessFIFO`.  While a ping waits, only the FIFO runs
  (`transportWait`); while a presentation waits, the state machine runs too
  (`wait` calls `_process`).
* `msgIsPong` is what `transportWait` reads from the global `_msg`; a wait ends
  when the *last* message handled was an `I_PONG`, whoever it was meant for.
* `faults` bounds radio failures and resets.

One action per arm of each `...Update` function; the operators `EnterX` are the
`...Transition` functions together with `transportSwitchSM`, and are part of the
actions that call them.  Messages are the actions `Recv...`; the other nodes are
an arbitrary environment: any message may arrive in any state, and any
transmission may be acknowledged or not.  That includes an `I_ID_RESPONSE` to a
node that has an ID: the code takes it if the ID is dynamic
(`MyTransport.cpp:670-673`), also when the node is ready, and an invalid ID in it
leaves the node without one.  `AUTO` stands for both invalid IDs, 0 and 255, since
either becomes `AUTO` in RAM; EEPROM may hold any number before the first start
(`InitialIds`), and a 0 there sends the node from `stInit` to `stFailure`.
`Reset` is a power loss, watchdog
reset or reboot: RAM is lost, EEPROM stays.  Sleep, discovery and heartbeat
change none of this state and are left out.

### `Uplink` - what the transport promises

Four variables (ready, parent, ID, saved ID) and four actions.  A node becomes
ready only with a parent, which it keeps while it is ready, and with its configured
ID if there is one.  A dynamic ID is changed or taken away only by the controller,
at any time, and saved in the same step; a node that starts again has the saved
one.  `TransportSM` implements it (`ImplementsUplink`, checked and proved), and so
does every node of `Network` (`KeepsUplinkPromise`, checked and proved).

### `Network` - several repeaters and the gateway

The parent search, the uplink check and the routing tables of several nodes,
with real messages in FIFOs.  Of the state machine only `stParent`, `stUplink`
and `stReady` are kept, without retries (whether a timeout retries or gives up
is a choice).  `waiting` holds the parent requests that wait for a ping;
`interrupted` marks a node that waits and has just relayed the `I_PONG` of
somebody else, after which `transportWait` returns.  A transmission is
acknowledged by the next hop (`Reaches`) or fails; only failures over the parent
count, in a counter as wide as the code's (`TxCounterSize`), which wraps.  The
routing table learns the sender of every packet that did not come
from the parent (`Learn`), and is otherwise never corrected, as in the code.
Broadcasts other than parent requests, preferred parents and dynamic IDs are
left out.

The constant `Timely` states the assumption under which the protocol is safe:
a 2 s timeout is not over while the request or its answer is still in a FIFO.

### `OTAFirmware` - firmware updates over the air

Variables carry the names of `MyOTAFirmwareUpdate.cpp` without the prefix;
`eepromConfig`, `flash`, `signature` and `program` are what survives a reset.
`due` is the comparison of `_firmwareLastRequest` with `MY_OTA_RETRY_DELAY`.
Blocks are numbered from 1 as `_firmwareBlock` is (a message carries the number
minus one).  The content of a block is the firmware it belongs to; a block that
is programmed twice without an erase is `Garbage`, as in a NOR flash.

| Code | Actions |
|---|---|
| `firmwareOTAUpdateRequest` | `Request`, `GiveUp`; time passes by `Tick` |
| `firmwareOTAUpdateProcess`, configuration response | `RecvConfig`, `RecvConfigNoFlash` (the same configuration again does nothing) |
| `firmwareOTAUpdateProcess`, block response | `RecvBlock`, then `StoreConfig`, `WriteSignature`, `Reboot` |
| `presentBootloaderInformation` | `Present` |
| `readFirmwareSettings` with the boot loader | `Boot`, in `Reboot` and `Reset` |

The handler of the last block is cut into its steps (`phase`), since the power
may fail between them; while it runs no other handler does.  `asked` holds all
requests ever sent: the answer to any of them may arrive at any time, any
number of times or never.  External are the controller (it offers any firmware
and answers a request with the right data) and the boot loader (it installs a
signed image atomically and erases it).  The CRC is taken to be exact, and
writing the signature to be atomic.

### `Installation` - what an update promises

The program is replaced as a whole, and only by the firmware that EEPROM
records.  That the two change *together* is not promised: a power loss can
separate them (see below).

### `ClockAlarm` - the wake-up alarm

The alarm of `ClockRebuild.ino` with the slots of `TimeAlarms.cpp`.  A day is
cut into minutes of the alarm.  A slot holds its `value` and `left`, the
difference `nextTrigger - now()`; setting the clock by `d` therefore changes
`tod` and every `left` at once (`Moved`), and a slot that is passed over is due
in the next round.  `SetAlarm` is `ChangeAlarm1` with `Alarm.free`,
`Alarm.alarmRepeat` and their lowest-slot allocation.

| Code | Actions |
|---|---|
| `serviceAlarms`, `MorningAlarm` | `Tick`, `ServiceAlarms` |
| `Update_LED_Sunrise`, `Stop_Alarm` | `UpdateSunrise`; `StopAlarm` within others |
| `Check_KeyPad` | `KeyHour`, `KeyMinute`, `KeyOnOff` |
| `Check_Local_Alarm_Change` | `CheckLocalAlarmChange`, at any time after the key (the 3 s) |
| `Update_Alarm1_From_Controller` | `RequestAlarm` with the answer |
| `receive`, `receiveTime` | `RecvTime`, `RecvOff`, `RecvStop`, `ReceiveTime` |

The controller is external: it keeps the last time it was given, repeats it when
asked and echoes every report.  `unconfirmed` is a history variable: the clock
reported a time, and that report, or every echo of it so far, was lost.

### `Signing` - nonces, signatures, locks

A sender's `calls` are the calls of `signerSignMsg` that wait for a nonce,
innermost last: a handler run in the wait may send a signed message itself.
`waiting` (`_signingNonceStatus`) and `msgSign` (`_msgSign`) exist once per node,
as in the code.  `late` says that a wait around this one has timed out, so that
this one ends at once; `nested` that a handler has used the buffer since.  `net`
keeps every message ever sent; not to receive one is to lose it, to receive it
again is a repetition.  A signature is good exactly for its message and nonce.  The
receiver's counters are 8 bits wide (`LockCounterSize`) and wrap.  A node that hangs
in `_nodeLock` still handles messages, since the loop there sends `I_LOCKED`, and
the wait for its signature runs `_process()` (`MySensorsCore.cpp:648`).

| Code | Actions |
|---|---|
| `signerSignMsg` | `Sign` or `SignFails`, then `SendSigned` or `Timeout` |
| `signerInternalProcessNonceResponse` | `RecvNonce` |
| `signerInternalProcessNonceRequest`, `signerBackendGetNonce` | `RecvNonceRequest` |
| `signerBackendCheckTimer` | `PurgeNonce` |
| `signerVerifyMsg`, `signerBackendVerifyMsg` | `RecvSigned` |
| `_checkNodeLock`, `_nodeLock` | `CheckNodeLock`, `NodeLock` within others |

### `SensorNode` - from power-on to the reports

`waits` holds the calls of `wait()` that run, innermost last: `_begin()` waits
for the answers to signing presentation, `I_CONFIG` and registration in turn, and
an `I_PRESENTATION` received in any of these waits starts `presentNode()` within
it.  A wait ends when `_msg` is what it waits for or after its time; since the
code goes on in either case, only registration makes a difference between the
two.  `Ask` sends a part of the presentation together with the next request.
`Update` is `Bounce::update`, `Loop` one round of a sketch's `loop()`: what is
`Due` is sent and remembered as `reported`, whether `send` succeeds or not.
`Child` names the child whose message object a sensor is sent with, which is how
the same module models the bathroom sketch.  Gateway and controller are external:
answers may be missing, late or negative.  `fate` is a history variable: whether
the last report of a sensor arrived.

### `RxQueue` and `Mailbox` - the receive queue

The interrupt handler (`isr`) and the main thread (`main`) are processes with a
step per access to shared state; a critical section is one step.  The main
thread stands still while the handler runs (`isr = "idle"` guards its steps): this
is the microcontrollers' semantics.  On Linux the handler is a thread, and
`MY_CRITICAL_SECTION` (`MyHwLinuxGeneric.h:84-93`) would have to exclude it, but
does not compile with `MY_RF24_IRQ_PIN`, so there is nothing to model.  `pending`
is the falling edge of the IRQ line, `rxDR` its level: a message that
arrives while the flag is set makes no new edge, which is why the handler reads
until the FIFO is empty and clears the flag first.

| Code | Actions |
|---|---|
| the radio | `Arrive` |
| `RF24_irqHandler`, `transportRxCallback`, `RF24_readMessage` | `Interrupt`, `CheckFifo`, `TestFull`, `GetFront`, `ReadPayload`, `ClearStatus`, `Push` |
| `transportAvailable`, `transportReceive` | `TestEmpty`, `GetBack`, `CopyLength`, `CopyData`, `Pop` |
| `RF24_initialize`, again after a failure of the radio | `Initialize` |

`Mailbox` is what the transport relies on: a bounded queue with `Put` and `Take`.
`RxQueue` implements it with the records between back and front as the box.

### `Gateway` - controllers, lines, inclusion mode

One pass of `_process()` of the ESP8266 gateway is the sequence of `stage`:
`InclusionProcess`, `CheckSlot` for every slot (new clients, closed ones),
`Reject` for a client nobody has a slot for, then the reading of the slots, a
character at a time (`ReadCharacter`, `ReadNewline`, `ReadTooLong`,
`ReadNothing`), which ends with the first whole message, and its handling
(`Handle`).  A byte is the number of its line and its place in it, so that a
mixture of lines is visible; the newline has place 0.  Controllers (`Connect`,
`Close`, `StartLine`, `EndLine`) are external: they send lines in pieces and
close at any time, also in the middle.  `told` is a history variable: the mode
every connection was told last.  The history variable `onFor` of `MCGateway` is the
time inclusion mode has been on, whatever the timer of the program says.

### MC modules

`MCNetwork`, `MCOTAFirmware`, `MCClockAlarm`, `MCSigning` and `MCSensorNode` only
name the values a `.cfg` file cannot write: topologies, initial tables, sizes,
tuples, model values.  `MCTransportSM` and `MCGateway` add a history variable each,
and the property that speaks of it: `stateAge`, the time a node has been in a state
that waits for answers, and `onFor`.  Both are clocks of their own, so that a
program that counts or restarts its own clock wrongly is found.

## 4. Runs

| Run | Shows | Bounds |
|---|---|---|
| `tsm_repeater` | readiness is truthful, the ping gate reopens, no state is given up before its retries had their time, refinement of `Uplink` | a dynamic ID, two neighbours, one preferred parent, handlers two deep, one fault |
| `tsm_reconnect` | ready again and again, through search, ID request and uplink check | a dynamic ID, two neighbours, one retry, all timeouts 0, one waiting handler, no fault of the radio |
| `net_boot` | two nodes in a chain boot together, join and stay | no losses |
| `net_ring` | no circle of ready nodes, pings only move on, the promise of `Uplink` | three nodes in a ring, one loss, two packets under way |
| `net_gateway_lost` | *violation*: circular reference by flood control | three nodes |
| `ota_update` | only complete images are signed, no block twice, EEPROM names the program until a reset interferes, refinement of `Installation`, every download ends | three firmwares of 1, 2 and 3 blocks, three offers, two resets |
| `clock_alarm` | the slot matches the display, is armed for its time and rings, stopping silences, clock and controller agree in the end | a day of two hours of two minutes, two slots, three changes, one loss, two messages under way |
| `signing` | one nonce one message, own destination, own message unless nested, the lock outlives resets | two senders, two receivers, two messages, two nonces, lock after two, calls two deep, one reset |
| `sensor_node` | a node that runs is presented, the start ends, changes are reported in the end, forced reports repair losses | a debounced door and a thermometer with forced updates, two changes, one loss, one reset, one `I_PRESENTATION`, two messages under way |
| `bathroom_children` | *violation*: motion and door never shown | no loss, no change |
| `rx_queue` | every message counted, in order, refinement of `Mailbox`, none stuck | queue of 2, radio FIFO of 3, lost counter up to 2, five messages, one fault |
| `gateway` | lines not mixed, each once, the mode told is the mode, lines handled, inclusion ends on time | two slots, three connections, one of them closed by its controller, two lines of 1, 2, 3 or 5 characters in a buffer of 4 |

Type invariants, and the two invariants that follow from a refinement
(`IdSurvivesReset`, `ReceivesWhole`), are proved (section 5) and not repeated in
the runs; nor are the configurations with a static parent or a configured ID, about
which `StaticParentIsKept`, `ReadyIsConnected` and `Implementation` are proved.

Deadlock is checked except where the system may stop: a network at rest
(`net_*`), locked nodes and no messages left (`signing`), no messages left
(`rx_queue`).

### Why these bounds are enough

`TransportSM`: every counter is compared with one limit only, so a limit of one
or two already separates "below", "at" and "above"; each timeout belongs to one
state, and only the two failure timeouts, which the instances keep apart,
compete; hop counts and distances matter only as valid, invalid, smaller or
larger, and the instances hold one of each.  Depth two is the smallest stack in
which a handler waits below another one; deeper stacks repeat it.  The counter of
failed transmissions has 16 values in the code; four, or two, let it wrap as well.
`tsm_reconnect` has everything that is repeated once: one retry, one failure of the
state machine; its search, ID request and uplink check can each lose their answers
and time out, its handlers wait for pings, and its transmissions fail, so that every
state is left on every path but a fault of the radio.

`Network`: three nodes and the gateway in a ring are the smallest network in
which a node can choose a parent among the descendants of its descendants, which
the test of the code (requester against own parent) does not see;
`MaxPackets = 2` lets a request and a ping cross, and one loss is what starts a
search: the runs begin in a network that is up, so that the bound is spent on
the interesting event.

`OTAFirmware`: two firmwares besides the one that runs let blocks of an abandoned
download arrive in another one of a different size, a third offer returns to the
first of them, and two resets allow a second failure after the recovery from the
first.

`ClockAlarm`: an hour of two minutes has a carry, two hours a wrap past the last
one; two slots let a second allocation happen if the first were not freed; three
changes allow a local one, a remote one inside its 3 s, and the clock set
meanwhile.  A jump of one minute passes an alarm over in one direction and
returns before it in the other.

`Signing`: two senders compete for the session of a receiver, and two receivers
let a nested call redirect the buffer; two nonces and a lock limit of two let a
session be replaced by the next one, be completed, and be locked.  Counters of three
values are above the limit once and then wrap.

`SensorNode`: a debounced sensor reported on change and one with forced updates
are the two kinds of the sketches (the third, sent at every round, is weaker than
both and appears in `bathroom_children`).  Two changes let a value return to the
reported one; the one loss falls on a presentation or on any report, and one
reset on every stage of the start.

`RxQueue`: a queue of two is full, half full and empty, and its indices wrap; the
radio's FIFO is as large as the real one; five messages fill both, so that one is
dropped by the handler (`transportLostMessageCount`) and the counter is compared at and below its
maximum.

`Gateway`: the slots are those of the sketch (`ESP8266Gateway.ino:102`); three
connections make one rejected or reuse a slot.  In a buffer of four, lines of one
and two characters fit, the newline of a line of three meets a full buffer, and a
line of five leaves a tail; two lines of one character fit together, were they ever
mixed.  `Duration` 1 lets a request come before the time of the mode is over and
after it; a restarted timer then outlasts the mode's time.

### Fairness

`loop()` runs for ever, so time passes (weak fairness), every pass updates the
state machine and then opens the FIFO, and every wait ends (its timeout bounds
it).  In `TransportSM`, updates, the FIFO and the ends of waits have strong
fairness because they are enabled again and again between handlers rather than
all the time.  The one assumption about the environment is that the answer a
state waits for is not lost for ever: if a search, an ID request or a ping is
repeated again and again, it is answered at some time, and that an ID which was
given is not always taken away again before the state machine has seen it (any
`I_ID_RESPONSE` may do that).  `net_boot` likewise
assumes that a parent request that is broadcast again and again is sometimes
heard by every node in range.  Nothing is assumed about data transmissions: they
may fail for ever.

`ota_update` assumes of the transport that requests go out again and again, which
is what `AlwaysReconnects` promises (`MyTransport.cpp:870`), and nothing about
answers.  `clock_alarm`: time passes, every part of `loop()` runs, and what is not
lost is received; nobody has to press a key or set an alarm.  `signing` states no
liveness.  `sensor_node`: the transport becomes ready (the
promise of `TransportSM`), waits end, what has arrived is handled, time passes and
`loop()` runs.  `rx_queue`: an interrupt that is pending is served and the handler
goes on; the main thread goes on.  `gateway`: the pass goes on; controllers owe
nothing, not even the end of a line, and time need not pass.

### The disagreements

Two are shown by runs and recorded in `PROJECT.json`:

1. `net_gateway_lost`: `core/MyTransport.cpp:758` "this also prevents circular
   references in case GW ooo"; flood control skips the check.  The circle lasts
   until the pings of the new child fail: `NoReadyCircle` holds in `net_ring`.
2. `bathroom_children`: `Bathroom.ino` makes the objects `msgPir` and `msgDoor`
   (lines 75-79) and presents both children, but sends both values with `msg`,
   which is the light's (lines 143 and 200).

Others were met while modelling; the models follow the code in each:

* A node with a dynamic ID takes every `I_ID_RESPONSE` addressed to it
  (`MyTransport.cpp:670-673`): a ready node changes its ID in RAM, radio and EEPROM
  without a new presentation, and with an ID of 0 or 255 (lines 453-455) it goes on
  as ready without an ID, while EEPROM keeps the old one.  Hence
  `ReadyMeansConnected` and `Uplink` promise a configured ID only.  An EEPROM with
  the ID 0 keeps a node in `stInit` and `stFailure` for ever (lines 111-116).
* A failure counter of 4 bits wraps at 16 when the state machine does not run in
  between, as in a sketch that sends many messages from one `loop()`
  (`core/MyTransport.h:159` promises a new parent after a number of failures).
* `core/MyTransport.cpp:752` "only reply if node is fully operational":
  readiness is tested before a wait of up to 2 s only.
* An `I_PONG` does not say which ping it answers, so a late one can confirm a
  circle (`MyTransport.cpp:757-758`): `NoReadyCircle` holds under `Timely` only.
* `core/MyTransport.h:185` calls `MAX_HOPS` the "maximal mumber of hops for
  ping/pong"; the code (`MyTransport.cpp:824`) stops counting there, and relays on.
  In a network of four repeaters this can matter: a ping that waits in the FIFO
  of a busy node while two nodes above it exchange their parents passes one of
  them a second time, and leaves routing tables that point to the same node in a
  circle.  The `I_PONG` then goes round in it, among nodes that are all ready, until
  other traffic of the node it is for corrects a table.  What holds of pings is
  `PingsMoveOn`; of the way of an `I_PONG` nothing is claimed.
* `core/MyOTAFirmwareUpdate.h:120` "Current firmware settings": a power loss
  between lines 121 and 126 of the `.cpp` separates the EEPROM record from the
  program, and the node then skips every offer of the firmware it lacks.
  Likewise line 93, "no newer version available", compares an offer with the
  configuration of the last attempt, successful or not.
* A signed send nested in the wait of another replaces `_msgSign`; the outer
  call then sends the inner message a second time, or its nonce request, and its
  own message never (`MySigning.cpp:182-183`): hence "unless nested" in
  `SendsItsOwnUnlessNested`.
* Alarm clock: "off" from the controller is ignored while the remote time is
  midnight or was never set, and does not stop an alarm that rings; the keypad
  counts hours to 24, for which an alarm is displayed and none armed; an alarm set
  while the clock is unset, or no slot is free, is lost with the old one.
  `SlotMatchesDisplay` speaks of an alarm that has a slot, and not of these.  `AgreesWithController` excludes the first.
* Sensors: a light that is 0 at power-on is never reported; the bathroom
  sketch reads the unit of temperatures in `presentation()` (`Bathroom.ino:99`), so
  an `I_CONFIG` that arrives after its wait is not applied.
* Gateway: a too-long line is not thrown away as a whole, as the comment says: its
  tail is parsed as a line of its own, and a line one character short of the
  buffer is thrown away; the first slot can starve the others with an endless stream of
  lines (`LinesHandled` is about controllers that fall silent); a new client is not told the mode; `MY_INCLUSION_MODE_FEATURE` is commented
  out in the sketch (the model is of the feature switched on).  The Linux
  `EthernetClient::connected()` reports a connection at its end of file as open; the
  model is of the ESP8266's.

## 5. Proofs

`TransportSM_proofs` proves, from the assumptions on the constants that
`TransportSM` states (`ConfigAssumption`, `LimitAssumption`) and for every
configuration, number of neighbours, timeout, retry limit and stack depth:

| Theorem | Statement |
|---|---|
| `TypeCorrect` | `Spec => []TypeOK` |
| `ReadyIsConnected` | `Spec => []ReadyMeansConnected` |
| `PingGateIsReopened` | `Spec => []PingGateReopens` |
| `IdIsSaved` | `Spec => []IdSurvivesReset` |
| `GivesUpLate` | `MCSpec => GivesUpAfterAllRetries` |
| `StaticParentIsKept` | `Spec => []StaticParentKept` |
| `Implementation` | `Spec => ImplementsUplink` |

The inductive invariant `IInv` has four parts.  `TypeOK`.  `StateInv` ties
each state to what must hold in it: readiness is exactly `stReady`, the radio is
on outside `stInit` and `stFailure`, a parent is known and the search closed
from `stID` on, a configured ID is in use from `stParent` on, and a distance is
known in `stReady`.  `ReadyMeansConnected` alone is not inductive, because what it
says of `stReady` was established two states earlier.  `PingInv` says that a ping
under way has no response yet and somebody who ends it; that it has no response is
what makes `StUplinkOk` leave the gate open.  `IdSurvivesReset` (a node that has an
ID has the one in EEPROM) is inductive by itself, but resets and `stFailure` need
it.  The refinement uses `IInv` in both states of a step: an `I_ID_RESPONSE` is an
`Assign`; while a node is not ready every other step is a `Search`; the step to
ready is `StUplinkOk` and changes neither parent nor ID; a step out of readiness
ends at the ID in use or the one in EEPROM.

`GivesUpLate` is about `MCSpec`, with the clock `stateAge` that no retry and no
nested handler sets back.  `AgeInv` relates it to the counter: the retries counted
so far each had the time of an answer.  A state that counts twice for one timeout
breaks it.

`OTAFirmware_proofs` proves, from `FirmwareAssumption` and
`OTALimitAssumption`, for every set of firmwares, block count, retry limit and
number of resets:

| Theorem | Statement |
|---|---|
| `TypeCorrect` | `Spec => []TypeOK` |
| `SignedImageIsComplete` | `Spec => []SignedImageComplete` |
| `DownloadIsInOrder` | `Spec => []DownloadInOrder` |
| `ConfigIsCurrentUntilReset` | `Spec => []CurrentUntilReset` |
| `Implementation` | `Spec => ImplementsInstallation` |
| `DownloadCannotGoOnForEver` | `Spec => DownloadRunsDown /\ [](Left \in Nat)` |

`TypeOK` says that the program is always one of the firmwares, which depends on
what the boot loader finds, so it is proved together with the rest: `PhaseInv`
(from the CRC on the image is valid; from `StoreConfig` on EEPROM names it; a
signature exists exactly in the last phase), `DownloadInv` (a download has a
firmware and a block that is missing), `RecordInv` (`CurrentUntilReset` up to
the moment of the record) and `DownloadInOrder`, which is inductive because an
answer is taken only for the highest missing block.  The refinement needs of it
that a start finds either no signature or the valid image of the recorded
firmware (`ValidImageBoots`).  `DownloadRunsDown` is the safe half of `DownloadEnds`:
every step of a download that goes on, and that no new offer starts over, lowers the
natural number `Left`, in which a missing block counts for `MY_OTA_RETRY + 1` requests
with their delays.  What is left to liveness is only that a next step is taken.

`ClockAlarm_proofs`, from `ClockAssumption` and `ClockBoundAssumption`, for every
length of the day, number of slots and set of remote times:

| Theorem | Statement |
|---|---|
| `TypeCorrect` | `Spec => []TypeOK` |
| `SlotHasDisplayedTime` | `Spec => []SlotMatchesDisplay` |
| `AlarmIsOnTime` | `Spec => []ArmedForItsTime` |
| `StoppedIsSilent` | `Spec => []SilentWhenStopped` |
| `ClockHearsController` | `Spec => []NotDeafToController` |

`IInv` is `TypeOK /\ SlotMatchesDisplay`: that the slot in use is Alarm1's is what
lets `ChangeAlarm1` free it before it allocates.  `ArmedForItsTime` is carried
along with it by a few lemmas about remainders, for the day wraps when time
passes, when the clock is set, and when the next trigger is computed.
`NotDeafToController` is the safe half of `AgreesWithController`.  `receive()` ignores a
time it has had last from the controller, so a disagreement about just that time
would never end.  It does not arise, because (`SourceInv`) the display shows the local or the
remote time, and (`AnswerInv`) if not the remote one, then a change still waits, its
report or echo is known to be lost, or the echo is still under way (`Echoed`).

`Signing_proofs`, from `SigningAssumption`, for every number of senders,
receivers, messages, nested calls and resets, and every width of the counters:

| Theorem | Statement |
|---|---|
| `TypeCorrect` | `Spec => []TypeOK` |
| `SignedForDestination` | `Spec => []SignedForItsDestination` |
| `NonceUsedOnce` | `Spec => []NonceAcceptedOnce` |
| `LockOutlivesReset` | `Spec => []LockInEEPROM` |
| `SendsItsOwn` | `Spec => []SendsItsOwnUnlessNested` |

`IInv` adds to the types that counters stay below the limit while a node runs
(`BelowLimits`) and that a buffer whose wait is over holds a nonce of its
destination, or a nonce request (`BufferReady`).  `NoncesUsedUp` strengthens
`NonceAcceptedOnce`: a nonce that was accepted was issued and is not expected any
more.  `SendsItsOwn` needs `OuterNested`: every call but the innermost is marked.

`SensorNode_proofs`, from `SensorAssumption` and `SensorBoundAssumption`, for every
set of sensors, number of retries and depth of presentations in presentations:

| Theorem | Statement |
|---|---|
| `TypeCorrect` | `Spec => []TypeOK` |
| `PresentedBeforeRunning` | `Spec => []RunsPresented` |
| `RecordKept` | `Spec => []ReportsOnRecord` |

`StartInv`: while the node starts, the outermost wait is that of `_begin()`, and no
other call registers.  `PresentedInv`: what a call has sent by its stage has
arrived, if nothing was lost; the step out of registration then finds both
parts presented.  `ReportsOnRecord` is the safe half of `ReportedInTheEnd`: what
the sketch remembers as reported is what the controller shows, as long as the
last report arrived and the node was not reset, for every sensor that has its
child ID for itself (`Alone`).  `Alone` is needed: the sensors of the bathroom share
one, which is what the run `bathroom_children` finds.  The invariant `RecordInv`
adds `AttachedInv`, that the debouncer holds a value when `loop()` reads it.
`ReportsOnRecord` is defined with its proof and is no property of a run.

`RxQueue_proofs`, from `SizeAssumption` and `RxBoundAssumption`, for every size of
the queue and of the radio's FIFO:

| Theorem | Statement |
|---|---|
| `TypeCorrect` | `Spec => []TypeOK` |
| `MessageIsWhole` | `Spec => []ReceivesWhole` |
| `EveryMessageCounted` | `Spec => []NoneLostSilently` |
| `HandedOverInOrder` | `Spec => InOrder` |
| `QueueKeepsPromise` | `Spec => KeepsMailboxPromise` |
| `NoInterruptMissed` | `Spec => []MessageWakes` |

`HandlerInv`: the handler fills the record at the front, which is not in use,
because it has seen room and only the reader changes that, by making more.
`ReaderInv`: the reader's record is the oldest, `Place(0)`, and what it has copied
so far is that record's.  `OrderInv`: numbers increase from what was handed over
through the queue, the handler's hand and the FIFO to what arrived.
The refinement follows from these: every step of the handler but `Push` leaves
the waiting records alone, and `Pop` hands over `Place(0)`, the head of the box.
`MessageWakes` is the safe half of `NoneStuck`: the handler never goes to sleep with a
message in the FIFO for which no interrupt is pending.  The line falls only when RX_DR
was clear, so the invariant (`WakeInv`) is that RX_DR is not left set over an empty
FIFO, at any point but the one just before it is cleared.

`Gateway_proofs`, from `GatewayAssumption` and `GatewayBoundAssumption`, for every
number of slots and connections and every buffer size:

| Theorem | Statement |
|---|---|
| `TypeCorrect` | `Spec => []TypeOK` (the buffer is never written past its end) |
| `ToldTheMode` | `Spec => []ToldCurrentMode` |
| `LinesKeptApart` | `Spec => []LinesNotMixed` |
| `EveryLineOnce` | `Spec => []EachLineOnce` |
| `LinesStayInReach` | `Spec => []NoLineForgotten` |
| `InclusionIsOnTime` | `MCSpec => InclusionEndsOnTime` |

`SlotInv`: a connection has at most one slot, and slots hold connections the
server took.  `ToldInv`: an open connection that was told a mode still has its
slot, so it hears of every change, and was told the current one.

The lines need more.  Neither `LinesNotMixed` nor `EachLineOnce` says anything of
bytes that are still on their way, so the invariant `LineInv` follows a byte from
the controller to the buffer:

* `WireInv`: the bytes on the wire of a connection are an uninterrupted part of
  its `Stream`, up to the byte sent last.  `Succ` and `Before` order the bytes of a
  connection; the lemmas `StreamGrows`, `StreamTail` and `StreamConcat` say that
  new lines, a byte taken and a segment sent keep it so.
* `UnclaimedInv`: a connection nobody has taken has its first line ahead.  It is
  what lets a new client start with an empty buffer (`CheckSlot`).
* `InputInv`: a buffer is empty, and what comes next starts a line or belongs to
  a line that does not fit (`Expects`); or it holds a part of one line, from its
  first character if it fits, and the next byte continues it (`Collects`).  So the
  newline finds the whole line in the buffer (`ReadNewlineLines`), and only bytes of
  lines that do not fit are ever thrown away (`ReadTooLongLines`).
* `WaitInv` and `HandedInv`: each line that fits is in exactly one of three states,
  its newline is ahead, it is being handled, or it was handed over, and the lines
  of a connection go through them in order.

From these, a line handed over has behind it exactly the fitting lines its
connection sent before it: those are not ahead, or it would be ahead as well.

`NoLineForgotten` is the safe half of `LinesHandled`: a line that was sent as a whole,
fits, and was neither handed over nor refused is being handled, or lies unread with its
newline on a connection that has a slot or waits for one.  Besides `WaitInv` it needs
`KeptInv`: a slot is given to another client only when the connection in it is closed
and has nothing unread, so that a controller that writes and closes at once is heard.

`InclusionIsOnTime` needs `TimerInv`: while the mode is on, the age the program
computes from `_inclusionStartTime` is the time it has been on (`onFor`), since a
request changes the start time only together with the mode.

`Network_proofs`, from `NetworkAssumption`, for every set of repeaters, links,
number of losses and size of the FIFOs:

| Theorem | Statement |
|---|---|
| `InductiveInvariant` | `Spec => []IInv` |
| `TypeCorrect` | `Spec => []TypeOK` |
| `UplinkPromise` | `Spec => KeepsUplinkPromise` |
| `ReadyNodesReachUpwards` | `Timely` implies `Spec => []NoReadyCircle` |
| `PingsDoNotComeBack` | `Timely` implies `Spec => PingsMoveOn` |

`IInv` is `TypeOK` with `PacketsInv` (a ping goes to the gateway, its answer to the
repeater that sent it, and their hop counts stay below the value that means no
answer) and `ParentInv` (a node beyond the search has a parent).  The refinement
follows from `Moves`, which says what any step does to the state and the parent
of one node.

`NoReadyCircle` is far from inductive: circles of parents do close, when two
nodes that lost their parents answer each other's requests with distances that
are no longer true (run `net_gateway_lost`).  What holds is `CircleInv`: a set of
nodes beyond the search that has all its parents within itself contains a node
that waits for an answer to its ping that cannot come (`Deaf`), because all its
pings are still within the set, where nobody is the gateway, and no answer is on
its way.  A circle closes only when a node finds its parent, and that node is
deaf at once: under `Timely`, nothing of its earlier pings is left anywhere
(`FoundIsDeaf`).  As long as the set stays closed, pings leave a node of the set
only towards its parent, in the set, and answers start at the gateway, outside
(`Origin`, `DeafStays`); so the node stays deaf until it times out and gives its
parent up.  The assumption cannot be dropped: with `Timely = FALSE` TLC finds a
circle of ready nodes within 12 steps, closed by the late answer to an earlier
ping.

`PingsMoveOn` is what this means for a ping under way.  `Way(m)` is the smallest set
around `m` that holds the parents of its ready nodes, the nodes a ping at `m` may still
pass (`WayFacts`); relaying a ping takes it to a node whose way is a part of the
relay's, and without the relay.  If the way came back to the relay, the nodes on it
between would all be ready and have their parents among themselves (`NoWayBack`),
which `NoReadyCircle` excludes.  So a ping can only pass a node twice if a parent
changed in between, and not for ever among nodes that stay as they are.

Only model-checked:

* Liveness, which is out of the prover's reach: `AlwaysReconnects`,
  `EverybodyJoins`, `DownloadEnds`, `AgreesWithController`, `SetAlarmRings`,
  `StartEnds`, `ReportedInTheEnd`, `RepeatedReportsRepair`, `NoneStuck`,
  `LinesHandled`.

Of four of the liveness properties the part that does not need fairness is proved:
`DownloadRunsDown`, `NotDeafToController`, `MessageWakes` and `NoLineForgotten`, as
`ReportsOnRecord` was for `ReportedInTheEnd`.  These say that nothing still to be
done is lost on the way, and that no step leads back; that the steps are taken is
what TLC adds.  They are defined with their proofs and
are no properties of a run; TLC found each of them, and the invariants they rest on,
to hold in the instance of its run before it was proved.

## 6. Not modelled

Of the core: sleep and smart sleep, heartbeat, discovery, battery and debug
messages, `saveState`, the presentation of signing preferences with the tables it
fills, whitelists and the hardware backend of signing.  They change no state that
the properties speak of, or need hardware to mean anything.  Of the gateways: the
serial, UDP, client-mode and MQTT transports, and messages from the network to
the controllers.  Of the radios: sending, registers, RFM69, RFM95 and RS485;
the models take from them that a transmission is acknowledged or not.  Of the
sketches: the capacitance filter of the bed sensor, the OLED sketch, and display,
night light, melody and temperature of the clock.  LEDs and the hardware
abstraction (registers, clocks, EEPROM files) are data without control of their own; formatting,
parsing of payloads and the cryptography likewise.

Most of the repository's lines are not the program's own: display fonts and
drivers (U8glib), the Raspberry Pi's register definitions (bcm2835), radio
drivers, board definitions, libraries for sensors and keypads, and the examples
that come with MySensors.  They are vendored, and are left out on purpose: the
modules above are about the parts that decide something.
