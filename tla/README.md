# Verification of IIoTSE

IIoTSE is a small industrial-IoT system: sensor nodes on Contiki (`src/iotnode.c`),
a border router in two forms (embedded, or native on a host with a slip-radio on a
serial line, `src/border-router`), and Python programs that store what the nodes
send and publish it over MQTT (`src/mqtt-pub.py`, `src/mqtt-sub.py`). This
directory holds TLA+ models of it, TLC configurations that check them and proofs
that TLAPS checks.

## The system

| part | source | state | operations |
|---|---|---|---|
| sensor node | `iotnode.c`, `config.h` | LED vector, selected sensor, last readings, battery ring, message with flags | light, temperature/humidity, battery, LED and button processes; `send_packet` |
| gateway | `mqtt-pub.py` | `Connected`, `SMART`, devices file, CSV file, socket | receive, build text, store, publish; `on_connect`, `on_message` |
| subscriber | `mqtt-sub.py` | list of devices, subscriptions | `getdevices` from the gateway's file; `on_connect`, `on_message` (prints) |
| host, SLIP out | `slip-dev.c` | `slip_buf`, three indexes, count, delay timer | `write_to_slip`, `slip_flushbuf`, `set_fd` |
| host, SLIP in | `slip-dev.c` | `inbuf`, `inbufptr` | `serial_input` |
| host, RDC | `border-router-rdc.c` | ring of 16 callbacks | `send_packet`, `packet_sent` |
| host, router | `border-router.c`, `border-router-cmds.c` | `mac_set`, addresses, RPL root, `command_context` | start-up process, command handler |
| radio | `slip-radio.c`, `slip-net.c`, `slip-radio-cc2420.c` | ring of 16 session ids, channel | command handlers, `packet_sent`, `slip_send_packet` |
| tunnel | `tun-bridge.c` | delay between packets and its start | `handle_fd`, `tun_output` |
| command line | `slip-config.c` | the options | `slip_config_handle_arguments` |
| web server | `httpd-simple.c` (two equal copies), `generate_routes` | two connection blocks, static cursors and buffer | `httpd_appcall`, page generation |
| embedded router | `border-router.c`, `slip-bridge.c` | prefix, radio, DODAG, `last_sender` | prefix request, `slip_input_callback`, `output`, repair |
| button | `extras/button-sensor.c` | debounce timer, press counter | interrupt, timer callback |

A reading goes from a node's `send_packet` over 6LoWPAN to the border router, from
there through the tunnel to the gateway's UDP socket, into a CSV row and an MQTT
message. Inside the native border router every packet crosses the serial line in
SLIP frames: host to radio as `!S` with a session id, answered by `!R`; radio to
host as plain packets, commands (`!`) or debug text. Commands reach the host's one
handler from the radio and from the keyboard; the global `command_context` says
from which. The embedded router has no host program of its own: a tunnel program on
the host sends it a prefix when asked, and packets. Both routers hand packets without
a route to `rpl_interface`, which is the tunnel in one and the serial line in the
other. The gateway writes the ids of the nodes it hears to a file that the subscriber
reads.

What is hard here: partial writes and a buffer moved under its indexes; calls that
end in the middle of a frame; bytes and messages lost; repeated requests answered
late; two rings whose slots are reused unasked; two threads and a flag read twice;
LED and actuator state written by several processes, the last one winning; a page
written from static variables while segments wait and are sent again; contacts that bounce
around a debounce time; a delay measured with a clock that somebody sets; a shared
buffer read after what it held is gone; conversions between floats, integers, byte orders and text. `PROJECT.json` lists
each at its line under `hazards`.

## The modules

| module | models | correct when |
|---|---|---|
| `SlipCodec` | escaping and framing, both ends | no `SLIP_END` inside an escaped packet |
| `FrameQueue` | what the sender promises: whole frames, once, in order | (abstract specification) |
| `SlipSender` | `write_to_slip` to `slip_flushbuf` | the byte stream is intact, nothing is stranded, packets keep their distance; it implements `FrameQueue` |
| `SerialInput` | `serial_input`, the line, the radio's frames | frames arrive whole, once, in order; one lost byte costs one frame; `inbuf` is never overrun |
| `RadioSessions` | session ids through both rings | no packet is reported twice; one the line spared is reported to its sender |
| `HostRouter` | start-up, commands from two sources, radio's answers | a root has the radio's address and stays root; the start-up ends |
| `IotNode` | the node's processes | one colour a sensor, packets carry the present readings, the ring holds the last five |
| `Payload` | the message's bytes and the gateway's reading of them (operators) | nothing but a byte of the battery is lost |
| `MqttGateway` | the gateway's two threads and the subscriber, with what they share | stored before published, in order; a row determines its message; orders take effect; a late subscriber knows the node |
| `WebServer` | `httpd_appcall`, `generate_routes` | when a block is lost or freed for another; a page written alone is complete; silent connections end |
| `RplInterface` | what the two routers have in common: messages from and to the outside | (shared state) |
| `SlipConfig` | the delay a command line sets and what it is refused for (operators) | the delay fits its type |
| `TunBridge` | `handle_fd`, `output` of the native router, the wall clock | packets are the delay apart and every one is taken |
| `ButtonDriver` | `btn_callback`, the duration timer, a finger and bouncing contacts | bounces do not become clicks |
| `EmbeddedRouter` | the embedded router's process and slip-bridge, composed with its button | no radio before the prefix; nothing goes back over the line; it ends as the root RPL has room for |
| `Bridges` | the two routers as alternatives behind `RplInterface` | (composition, properties) |

`MC...` modules give the constants for TLC; `...Proofs` modules hold the theorems and
the lemmas they rest on. Operators
marked "Mutant" are wrong versions of the definition that follows them, used to see
that each property notices; nothing else refers to them.

Correspondence with the code, module by module:

* `SlipSender`. A C index `i` is position `i + 1`; `slip_end` is the length of
  `slip_buf`. A packet is queued in one action, since `write_to_slip` runs without
  interruption; the process ends on a full buffer (`Overflow`) and on a failed write
  (`FlushError`). `FlushPart` and `FlushLast` are `slip_flushbuf` with a `write` that
  takes part or all of the packet; `FlushLast` contains the move down, the search for
  the next end and the timer. `memcpy` on overlapping regions is undefined: the
  constant `OverlapCopies` lists the orders of copying the library may use.
  `queued`, `wire`, `idle` and `followed` are history.
* `SerialInput`. One action per byte: `EnterCall` is the first read of a call, which
  jumps past the size check, `ReadMore` every later one, `LeaveCall` the read that
  finds nothing. An escape whose code has not arrived is put back. `upcalls` is what the
  `SLIP_END` branch hands on; what is echoed while it is read is not recorded, but that
  the echo empties the buffer is (`Store`).
* `RadioSessions`. Messages on the line stay apart (the two modules above), but they have
  neither length nor checksum: one that lost bytes is unknown to its receiver and dropped
  (`LoseCommand`, `LoseReport`), or taken with other contents and another session id
  (`SpoilCommand`, `SpoilReport`). Two messages made one by a lost mark are the first, spoiled,
  and the second, lost. That a frame of another kind becomes a report is left out. A report may then
  reach the wrong sender, and `RightCallback` speaks of the packets whose own messages the
  line spared; a sender may still be told in addition of another's spoiled packet. Nothing in
  the code limits how many packets are unreported, and the MAC layer finishes them in
  any order, so a report may find its slot taken again; `InTime` says when it cannot,
  and the properties promise no more. `posted`, `called` and `spoiled` are history.
* `HostRouter`. `TimerExpires` is one round of the start-up loop; nothing ties it to
  the answers, which may come after any number of rounds. `rpl_init` and `uip_ds6_init` belong
  to the operating system and are modelled by what the caller relies on: no address,
  no DODAG; `rpl_set_root` may return NULL (`rplFull`), and the router serves all the same.
* `IotNode`. Contiki does not preempt, so one pass of a process is one action with
  all it sends. `LightRead` compares with products where the code divides floats;
  `DhtRead` contains the temperature and the humidity half in order. Pin C3 is only
  written together with `avac`. Infinity converted to int is taken as the largest
  value, of which 65535 is sent. What the code does with an infinite light beyond that
  is undefined, and modelled as a choice: its text is two bytes longer than `res`
  (`LightOverrun`: the node goes on or stops), and the difference of a light up to 64 lux from
  the largest int is the one integer `abs` has no value for (`Changed`: sent or not).
  The timers are left out.
* `Payload`. The structure is laid out with its padding; the packed Python structure
  reads it at other offsets.
* `MqttGateway`. Datagrams are the bytes of `Payload`. `pc` steps through the start and
  the main loop; the callbacks and the subscriber interleave at every step, also
  between the removal of the devices file, its creation and the first id in it.
  Creating the file and writing it are two steps because the id is buffered until the
  file is closed. The subscriber looks for the file and opens it in two steps; if the
  gateway removes it in between the subscriber ends. A lost connection does not reset `Connected`; publishing without one
  is silent. `Text` is the JSON text, whose numbers are formatted by code of their own.
* `WebServer`. One action per event that uIP passes to `httpd_appcall`, and the ways
  uIP drops a connection without one. uIP polls only a connection with nothing to be
  acknowledged, which is one that waits for its request: only there `s->timer` is
  looked at, and `handle_connection` on the block that `Poll` has freed does nothing.
  A connection in `STATE_OUTPUT` gets retransmissions, which restart the timer, until
  it is timed out at `UIP_MAXRTX`. Two things go wrong in this code and are modelled.
  A client that acknowledges the server's FIN and sends none leaves the connection in
  `FIN_WAIT_2`, from where uIP drops it with no report: the block is lost (`Dropped`,
  `lost`). And a client that closes first, or resets in `TIME_WAIT`, makes uIP report
  the end a second time (`ReportedAgain`), upon which lines 213-217 free a block that
  may be another connection's by then and set that connection's `script` to NULL
  (`robbed`). The model follows the robbed connection up to the call of its script at
  line 143 (`NullScript`) or until a third connection gets its block (`Connected`);
  then `running` is FALSE and nothing is claimed any more. `pc` names the
  `SEND` a connection waits in; `NativeResume` and `EmbeddedResume` are what the two
  routers' `generate_routes` do from there to the next one, given the static variables,
  and `static.build` says which router it is. `segment.copies` holds what a segment
  was each time it went out: a retransmission reads the shared buffer again, as many
  bytes as the first time. All texts count as equally long and `FlushAt` of them fill
  the buffer. uIP and psock are modelled as the code uses them (states of a connection
  that the application does not tell apart are one); the tables on the page
  stay what they are. `page` and `shared` are history.
* `SlipConfig`. Every turn of the getopt loop overwrites one setting, so `Basedelay`
  takes the last use of `-d`, and `Refused` makes the tests in and behind the loop; `-T`
  is a letter without a case. What the other options set meets no property and is left
  out.
* `TunBridge`. `handle_fd` is called whenever `select()` returns, with or without a
  packet in the tunnel. The clock is kept relative to the second in which the delay
  started, since only the difference counts; a second has `Second` milliseconds, and
  somebody may set the clock to any time. `gap` and `stepped` are history.
* `ButtonDriver`. A finger goes down and up; for `Settle` ticks after each the contacts
  bounce, every bounce interrupts, and the pin reads either level. `press_duration` is
  configured before the button is activated (both programs leave it 0).
* `EmbeddedRouter`. `pc` is where `border_router_process` is; while it waits for its
  timer a button event wakes it without effect. `slip_input_callback` and what the stack
  then does with the packet are one action, since nothing preempts them. The sender is
  copied from the buffer after every message. `rpl_set_root` belongs to the operating
  system and may find no room for a DODAG (`rplFull`); the code then goes on as if there
  were one. `!P` and the answer to `?M` overwrite its
  first two bytes, which then are the prefix's fourth word, or digits: nobody's address,
  as the prefixes in use start differently. After a message of fewer than ten bytes the
  buffer still has the source of an older packet, from inside or outside: any.
* `Bridges`. `build` says which router it is; the other's variables never change. The
  bound on what happens outside, packets, commands and clicks together, is shared.

## Runs

Passing runs; each instance fires every action of its module:

| run | shows | bounds |
|---|---|---|
| `sender` | stream, indexes and count, spacing, refinement of `FrameQueue`; everything queued is written | three packets with both escapes, buffer 9, 13 bytes in all: the buffer fills, overflows, and holds up to four packets that are longer and shorter than what they are moved over |
| `input` | order, one loss, `inbuf` bound; everything is handed on, nothing is held back | verbosity 1, where text is handed on; one payload of every kind and both escapes, three frames, two bytes lost anywhere; two lost `SLIP_END`s make two frames one that fills the buffer of 3 |
| `sessions` | right callback, and no report twice, for packets the line spared and the rings have not overtaken; every packet but those the line spoiled is reported | three and two slots, four packets: both rings wrap and are overtaken; any order and loss; a message may get the session id 0, which a packet has, or 3, which none has |
| `router` | a root's address; the start-up ends | three messages each way, two losses, late and repeated answers, all user commands |
| `node` | packets carry present readings; quiet when unchanged; LED vector; ring of readings | light readings less than one lux apart, a middling one and one below 1 kOhm, a cold and a very hot temperature, a low and a full battery, in any order |
| `gateway` | order, staleness, what a row says of its message, what the subscriber knows; everything the socket took is stored | four days of three datagrams whose fields hold 0, 255, 256, 65535 and negative values, socket of two, two orders, connection lost and found, a devices file of an earlier run or none |
| `bridges` | both routers on their outside: radio, echoes, clicks, spacing; every message is taken, the router ends with a prefix, as the root RPL has room for | three packets, commands or clicks in any order; one message waiting, since each is taken alone; one loss and one request unanswered at a time; seconds of three milliseconds, so that a delay of 10 spans several, a delay of 2 fewer than one; the clock set once; two clicks with bounces, a debounce time of two, a counter of two that wraps; `rpl_set_root` finds room or not |
| `web` | blocks, the page of a connection that writes alone, the end of silent connections | two connections and two blocks, opened three times, enough for a block that is lost, one that is freed for another and one that two would use, and for a client that is refused; both routers; tables with two neighbours, one of which fills the buffer, two routes and a sensor; every segment sent again or timed out, clients that stop, close or reset anywhere |

These bounds are enough because what goes wrong needs little: a ring must wrap
once, a buffer overflow once, a second packet wait behind a first, a second answer
follow the first, an order fall between two reads.

Runs that find a disagreement between the code and what the repository says of it
(the quotations are in `PROJECT.json` under `findings`):

| run | disagreement |
|---|---|
| `sender_memcpy` | the queue is moved with `memcpy` over itself; with a library that copies from the end, queued packets change |
| `input_echo` | at verbosity 2 a report for session 10 loses its start to the line echo |
| `router_late` | a late `!M` makes a serving router lose its address and the DODAG it had |
| `payload_order` | every 16-bit field is read across two |

Other disagreements met while reading the code, which no run is kept for: no delay
before a packet queued just after the buffer ran empty (`slip-dev.c:338`); a too large
packet is not dropped, its tail becomes a packet (`slip-dev.c:191`); text without a
newline is printed at verbosity 1 only, though the comment at `slip-dev.c:218` says that
it was "already echoed below for verbose>1": at 2, 3 and from 5 on it was not; `!C` from the
keyboard never reaches the radio (`border-router-cmds.c:78`); a falling battery is
called charging once the ring wraps (`iotnode.c:495`); every test of the humidity
turns the fans on, the one for OK included (`iotnode.c:472`); above 31 degrees the
temperature is shown as OK, by a test against the humidity's thresholds
(`iotnode.c:462`); the battery process writes the temperature's colours
(`iotnode.c:492`); a resistance below 1 kOhm makes the light infinite and sends every reading
(`iotnode.c:418`), which `QuietWhenUnchanged` says, and after it a dark reading may
never be sent (`:423`); the LED of the
temperature blinks for 976 ms, not 700 (`iotnode.c:520`); 22.016 is written 22.16
(`mqtt-pub.py:82`); a message under construction goes out with the system's flags
after `SMART` went off (`mqtt-pub.py:141`), which `OneStaleMessage` bounds; a
subscriber that starts before the first message is stored never learns the node
(`mqtt-sub.py:100`), and one that starts while the gateway does may end at a file that
is gone (`mqtt-sub.py:46`); the embedded router turns its radio on
with the prefix, also when `rpl_set_root` made it no root (`border-router.c:366`),
though the comment at `:379` wants it off "until we are initialized as a DAG root"; it
compares sources only, so that after the host
sent back one packet of a node every packet of that node to the outside is dropped until
another message arrives, and after a very short message those of whatever node sent the
packet before (`slip-bridge.c:106`, whose comments speak of the packet that was
received); the native router has no such test and writes packets it has no route for
back to the tunnel; a button held for more than a second gives two events and clicks
within a second of each other give one (`button-sensor.c:107`), while `iotnode.c:535`
selects a sensor "on each button click"; a release within the debounce time leaves the
duration timer running; with a base delay packets are delayed by it once, not
"basedelay*(#6LowPAN fragments)" (`slip-config.c:150`), and packets the router makes
itself not at all; a bare `-v` is level 2, not 3, and without it the level is 0, not 1
(`slip-config.c:143`, `:148`); `-T` is in the usage and refused, `-H` takes an argument
(`slip-config.c:76`); printing the radio's values sets its power to 1
(`iotnode.c:238`).

A delay of 65536 is among the command lines: it wraps to 0. Three command lines are
refused and add no behaviour.

Deadlock is not checked: every system here may stop (the node at an overrun), or a bound
on the number of messages ends the run.

### Fairness

`Drained`: weak fairness of the flush and of the clock; the select loop polls
`set_fd` and `handle_fd` for ever and a descriptor that is writable stays so. Nothing
is assumed of the callers. `AllHandedOn`: the loop calls `serial_input` while bytes are
there, and the line carries what was written. `EveryPacketReported`: both command
handlers run, and the MAC layer finishes its oldest packet. `EventuallyServing`: the
process, its timer and the handlers run; losses are finite, and the bound on the line
leaves a place for the process's request, as the 2048 bytes of the code do.
`EverythingStored`: the main thread runs, and the MQTT client reconnects whenever it
is disconnected, as paho's loop does; nothing is assumed of the broker's orders or of
how long a connection lasts. `EverythingTaken`: the select loop calls `handle_fd` for
ever, time passes and the clock is set finitely often; the embedded router's SLIP
process takes what is on the line. `RootInTheEnd`: the process and its timer run, the
host answers requests it gets, and losses are finite. `EveryConnectionEnds`: time passes, uIP polls
every connection that waits for a request, its timers send again what is not
acknowledged and give up in the end, and they end `FIN_WAIT`, `LAST_ACK` and
`TIME_WAIT`; nothing is assumed of the client.

## Proofs

Every type invariant, every safety invariant and every action property of the
passing runs, and the refinement of the sender's queue, is a theorem, for every value
of the constants that satisfies their named assumptions. Each proof module has an
inductive invariant, one lemma per action that disturbs it, and the theorems as
consequences. The invariants' parts were checked by TLC on the run's instance, except
those that quantify over all byte sequences (`CutInv`, `LossInv`), which it cannot
evaluate; there TLC checks the property that follows.

* `SlipSenderProofs`. The indexes' invariant is
  `SenderInv == TypeOK /\ NeverStranded /\ FirstPacketDelimited /\ BufferShape`.
  `NeverStranded` alone is not inductive: after the move down the search starts at
  the second byte, and finds the end of the packet only if the packet is not empty,
  which is why `BufferShape` says that no two `SLIP_END`s are neighbours and that the
  buffer ends with one. `BufferShape` is kept by `WriteToSlip` because an escaped
  packet holds no `SLIP_END` (`EscapeHidesEnd`) and is not empty. From it follow
  `TypeCorrect`, `BytesNeverStranded` and, with the equation of the streams added,
  `StreamNeverBroken`. `IndexesAgree` adds the count of packets: the number of
  `SLIP_END`s in the buffer grows by one with a queued frame and falls by one, through
  a bijection, when the first packet moves out. `PacketsKeepTheirDistance` needs
  `DelayCovered`, which relates the timer to the time passed. `ImplementsQueue` is the
  refinement, step by step: a queued packet is `Accept` of the abstract queue, the
  write that completes a packet `Deliver`, the end of the process `Stop`, and everything
  else stutters. The abstract variables are the stream cut into frames, so its invariant
  `CutInv` says that the `SLIP_END`s of `slip_buf` can be listed in order, and that the
  wire is whole frames followed by the written part of the first one in the buffer. `FrameAdded`, `FrameDropped` and
  `PartAdded` say what the three kinds of step do to the cut; the list of the ends is a
  sequence that enumerates them, which takes the place of an induction over the buffer.
  All six assume `OverlapCopies = {"ascending"}`: without it `StreamIntact` is false,
  as `sender_memcpy` shows.
* `SerialInputProofs`. `InputBufferSafe`: `inbuf` is never overrun. The invariant
  couples the length with `inCall`: outside a call the buffer is never full, because a
  call can only be left through the size check or, at a split escape, with the buffer
  the size check left. `InputTypeCorrect` adds that an escape stands for a byte and
  that what is handed on comes from the buffer.
  `FramesStayInOrder` and `FramesAllDelivered` are about what the radio wrote and the
  host handed on. The invariant (`Whole`) says that `serial_input` is between two frames,
  or has read `i` bytes of a payload `p`; the bytes not yet read are then the rest of
  `p`, escaped, and whole frames behind it, and these make, after what was handed on,
  exactly `Expected`. The hypothesis is `ReadWhole` for every payload: `inbuf` holds it,
  and no start of it is a line that the verbosity prints. The first is what the sizes of
  both programs give, the second is what `input_echo` violates.
  `Expected` is what the `SLIP_END` branch does with each payload (`Dispatch`): requests
  are skipped, and text is printed at verbosity 1 only. So the theorems say that packets,
  commands and debug lines reach their handlers at every verbosity, and text at verbosity 1.
  `OneLossHurtsOne`, under the same hypothesis, follows the damaged frame after one loss
  (`LossInv`): it is still ahead (`Ahead`), being read (`Muddled`: when the code byte of
  an escape was lost, the `SLIP_END` behind it may have become part of the frame),
  behind (`Passed`), or it is the last one and its `SLIP_END` is what was lost (`Cut`).
  `Less` and `LostIn` say what a lost byte makes of a sequence of frames, by the place
  it is lost at: a mark, a plain byte, either half of an escape. `Turn` is what one turn
  of the loop does to the bytes and the buffer, whatever call it happens in, so that
  every case is a case of it. The radio writes a `SLIP_END` on both sides of a frame,
  and that is what the proof needs to stop the damage at the next frame.
  What concerns all frames of a list is proved for every prefix of the list of frames, by
  `AllNumbers`: `Steps` says how the concatenation of a list unfolds by one element.
* `RadioSessionsProofs`. `RightCallbackIsMade`: a report reaches its own sender while
  it is in time and the line spared its packet. The session id goes through two rings, so the invariant follows a
  packet by its age: `RingInv` says that when a slot is `n` places behind the position
  where the next one is taken, at least `n` packets were posted after the packet in it
  (`Passed`), so a slot is not taken again while its packet is in time; `PlaceInv` says
  where a packet can be (posted, on the line, at the MAC layer, on the way back or
  spoiled, in one place at a time and on the way out in order) and `SessionInv` that
  its id then finds its callback, unless the packet is spoiled; of the ids in spoiled
  messages nothing is assumed. No bound relates the two rings' lengths.
* `HostRouterProofs`. `RootAddressRight`: a root has the radio's address. It is not
  inductive alone: a root could be made from an address that was wrong all along.
  `RouterInv` adds that an address once taken is the radio's, which holds because
  every answer on the line carries that address and `SetMac` undoes the root with the
  address. `RouterTypeCorrect` says with it which messages can be under way.
  `CommandsAssumption`: a `?C` the user types has no argument.
* `BridgesProofs`. `RadioOffUntilRoot` needs that a prefix makes the root, unless
  RPL has no room, and that only a prefix turns the radio on again (`RootInv`). `EchoesDropped` needs what the
  remembered sender can be after each kind of message (`SenderInv`), and that what the
  other side takes out comes from the mesh (`OnlyMeshOut`). `ClicksAreCounted` relates
  the press counter to the time since the last edge taken (`DurationBehind`).
  `TunnelIsSpaced`: unless the clock was set, `handle_fd` computes no more time than has passed,
  in two fields and across seconds, and forgets the delay only when it is over
  (`DelayInv`). Its hypothesis `DelaysMeasured` concerns the model, not the code: the
  history variable counts time up to `MaxGap`, which must be more than the longest
  delay. `ArgumentsAssumption`: the argument of `-d` is a number.
* `IotNodeProofs`. `NodeInv` is the conjunction of the properties, with the type of
  the history added: the colours are three per group because each process writes a whole group
  (`Coloured`), and the ring is related to the sequence of readings by position.
  `NodeSendsCurrent` and `NodeQuiet` are about truncation: a product on each side of
  the comparison bounds the quotient the code computes. Both except the light while an
  infinite one was the last sent.
* `GatewayProofs`. The invariant relates the places a message passes through:
  those in the socket are later than the one at hand, that one is later than the rows
  until it is stored and the last row until it is published. `OneMessageIsStale` is
  inductive only with the position: after a leak the text under construction has no
  flag, or it was already published. `RowsDetermineMessages` is arithmetic: every
  16-bit field is the high byte of one decimal and the low byte of the next.
  `SubscriberKnows` needs that the file names one node, however often its id was
  written. `DaysAssumption`: a node sends at least one message, all with the id it
  was built with.
* `WebServerProofs`. `PoolAccounted`: while the program runs, no block has two users
  and the blocks in use are those of the connections not robbed of theirs and the lost
  ones (`BlockInv`, which adds that only a connection with a block is robbed).
  `WebServerTypeCorrect` needs that every step of `generate_routes` keeps
  the cursors in the tables and never gives memory of the buffer back (`Sound`), since
  a segment sent again takes its old length from it. `TablesAssumption`: the tables
  are sequences of different entries.
  `PagesComplete`: a page written while nobody else writes lists every entry once and in
  order. The invariant relates the place a connection waits in (`pc`) to the static
  cursors and to the page so far: the page has the tables up to some entry, and
  every copy of the segment it waits for, the one still in the buffer included, goes on
  from there to the cursor (`Cursor`, `Ready`, `Served`). This holds for a connection
  whose page is not `shared`, and then no other one is writing (`PageRight`). `Goes` states for
  a step of `generate_routes` that it leads from one such place to the next, and
  `ResumeGoes` that both routers' functions do, whatever an earlier page left in the
  static variables, since the first step resets what it reads.

To keep recursive definitions out of the modules that are proved about, the escape is
written as one explicit sequence, the command line by the last use of each letter, and
streams of frames as concatenations of the library's fold. Where an argument goes by
induction, over numbers or the frames of a stream, it is put as a statement about a
set: the least element of a set of numbers is found by well-founded induction on
sets, and a set that contains 0 and every successor contains all numbers.

Model-checked only: all liveness (`Drained`, `AllHandedOn`, `EveryPacketReported`,
`EventuallyServing`, `EverythingStored`, `EverythingTaken`, `RootInTheEnd`,
`EveryConnectionEnds`), which is beyond the prover. The runs that find a violation have
no theorem; where their counterexample is a hypothesis of one, it is said above.

## Not modelled

The radio's frame parser (one stateless function), compile-time constants, build files
and data. Within modelled parts: texts on the console, opening and setting up of devices
and pins, TLS, the list of sensors, serialised packet attributes, radio parameters, and
a node whose `udp_new` failed.

## Plan

1. `SlipLink`: `SlipSender`, the line and the radio's `putchar` and `slip_send_packet`
   composed; `SerialInput` shown to implement a queue of frames.
2. `IotNode` composed with `ButtonDriver` in place of its environment.
3. Theorems: those of `SlipLink`, from `ImplementsQueue` and `FramesStayInOrder` as
   they are; `OneLossHurtsOne` for several losses, one frame for each.
