---------------------------- MODULE SlipSender ----------------------------
(* The transmit side of slip-dev.c, the host's end of the serial line.      *)
(* write_to_slip() escapes a packet into slip_buf; the select loop, when    *)
(* the line is writable and the delay between packets has passed, calls     *)
(* slip_flushbuf(), which writes at most up to the end of the first queued  *)
(* packet and, once that packet is out, moves the rest down with memcpy.    *)
(*                                                                          *)
(* slip_end is Len(slip_buf).  C indexes from 0, the model from 1:          *)
(* slip_buf + slip_begin is position slip_begin + 1 here.                   *)
EXTENDS SlipCodec

CONSTANTS
  Payloads,      \* the packets the upper layers hand to write_to_slip()
  BufSize,       \* sizeof(slip_buf), 2048 in the code
  SendDelay,     \* SEND_DELAY, in clock ticks
  OverlapCopies, \* what memcpy may do with overlapping arguments
  MaxBytes       \* bound on the bytes ever queued (model only)

ASSUME PayloadsAssumption == Payloads \subseteq (Packet \ {<<>>})
ASSUME SizesAssumption ==
  BufSize \in Nat \ {0} /\ SendDelay \in Nat /\ MaxBytes \in Nat
ASSUME OverlapCopiesAssumption ==
  /\ OverlapCopies # {}
  /\ OverlapCopies \subseteq {"ascending", "descending"}

VARIABLES
  slip_buf, slip_begin, slip_packet_end, slip_packet_count,
  send_delay_timer,   \* clock ticks until the timer expires
  running,            \* FALSE once err() has ended the process
  queued,             \* history: the bytes queued since the start, in order
  wire,               \* history: the bytes written to the line
  idle,               \* history: ticks since a packet was completed, capped
  followed            \* history: more was queued when that packet completed

bufVars == <<slip_buf, slip_begin, slip_packet_end, slip_packet_count>>
history == <<queued, wire, idle, followed>>
vars == <<bufVars, send_delay_timer, running, history>>

slip_end == Len(slip_buf)

TypeOK ==
  /\ slip_buf \in Seq(Byte)
  /\ slip_end <= BufSize
  /\ slip_begin \in Nat
  /\ slip_packet_end \in Nat
  /\ slip_packet_count \in Int
  /\ send_delay_timer \in 0..SendDelay
  /\ running \in BOOLEAN
  /\ queued \in Seq(Byte)
  /\ wire \in Seq(Byte)
  /\ idle \in 0..SendDelay
  /\ followed \in BOOLEAN

\* slip_init(): an expired timer and one SLIP_END in the buffer.
Init ==
  /\ slip_buf = <<SLIP_END>>
  /\ slip_begin = 0
  /\ slip_packet_end = 1
  /\ slip_packet_count = 1
  /\ send_delay_timer = 0
  /\ running = TRUE
  /\ queued = <<SLIP_END>>
  /\ wire = <<>>
  /\ idle = SendDelay
  /\ followed = FALSE
-----------------------------------------------------------------------------
slip_empty == slip_packet_end = 0

\* Mutant: slip_send() lets the buffer grow one byte too long.
WriteToSlipPastEnd(p) ==
  LET frame == WriteToSerial(p) IN
  /\ running
  /\ Len(queued) + Len(frame) <= MaxBytes
  /\ slip_end + Len(frame) <= BufSize + 1
  /\ slip_buf' = slip_buf \o frame
  /\ slip_packet_count' = slip_packet_count + 1
  /\ slip_packet_end' = IF slip_empty THEN slip_end + Len(frame)
                                       ELSE slip_packet_end
  /\ queued' = queued \o frame
  /\ UNCHANGED <<slip_begin, send_delay_timer, running, wire, idle, followed>>

\* Mutant: every SLIP_END stored becomes slip_packet_end.
WriteToSlipMovesEnd(p) ==
  LET frame == WriteToSerial(p) IN
  /\ running
  /\ Len(queued) + Len(frame) <= MaxBytes
  /\ slip_end + Len(frame) <= BufSize
  /\ slip_buf' = slip_buf \o frame
  /\ slip_packet_count' = slip_packet_count + 1
  /\ slip_packet_end' = slip_end + Len(frame)
  /\ queued' = queued \o frame
  /\ UNCHANGED <<slip_begin, send_delay_timer, running, wire, idle, followed>>

\* write_to_slip(): the packet is escaped and closed with SLIP_END, byte by
\* byte through slip_send(); the first SLIP_END stored while no packet end is
\* known becomes slip_packet_end.
WriteToSlip(p) ==
  LET frame == WriteToSerial(p) IN
  /\ running
  /\ Len(queued) + Len(frame) <= MaxBytes
  /\ slip_end + Len(frame) <= BufSize
  /\ slip_buf' = slip_buf \o frame
  /\ slip_packet_count' = slip_packet_count + 1
  /\ slip_packet_end' = IF slip_empty THEN slip_end + Len(frame)
                                       ELSE slip_packet_end
  /\ queued' = queued \o frame
  /\ UNCHANGED <<slip_begin, send_delay_timer, running, wire, idle, followed>>

\* slip_send() finds the buffer full: err() ends the process, and the part of
\* the packet already stored with it.
Overflow(p) ==
  /\ running
  /\ Len(queued) + Len(WriteToSerial(p)) <= MaxBytes
  /\ slip_end + Len(WriteToSerial(p)) > BufSize
  /\ running' = FALSE
  /\ UNCHANGED <<bufVars, send_delay_timer, history>>

\* Mutant: the delay between packets is not waited for.
WantsToWriteAtOnce == ~slip_empty

\* set_fd() asks for writability under this condition.
WantsToWrite == ~slip_empty /\ send_delay_timer = 0

\* Mutant: every write() counts as a packet.
FlushPartCounts(n) ==
  /\ running
  /\ WantsToWrite
  /\ slip_begin + n < slip_packet_end
  /\ slip_begin' = slip_begin + n
  /\ slip_packet_count' = slip_packet_count - 1
  /\ wire' = wire \o SubSeq(slip_buf, slip_begin + 1, slip_begin + n)
  /\ UNCHANGED <<slip_buf, slip_packet_end, send_delay_timer, running, queued, idle,
                 followed>>

\* slip_flushbuf(): write() takes n bytes, not all of the packet.
FlushPart(n) ==
  /\ running
  /\ WantsToWrite
  /\ slip_begin + n < slip_packet_end
  /\ slip_begin' = slip_begin + n
  /\ wire' = wire \o SubSeq(slip_buf, slip_begin + 1, slip_begin + n)
  /\ UNCHANGED <<slip_buf, slip_packet_end, slip_packet_count,
                 send_delay_timer, running, queued, idle, followed>>

\* What memcpy leaves in the first positions when it moves down by k bytes
\* what follows them.  The regions overlap when more than k bytes follow:
\* a copy in ascending order is then right, one in descending order reads
\* positions it has already overwritten.
MovedDown(buf, k, how) ==
  LET n == Len(buf) - k IN
  IF how = "ascending"
  THEN [i \in 1..n |-> buf[i + k]]
  ELSE [i \in 1..n |-> buf[i + k * (1 + (n - i) \div k)]]

\* The first SLIP_END of buf after its first byte, 0 if there is none.
LaterEnds(buf) == {i \in 2..Len(buf) : buf[i] = SLIP_END}
\* Mutant: the buffer moved down is not searched for the next packet's end.
NextPacketEndForgotten(buf) == 0

NextPacketEnd(buf) ==
  IF LaterEnds(buf) = {} THEN 0
  ELSE CHOOSE i \in LaterEnds(buf) : \A j \in LaterEnds(buf) : i <= j

\* Mutant: slip_begin is not reset.
FlushLastKeepsBegin(how) ==
  LET rest == MovedDown(slip_buf, slip_packet_end, how) IN
  /\ running
  /\ WantsToWrite
  /\ wire' = wire \o SubSeq(slip_buf, slip_begin + 1, slip_packet_end)
  /\ slip_packet_count' = slip_packet_count - 1
  /\ slip_buf' = rest
  /\ slip_begin' = slip_begin
  /\ slip_packet_end' = NextPacketEnd(rest)
  /\ send_delay_timer' = IF rest # <<>> THEN SendDelay ELSE send_delay_timer
  /\ idle' = 0
  /\ followed' = (rest # <<>>)
  /\ UNCHANGED <<running, queued>>

\* slip_flushbuf(): write() takes the rest of the packet.
FlushLast(how) ==
  LET rest == MovedDown(slip_buf, slip_packet_end, how) IN
  /\ running
  /\ WantsToWrite
  /\ wire' = wire \o SubSeq(slip_buf, slip_begin + 1, slip_packet_end)
  /\ slip_packet_count' = slip_packet_count - 1
  /\ slip_buf' = rest
  /\ slip_begin' = 0
  /\ slip_packet_end' = NextPacketEnd(rest)
  /\ send_delay_timer' = IF rest # <<>> THEN SendDelay ELSE send_delay_timer
  /\ idle' = 0
  /\ followed' = (rest # <<>>)
  /\ UNCHANGED <<running, queued>>

\* write() fails with an error other than EAGAIN.
FlushError ==
  /\ running
  /\ WantsToWrite
  /\ running' = FALSE
  /\ UNCHANGED <<bufVars, send_delay_timer, history>>

\* One clock tick.
Tick ==
  /\ running
  /\ send_delay_timer > 0 \/ idle < SendDelay
  /\ send_delay_timer' = IF send_delay_timer > 0 THEN send_delay_timer - 1 ELSE 0
  /\ idle' = IF idle < SendDelay THEN idle + 1 ELSE idle
  /\ UNCHANGED <<bufVars, running, queued, wire, followed>>

Flush == (\E n \in 1..BufSize : FlushPart(n)) \/ (\E how \in OverlapCopies : FlushLast(how))

Next ==
  \/ \E p \in Payloads : WriteToSlip(p) \/ Overflow(p)
  \/ Flush
  \/ FlushError
  \/ Tick

\* The select loop keeps running and the clock keeps ticking; nothing makes
\* the upper layers send or write() fail.
Fairness == WF_vars(Flush) /\ WF_vars(Tick)

Spec == Init /\ [][Next]_vars
FairSpec == Spec /\ Fairness
-----------------------------------------------------------------------------
(* Properties *)

\* What is written and what is still buffered make up exactly the bytes
\* queued, in order: nothing is lost, repeated or changed by partial writes
\* and by moving the buffer down (slip_flushbuf, slip_send).
StreamIntact == wire \o SubSeq(slip_buf, slip_begin + 1, slip_end) = queued

\* Whenever bytes are buffered a packet end is known: otherwise slip_empty()
\* holds, slip_flushbuf() returns at once and the bytes wait for the next
\* packet, which would be glued to them.
NeverStranded == slip_end > 0 => ~slip_empty

\* slip_packet_end bounds the first buffered packet, no more and no less.
FirstPacketDelimited ==
  ~slip_empty =>
    /\ slip_begin < slip_packet_end
    /\ slip_packet_end <= slip_end
    /\ slip_buf[slip_packet_end] = SLIP_END
    /\ \A i \in 1..(slip_packet_end - 1) : slip_buf[i] # SLIP_END

\* The shape of the buffer that makes the above inductive: it ends with a
\* whole packet, no packet in it is empty (two SLIP_ENDs in a row would leave
\* one at the front, where NextPacketEnd does not look), and slip_begin is
\* back at 0 when nothing is queued.
BufferShape ==
  /\ slip_empty => slip_begin = 0
  /\ slip_end > 0 => slip_buf[slip_end] = SLIP_END
  /\ \A i \in 1..(slip_end - 1) :
       ~(slip_buf[i] = SLIP_END /\ slip_buf[i + 1] = SLIP_END)

\* The timer and the ticks since the last packet cover the delay.
DelayCovered == followed => idle + send_delay_timer >= SendDelay

SenderInv == TypeOK /\ NeverStranded /\ FirstPacketDelimited /\ BufferShape

\* The positions of the SLIP_ENDs of a byte sequence, and the k-th of them.
Ends(bytes) == {i \in 1..Len(bytes) : bytes[i] = SLIP_END}
NthEnd(bytes, k) ==
  CHOOSE i \in Ends(bytes) : Cardinality({j \in Ends(bytes) : j <= i}) = k

\* slip_packet_count counts the packets in the buffer.
CountsPackets == slip_packet_count = Cardinality(Ends(slip_buf))

\* After every split of a packet by write(), every move down and every packet
\* queued meanwhile, the begin, the end and the count that slip_flushbuf() and
\* slip_send() keep agree with the bytes in slip_buf.
IndexesConsistent == FirstPacketDelimited /\ BufferShape /\ CountsPackets

\* No byte of a packet goes out sooner than SendDelay ticks after the packet
\* it was queued behind.
QueuedPacketsSpaced ==
  [][wire' # wire /\ slip_begin = 0 /\ followed => idle >= SendDelay]_vars

\* Every packet that was accepted is written, unless the process ends.
Drained == (slip_end > 0) ~> (slip_end = 0 \/ ~running)

\* The complete frames of a byte sequence, each with its SLIP_END.
FramesOf(bytes) ==
  [k \in 1..Cardinality(Ends(bytes)) |->
     SubSeq(bytes, (IF k = 1 THEN 0 ELSE NthEnd(bytes, k - 1)) + 1, NthEnd(bytes, k))]

\* The buffer, its indexes and its partial writes implement a queue of whole
\* frames that are delivered once and in order.
Queue == INSTANCE FrameQueue WITH
  Frames <- {WriteToSerial(p) : p \in Payloads} \cup {<<SLIP_END>>},
  pending <- FramesOf(slip_buf),
  delivered <- FramesOf(wire),
  up <- running

ImplementsFrameQueue == Queue!Spec
=============================================================================
