----------------------------- MODULE SlipCodec -----------------------------
(* The SLIP framing shared by the two ends of the serial line between the    *)
(* native border router (host) and the slip-radio (node): pure operators,    *)
(* no state.  A packet is a sequence of bytes; a frame is a packet escaped   *)
(* so that it holds no SLIP_END, followed by SLIP_END.                       *)
EXTENDS Integers, Sequences, FiniteSets

SLIP_END == 192
SLIP_ESC == 219
SLIP_ESC_END == 220
SLIP_ESC_ESC == 221

Byte == 0..255
Packet == Seq(Byte)

\* The bytes that cannot travel as themselves.
Special == {SLIP_END, SLIP_ESC}

\* The code that follows SLIP_ESC for a special byte.
EscapeCode(c) == IF c = SLIP_END THEN SLIP_ESC_END ELSE SLIP_ESC_ESC

\* The special bytes among the first i bytes of p.
SpecialUpTo(p, i) == {j \in 1..i : p[j] \in Special}

\* Where the i-th byte of p starts in the escaped packet.
EscapedAt(p, i) == i + Cardinality(SpecialUpTo(p, i - 1))

EscapedLen(p) == Len(p) + Cardinality(SpecialUpTo(p, Len(p)))

\* Mutant: bytes are sent as they are.
EscapeNothing(p) == p

\* p with every special byte replaced by SLIP_ESC and its code.  (An explicit
\* sequence and not a fold, so that facts about its bytes need no induction.)
Escape(p) ==
  LET StartsAt(k) == {i \in DOMAIN p : EscapedAt(p, i) = k}
      First(c) == IF c \in Special THEN SLIP_ESC ELSE c
  IN  [k \in 1..EscapedLen(p) |->
        IF StartsAt(k) # {}
        THEN First(p[CHOOSE i \in StartsAt(k) : TRUE])
        ELSE EscapeCode(p[CHOOSE i \in StartsAt(k - 1) : TRUE])]

\* Mutant: the host, too, starts a packet with SLIP_END.
WriteToSerialBothEnds(p) == <<SLIP_END>> \o Escape(p) \o <<SLIP_END>>

\* What the host queues for a packet: it sends no leading SLIP_END.
WriteToSerial(p) == Escape(p) \o <<SLIP_END>>

\* Mutant: the radio sends no leading SLIP_END.
SlipSendPacketEndOnly(p) == Escape(p) \o <<SLIP_END>>

\* What the radio writes for a packet: a SLIP_END on both sides.
SlipSendPacket(p) == <<SLIP_END>> \o Escape(p) \o <<SLIP_END>>
=============================================================================
