---------------------------- MODULE SerialInput ----------------------------
(* The receive side of slip-dev.c.  The radio writes frames on the line; the *)
(* host's select loop calls serial_input() when bytes are available, which   *)
(* reads them one by one into inbuf until there is none left and, at every   *)
(* SLIP_END, hands the bytes collected to the command handler, to the RDC    *)
(* layer or to the terminal.  Both the bytes' arrival and the loop are       *)
(* modelled byte by byte: a call may end in the middle of a frame, even in   *)
(* the middle of an escape.                                                  *)
EXTENDS SlipCodec, SequencesExt

CONSTANTS
  Payloads,    \* what the radio frames and writes
  BufSize,     \* sizeof(inbuf), 2048 in the code
  Verbose,     \* slip_config_verbose
  MaxFrames,   \* bound on the frames written (model only)
  MaxLosses    \* bound on the bytes lost on the line (model only)

ASSUME InputPayloadsAssumption == Payloads \subseteq (Packet \ {<<>>})
ASSUME InputSizesAssumption ==
  /\ BufSize \in Nat \ {0}
  /\ Verbose \in Nat /\ MaxFrames \in Nat /\ MaxLosses \in Nat

VARIABLES
  line,      \* bytes written by the radio, not yet arrived
  inslip,    \* bytes arrived, not yet read by serial_input()
  inbuf,     \* the static buffer; inbufptr is its length
  inCall,    \* serial_input() is executing, at read_more
  upcalls,   \* history: what serial_input() handed on, in order
  framed,    \* history: the payloads the radio wrote, in order
  losses,    \* history: how many bytes the line lost
  running    \* FALSE once err() has ended the process

vars == <<line, inslip, inbuf, inCall, upcalls, framed, losses, running>>

inbufptr == Len(inbuf)

Kinds == {"command", "debug", "text", "packet"}

TypeOK ==
  /\ line \in Seq(Byte)
  /\ inslip \in Seq(Byte)
  /\ inbuf \in Seq(Byte)
  /\ inCall \in BOOLEAN
  /\ upcalls \in Seq([kind : Kinds, data : Packet])
  /\ framed \in Seq(Payloads)
  /\ losses \in 0..MaxLosses
  /\ running \in BOOLEAN

Init ==
  /\ line = <<>> /\ inslip = <<>> /\ inbuf = <<>>
  /\ inCall = FALSE
  /\ upcalls = <<>> /\ framed = <<>>
  /\ losses = 0
  /\ running = TRUE
-----------------------------------------------------------------------------
\* is_sensible_string(): the first byte is not looked at.
Sensible(s) ==
  \A i \in 2..Len(s) : s[i] \in {0, 9, 10, 13} \cup (32..126)

\* What the SLIP_END branch does with a nonempty buffer, as the sequence of
\* upcalls it makes: commands are marked '!', requests '?' are skipped, debug
\* lines are marked '\r', other text is printed here at verbosity 1 only.
Dispatch(s) ==
  CASE s[1] = 33 -> <<[kind |-> "command", data |-> s]>>
    [] s[1] = 63 -> <<>>
    [] s[1] = 13 -> <<[kind |-> "debug", data |-> Tail(s)]>>
    [] s[1] \notin {33, 63, 13} /\ Sensible(s) ->
         IF Verbose = 1 THEN <<[kind |-> "text", data |-> s]>> ELSE <<>>
    [] OTHER -> <<[kind |-> "packet", data |-> s]>>

\* Mutant: bytes are kept in a signed char.
UnescapeSigned(c) ==
  (IF c = SLIP_ESC_END THEN SLIP_END ELSE IF c = SLIP_ESC_ESC THEN SLIP_ESC ELSE c) - 256

\* The byte an escape stands for; an unknown code stands for itself.
Unescape(c) ==
  IF c = SLIP_ESC_END THEN SLIP_END ELSE IF c = SLIP_ESC_ESC THEN SLIP_ESC ELSE c

\* Mutant: the size check drops one byte early.
DropLargeEarly(buf) == IF Len(buf) >= BufSize - 1 THEN <<>> ELSE buf

\* The size check at read_more: a full buffer is thrown away.
DropLarge(buf) == IF Len(buf) >= BufSize THEN <<>> ELSE buf

\* A byte is stored; with these verbosity levels a sensible line is echoed and
\* forgotten as soon as its newline arrives.
Store(buf, c) ==
  LET grown == Append(buf, c) IN
  IF Verbose >= 2 /\ Verbose # 4 /\ c = 10 /\ Sensible(grown) THEN <<>> ELSE grown

\* The body of the loop, from the fread() on, with the buffer buf.
Read(buf) ==
  \/ /\ inslip # <<>> /\ Head(inslip) = SLIP_END
     /\ upcalls' = IF buf = <<>> THEN upcalls ELSE upcalls \o Dispatch(buf)
     /\ inbuf' = <<>>
     /\ inslip' = Tail(inslip)
     /\ inCall' = TRUE
  \/ /\ Len(inslip) >= 2 /\ Head(inslip) = SLIP_ESC
     /\ inbuf' = Store(buf, Unescape(inslip[2]))
     /\ inslip' = Tail(Tail(inslip))
     /\ inCall' = TRUE
     /\ UNCHANGED upcalls
  \/ /\ inslip = <<SLIP_ESC>>      \* ungetc() and give up
     /\ inbuf' = buf
     /\ inCall' = FALSE
     /\ UNCHANGED <<inslip, upcalls>>
  \/ /\ inslip # <<>> /\ Head(inslip) \notin Special
     /\ inbuf' = Store(buf, Head(inslip))
     /\ inslip' = Tail(inslip)
     /\ inCall' = TRUE
     /\ UNCHANGED upcalls

\* Mutant: inbuf does not survive from one call to the next.
EnterCallAfresh ==
  /\ running /\ ~inCall
  /\ inslip # <<>>
  /\ Read(<<>>)
  /\ UNCHANGED <<line, framed, losses, running>>

\* select() reports bytes: the call's first read skips the size check (the
\* jump to after_fread on linux).
EnterCall ==
  /\ running /\ ~inCall
  /\ inslip # <<>>
  /\ Read(inbuf)
  /\ UNCHANGED <<line, framed, losses, running>>

\* read_more: the size check, then a byte.
ReadMore ==
  /\ running /\ inCall
  /\ Read(DropLarge(inbuf))
  /\ UNCHANGED <<line, framed, losses, running>>

\* Mutant: the size is not checked before a call ends.
LeaveCallUnchecked ==
  /\ running /\ inCall
  /\ inslip = <<>>
  /\ inCall' = FALSE
  /\ UNCHANGED <<line, inslip, inbuf, upcalls, framed, losses, running>>

\* read_more: the size check, then no byte to read.
LeaveCall ==
  /\ running /\ inCall
  /\ inslip = <<>>
  /\ inbuf' = DropLarge(inbuf)
  /\ inCall' = FALSE
  /\ UNCHANGED <<line, inslip, upcalls, framed, losses, running>>

\* select() reports the end of the file: the first fread() fails.
HangUp ==
  /\ running /\ ~inCall
  /\ inslip = <<>>
  /\ running' = FALSE
  /\ UNCHANGED <<line, inslip, inbuf, inCall, upcalls, framed, losses>>

\* slip_send_packet() on the radio.
RadioWrites(p) ==
  /\ Len(framed) < MaxFrames
  /\ framed' = Append(framed, p)
  /\ line' = line \o SlipSendPacket(p)
  /\ UNCHANGED <<inslip, inbuf, inCall, upcalls, losses, running>>

Arrive ==
  /\ line # <<>>
  /\ inslip' = Append(inslip, Head(line))
  /\ line' = Tail(line)
  /\ UNCHANGED <<inbuf, inCall, upcalls, framed, losses, running>>

LoseByte ==
  /\ line # <<>>
  /\ losses < MaxLosses
  /\ losses' = losses + 1
  /\ line' = Tail(line)
  /\ UNCHANGED <<inslip, inbuf, inCall, upcalls, framed, running>>

Next ==
  \/ EnterCall \/ ReadMore \/ LeaveCall \/ HangUp
  \/ \E p \in Payloads : RadioWrites(p)
  \/ Arrive \/ LoseByte

Spec == Init /\ [][Next]_vars

\* The select loop calls serial_input() while there are bytes, serial_input()
\* loops on, and the line carries what the radio wrote.
FairSpec ==
  Spec /\ WF_vars(EnterCall \/ ReadMore \/ LeaveCall) /\ WF_vars(Arrive)
-----------------------------------------------------------------------------
(* Properties *)

\* inbuf is never written outside its bounds, though the first read of every
\* call skips the size check: a call never ends with a full buffer.
BufferBound ==
  /\ inbufptr <= BufSize
  /\ ~inCall => inbufptr < BufSize

\* What the SLIP_END branch hands on for the payloads written.  What is echoed
\* while it is read is no part of it.
Expected == FlattenSeq([i \in DOMAIN framed |-> Dispatch(framed[i])])

Quiescent == running /\ line = <<>> /\ inslip = <<>> /\ ~inCall

\* On a line that loses nothing the frames are handed on whole, once and in
\* the order they were written, wherever the calls of serial_input() begin
\* and end.
FramesInOrder == losses = 0 => IsPrefix(upcalls, Expected)
FramesDelivered == losses = 0 /\ Quiescent => upcalls = Expected

\* Every frame is handed on in the end: no call that gives up on a split
\* escape, and no bytes left in inbuf between calls, hold it back for good.
AllHandedOn == <>[](losses > 0 \/ ~running \/ upcalls = Expected)

\* s and t are the same but for at most one element that is changed, missing
\* or added.
SameButOne(s, t) ==
  \E i \in 0..Len(t), d, e \in 0..1 :
    /\ i + d <= Len(s) /\ i + e <= Len(t)
    /\ SubSeq(s, 1, i) = SubSeq(t, 1, i)
    /\ SubSeq(s, i + d + 1, Len(s)) = SubSeq(t, i + e + 1, Len(t))

\* A lost byte damages or removes one frame and no more: the SLIP_END on both
\* sides of what the radio writes keeps its neighbours apart.  (What a damaged
\* request is taken for is handed on, though requests are not.)
OneLossOneFrame == losses <= 1 /\ Quiescent => SameButOne(upcalls, Expected)
=============================================================================
