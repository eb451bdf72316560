----------------------------- MODULE FrameQueue -----------------------------
(* What the send side of the serial line promises, without buffers, partial  *)
(* writes or timers: the frames it is given leave it whole, once and in the  *)
(* order they were given, until the program stops.                           *)
EXTENDS Sequences

CONSTANT Frames

VARIABLES pending,    \* frames accepted and not yet completely written
          delivered,  \* frames completely written, in order
          up          \* the program is running

vars == <<pending, delivered, up>>

Init == pending \in Seq(Frames) /\ delivered = <<>> /\ up = TRUE

Accept(f) ==
  /\ up
  /\ pending' = Append(pending, f)
  /\ UNCHANGED <<delivered, up>>

Deliver ==
  /\ up
  /\ pending # <<>>
  /\ pending' = Tail(pending)
  /\ delivered' = Append(delivered, Head(pending))
  /\ UNCHANGED up

Stop ==
  /\ up
  /\ up' = FALSE
  /\ UNCHANGED <<pending, delivered>>

Next == (\E f \in Frames : Accept(f)) \/ Deliver \/ Stop

Spec == Init /\ [][Next]_vars
=============================================================================
