--------------------------- MODULE MCSlipSender ---------------------------
(* Packets that exercise the escapes: plain bytes, a SLIP_END and a         *)
(* SLIP_ESC inside, and one longer than what it is moved over.              *)
EXTENDS SlipSender

MCPayloads == {<<1>>, <<192, 2>>, <<219, 3, 4>>}
=============================================================================
