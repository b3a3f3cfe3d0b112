--------------------------- MODULE MCStreamFraming ----------------------------
(* StreamFraming with a size prefix of two binary digits, so that a packet   *)
(* of four bytes is too long, and with packets full of SLIP's codes.         *)
EXTENDS StreamFraming

MCPackets == {<<0>>, <<1, 0>>, <<0, 0, 0, 1>>, <<END>>, <<ESC, ESC_END>>, <<1, ESC_ESC, ESC>>}
MCNoise == {<<>>, <<ESC, 1>>, <<1>>}
===============================================================================
