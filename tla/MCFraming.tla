----------------------------- MODULE MCFraming -----------------------------
(* Framing over four byte values: blocks of two bytes at most, a buffer    *)
(* that grows byte by byte, and a byte that the serial port rewrites.      *)
EXTENDS Framing

MCMessages == {<<2>>, <<0, 1>>, <<3, 1, 0>>}
=============================================================================
