---------------------------- MODULE MCFrameCodec ----------------------------
(* Model checking of FrameCodec with the real sizes: every payload length   *)
(* and every length a LoRa frame can have, damage around the three limits   *)
(* of the codes, and length words around every block boundary.              *)
EXTENDS FrameCodec

CONSTANTS k1, k2

MCKeys == {k1, k2}
MCLengths == 0 .. 232
MCForeignLengths == 0 .. 255
MCDamages == {5, 6, 7, 8, 10, 11}
MCLengthWords == {0, 14, 15, 30, 31, 94, 95, 205, 206, 207, 65517, 65518, 65535}
==============================================================================
