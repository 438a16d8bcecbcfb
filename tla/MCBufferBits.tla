---------------------------- MODULE MCBufferBits ----------------------------
(* The instances of BufferBits that TLC checks. *)
EXTENDS BufferBits

BufferSizes3 == {0, 1, 2}
=============================================================================
