------------------------- MODULE MCBufferAlgorithms -------------------------
(* The instance of BufferAlgorithms that TLC checks. *)
EXTENDS BufferAlgorithms

\* Empty buffers, buffers of a part and buffers above it
BufferSizesOf == {0, 1, 3}
=============================================================================
