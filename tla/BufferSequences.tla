-------------------------- MODULE BufferSequences --------------------------
(* The sequences of buffers that the machines start from. *)
EXTENDS BufferSizes

CONSTANTS Sizes,    \* the sizes a buffer of a sequence may have, in bytes
          MaxBufs   \* bound: buffers in a sequence

ASSUME SizesAssumption == Sizes \subseteq Nat /\ MaxBufs \in Nat

Sequences == BoundedSeq(Sizes, MaxBufs)
=============================================================================
