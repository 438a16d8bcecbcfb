----------------------------- MODULE BufferCopy -----------------------------
(* The loop of buffer_copy from one sequence of buffers into another. *)
EXTENDS BufferAlgorithm

CONSTANT MaxCopy   \* bound: the largest max_copy

ASSUME CopyBoundAssumption == MaxCopy \in Nat

CopyInit ==
  \E src, dest \in Sequences, max_copy \in 0..MaxCopy :
    /\ InitBetween(src, dest, buffer_size(dest))
    /\ call = [name |-> "copy", max_copy |-> max_copy, remaining |-> max_copy]

\* next(remaining) of the input, prepare() of as much of the output
CopyIn == NextSize(in, call.remaining)
CopyOut == NextSize(out, CopyIn)

\* What the copy of one buffer into another copies
ToCopy == Smaller(CopyIn, Smaller(CopyOut, call.remaining))

\* Mutant of CopyPart: the output is committed what it was prepared for
CopyPartPrepared ==
  /\ Calls("copy") /\ call.remaining # 0 /\ ToCopy # 0
  /\ dst' = Stored(Position(out), BytesFrom(Position(in), ToCopy))
  /\ in' = consume(in, ToCopy)
  /\ out' = consume(out, CopyIn)
  /\ call' = [call EXCEPT !.remaining = @ - ToCopy]
  /\ UNCHANGED returned

CopyPart ==
  /\ Calls("copy") /\ call.remaining # 0 /\ ToCopy # 0
  /\ dst' = Stored(Position(out), BytesFrom(Position(in), ToCopy))
  /\ in' = consume(in, ToCopy)
  /\ out' = consume(out, ToCopy)
  /\ call' = [call EXCEPT !.remaining = @ - ToCopy]
  /\ UNCHANGED returned

\* Mutant of CopyEnds: only max_copy ends the loop
CopyEndsAtMax == call.remaining = 0

\* Nothing is left to copy, or nothing was copied
CopyEnds == call.remaining = 0 \/ ToCopy = 0

CopyReturns ==
  /\ Calls("copy") /\ CopyEnds
  /\ returned' = TRUE
  /\ UNCHANGED <<in, out, dst, call>>

\* What buffer_copy returns, and the most it can copy
Copied == call.max_copy - call.remaining
Fits == Smaller(call.max_copy, Smaller(buffer_size(in.bufs), buffer_size(out.bufs)))
=============================================================================
