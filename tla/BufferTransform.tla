-------------------------- MODULE BufferTransform --------------------------
(* The loop of buffer_transform from one sequence of buffers into another. *)
EXTENDS BufferAlgorithm, TransformOps

TransformInit ==
  \E src, dest \in Sequences :
    /\ InitBetween(src, dest, buffer_size(dest))
    /\ call = [name |-> "transform", tr |-> FreshTransformer, result_acc |-> NoResult]

InPart == NextSize(in, Hint)
OutPart == NextSize(out, Hint)

\* The bytes of the input part
Input == BytesFrom(Position(in), InPart)

Round ==
  /\ Calls("transform")
  /\ \E res \in Results(call.tr, InPart, OutPart) :
       /\ dst' = Stored(Position(out), Written(call.tr, res, Input))
       /\ in' = consume(in, res.bytes_read)
       /\ out' = consume(out, res.bytes_written)
       /\ call' = [call EXCEPT !.tr = Transformed(@, res, Input),
                               !.result_acc = Added(@, res)]
       /\ returned' = LastRound(call'.result_acc, res)
=============================================================================
