-------------------------- MODULE BufferAlgorithms --------------------------
(***************************************************************************)
(* One call of buffer_copy, buffer_transform, buffer_encode or             *)
(* buffer_decode over any sequences of buffers, and what is expected of    *)
(* each.                                                                   *)
(***************************************************************************)
EXTENDS BufferCopy, BufferTransform, BufferCodec

Init == CopyInit \/ TransformInit \/ EncodeInit \/ DecodeInit

Next ==
  \/ CopyPart \/ CopyReturns
  \/ Round
  \/ EncodeItem \/ EncodePart \/ EncodeBreaks \/ EncodeReturns
  \/ DecodeRound \/ DecodeReturns

\* Transformers, encoders and decoders return
Spec == Init /\ [][Next]_vars /\ WF_vars(Next)

-----------------------------------------------------------------------------
(* Properties *)

\* What the output holds, and what a transformer or an encoder keeps to go on
\* from, are the bytes read or encoded so far, in order and once, across
\* buffers of different sizes; nothing behind them is touched, and the totals
\* returned are what the consumers have moved by (copy.hpp:118-135,
\* transform.hpp:136-142, encode.hpp:55-64,88-96).
PassedInOrder ==
  call.name # "decode" =>
    LET wrote == Position(out) IN
    /\ out.status = "running"
    /\ \A i \in DOMAIN dst : dst[i] = IF i < wrote THEN i + 1 ELSE Unset
    /\ CASE call.name = "copy" -> Copied = wrote /\ wrote = Position(in)
         [] call.name = "transform" ->
              /\ \A i \in DOMAIN call.tr.held : call.tr.held[i] = wrote + i
              /\ wrote + Len(call.tr.held) = Position(in)
              /\ call.result_acc.bytes_read = Position(in)
              /\ call.result_acc.bytes_written = wrote
         [] call.name = "encode" ->
              call.total_written = wrote /\ wrote % ItemSize = call.off

\* The items decoded are those of the bytes read, each once and in order; a
\* decoder goes on in the middle of an item (decode.hpp:58-71,116-131).
ItemsDecoded ==
  call.name = "decode" =>
    /\ in.status = "running"
    /\ {dst[i] : i \in DOMAIN dst} \ {Unset} = 1..call.item
    /\ \A i, j \in DOMAIN dst : i < j /\ dst[j] # Unset => dst[i] < dst[j]
    /\ call.total_read = Position(in)
    /\ ~call.has_error => Position(in) = call.item * ItemSize + call.off

\* An algorithm that has not done all it was called for ran out of input or of
\* room, or stands at an empty buffer, which it takes for the end
\* (buffers_consumer.hpp:57-63, copy.hpp:127-129, transform.hpp:155-157,
\* encode.hpp:57,90, decode.hpp:60,118).
EndsDoneOrStuck ==
  returned =>
    CASE call.name = "copy" ->
           Copied < Fits => AtEmptyBuffer(in) \/ AtEmptyBuffer(out)
      [] call.name = "transform" ->
           call.result_acc.done \/ Stuck(in) \/ Stuck(out)
      [] call.name = "encode" ->
           (call.it > call.n /\ call.off = 0) \/ Stuck(out)
      [] call.name = "decode" ->
           \/ call.has_error \/ call.slot = call.n
           \/ call.single /\ call.item = 1
           \/ Stuck(in)

\* bytes::copy copies the contents of the sequence: into one buffer as large as
\* the sequence (bytes.hpp:147-156).
CopiesContents ==
  returned /\ call.name = "copy" /\ out.bufs = <<buffer_size(in.bufs)>>
    /\ call.max_copy >= buffer_size(in.bufs)
    => Copied = buffer_size(in.bufs)

\* Every algorithm returns.
Returns == <>returned
=============================================================================
