---------------------------- MODULE TransformOps ----------------------------
(***************************************************************************)
(* A buffer transformer as the library sees it: a function object given an *)
(* output and an input buffer, that reads some bytes, writes some, and     *)
(* says whether it is done.  Transformers are the user's; this one passes  *)
(* bytes on unchanged and may keep some back, as a compressor does.  What  *)
(* it must do is what buffer_transform asserts of it: unless it is done it *)
(* uses up one of its two buffers.                                         *)
(***************************************************************************)
EXTENDS Integers, Sequences

CONSTANTS HoldMax,  \* the most bytes the transformer keeps back
          EndAt,    \* how many bytes it reads before it is done
          Hint      \* buffer_transform_dynamic_growth_hint_v (1024)

ASSUME TransformerAssumption == HoldMax \in Nat /\ EndAt \in Nat
ASSUME HintAssumption == Hint \in Nat \ {0}

\* A transformer that has read n bytes and keeps the sequence held of them back
FreshTransformer == [read |-> 0, held |-> << >>]

\* What a call with an input of n_in and an output of n_out bytes may return
Results(tr, n_in, n_out) ==
  {res \in [bytes_read : 0..n_in, bytes_written : 0..n_out, done : BOOLEAN] :
     LET keeps == Len(tr.held) + res.bytes_read - res.bytes_written IN
     /\ tr.read + res.bytes_read <= EndAt
     /\ keeps \in 0..HoldMax
     /\ res.done <=> tr.read + res.bytes_read = EndAt /\ keeps = 0
     /\ res.done \/ res.bytes_written = n_out \/ res.bytes_read = n_in}

\* The bytes in the transformer's hands once it has read those of input
Known(tr, res, input) == tr.held \o SubSeq(input, 1, res.bytes_read)

Written(tr, res, input) == SubSeq(Known(tr, res, input), 1, res.bytes_written)

Transformed(tr, res, input) ==
  LET known == Known(tr, res, input) IN
  [read |-> tr.read + res.bytes_read,
   held |-> SubSeq(known, res.bytes_written + 1, Len(known))]

NoResult == [bytes_read |-> 0, bytes_written |-> 0, done |-> FALSE]

\* result_acc += partial_result
Added(acc, res) ==
  [bytes_read    |-> acc.bytes_read + res.bytes_read,
   bytes_written |-> acc.bytes_written + res.bytes_written,
   done          |-> acc.done \/ res.done]

\* Mutant of LastRound: the loop ends when a round reads nothing
LastRoundUnread(acc, res) == acc.done \/ res.bytes_read = 0

\* Mutant of LastRound: only a transformer that is done ends the loop
LastRoundDone(acc, res) == acc.done

\* The loop ends when the transformer is done or a round did nothing
LastRound(acc, res) ==
  acc.done \/ (res.bytes_read = 0 /\ res.bytes_written = 0)
=============================================================================
