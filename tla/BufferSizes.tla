---------------------------- MODULE BufferSizes ----------------------------
(* Sequences of buffers, given by the sizes of the buffers in them. *)
EXTENDS Integers, SequencesExt

\* buffer_size of the first k buffers
Before(bufs, k) ==
  LET sum[i \in 0..Len(bufs)] == IF i = 0 THEN 0 ELSE sum[i - 1] + bufs[i]
  IN sum[k]

buffer_size(bufs) == Before(bufs, Len(bufs))
=============================================================================
