--------------------------- MODULE BufferAlgorithm ---------------------------
(***************************************************************************)
(* What the algorithms over sequences of buffers share: a consumer walks   *)
(* the input, a consumer walks the output, and a loop ends.  The bytes of  *)
(* the input are their positions, 1 to its size; a cell of the output      *)
(* nothing was written to holds Unset.                                     *)
(***************************************************************************)
EXTENDS ConsumerOps, BufferSequences

VARIABLES in,        \* the consumer of the input
          out,       \* the consumer of the output
          dst,       \* the cells of the output
          call,      \* which algorithm it is, and its local variables
          returned   \* its loop has ended

vars == <<in, out, dst, call, returned>>

Unset == 0

\* ensure_buffer_source, ensure_buffer_sink: the consumer is not clamped below
\* the size of its sequence
Unclamped(bufs) == buffers_consumer(bufs, buffer_size(bufs))

\* A call between two sequences of buffers
InitBetween(src, dest, n_cells) ==
  /\ in = Unclamped(src) /\ out = Unclamped(dest)
  /\ dst = [i \in Cells(n_cells) |-> Unset]
  /\ returned = FALSE

Calls(name) == call.name = name /\ ~returned
               /\ in.status = "running" /\ out.status = "running"

\* dst with values stored from cell first on
Stored(first, values) ==
  [i \in DOMAIN dst |-> IF i - first \in Cells(Len(values))
                        THEN values[i - first + 1] ELSE dst[i]]

\* The n bytes of the input, or of what is encoded, behind the first k
BytesFrom(k, n) == [i \in 1..n |-> k + i]

\* Nothing is left of the buffer the consumer stands at, though it may be one
\* of several
Stuck(c) == NextSize(c, 1) = 0

\* A consumer stands at an empty buffer although bytes may be left
AtEmptyBuffer(c) == ~AtStop(c) /\ c.bufs[c.it] = 0
=============================================================================
