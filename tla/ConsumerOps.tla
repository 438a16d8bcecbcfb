---------------------------- MODULE ConsumerOps ----------------------------
(***************************************************************************)
(* buffers_consumer as a value: a walk over a sequence of buffers, given   *)
(* by their sizes.  it is the buffer _seq_it points at (one past the last  *)
(* at _seq_stop), off is _cur_elem_offset and rem is _remaining.  This is  *)
(* what BuffersConsumer, which walks ranges by their iterators and one     *)
(* buffer without any, is shown to do.                                     *)
(***************************************************************************)
EXTENDS ByteStore, BufferSizes

\* The buffer at it is the current one, off bytes of it are consumed, and rem
\* bytes may still be
buffers_consumer(bufs, clamp_size) ==
  [bufs |-> bufs, it |-> 1, off |-> 0, rem |-> clamp_size, status |-> "running"]

AtStop(c) == c.it > Len(c.bufs)

empty(c) == AtStop(c) \/ c.rem = 0

\* How many bytes of the sequence are behind the consumer
Position(c) == Before(c.bufs, c.it - 1) + c.off

\* How many bytes a user may still consume
Left(c) == Smaller(c.rem, buffer_size(c.bufs) - Position(c))

\* The size of the buffer next(n) returns: what is left of one buffer, which
\* may be none of it
NextSize(c, n) ==
  IF AtStop(c) THEN 0 ELSE Smaller(Smaller(n, c.rem), c.bufs[c.it] - c.off)

Aborted(c) == [c EXCEPT !.status = "aborted"]

\* Mutant of Landed: a buffer consumed to its last byte is not left
LandedLate(c, p) ==
  LET last == CHOOSE k \in c.it..Len(c.bufs) :
                /\ Before(c.bufs, k) >= p
                /\ \A j \in c.it..(k - 1) : Before(c.bufs, j) < p
  IN [c EXCEPT !.it = last, !.off = p - Before(c.bufs, last - 1)]

\* The consumer once p bytes of the sequence are behind it: inside the buffer
\* that holds byte p, or past that buffer if p was its last byte
Landed(c, p) ==
  LET last == CHOOSE k \in c.it..Len(c.bufs) :
                /\ Before(c.bufs, k) >= p
                /\ \A j \in c.it..(k - 1) : Before(c.bufs, j) < p
  IN IF Before(c.bufs, last) = p
     THEN [c EXCEPT !.it = last + 1, !.off = 0]
     ELSE [c EXCEPT !.it = last, !.off = p - Before(c.bufs, last - 1)]

\* consume(size)
consume(c, size) ==
  IF size = 0 THEN c
  ELSE IF empty(c) \/ size > buffer_size(c.bufs) - Position(c) THEN Aborted(c)
  ELSE [Landed(c, Position(c) + size) EXCEPT !.rem = c.rem - size]
=============================================================================
