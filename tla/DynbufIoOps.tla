---------------------------- MODULE DynbufIoOps ----------------------------
(***************************************************************************)
(* dynbuf_io as a value: a dynamic buffer whose window is split into the   *)
(* read area, its first rd bytes (_read_area_size), and the write area     *)
(* behind it.  As in DynBufOps, an operation is an operator from the value *)
(* before the call to the value after it.                                  *)
(***************************************************************************)
EXTENDS DynBufOps

CONSTANT MaxAlloc   \* the most one prepare() grows the buffer by (16 MiB)

ASSUME MaxAllocAssumption == MaxAlloc \in Nat \ {0}

Rejected(io) == [io EXCEPT !.buf = Asserted(io.buf)]

\* _get_write_area_size
WriteArea(io) == io.buf.size - io.rd

\* next(available()) as a sequence
ReadArea(io) == [i \in 1..io.rd |-> io.buf.store[io.buf.beg + i - 1]]

\* next(n): how many bytes of the read area it hands out
NextSize(io, n) == Smaller(n, io.rd)

\* Mutant of PrepareGrowth: no allocation cap
PrepareGrowthUncapped(io, n) ==
  IF n <= WriteArea(io) THEN 0
  ELSE dynbuf_safe_grow_size(io.buf, n - WriteArea(io))

\* How much prepare(n) asks the buffer to grow by
PrepareGrowth(io, n) ==
  IF n <= WriteArea(io) THEN 0
  ELSE Smaller(MaxAlloc, dynbuf_safe_grow_size(io.buf, n - WriteArea(io)))

\* Mutant of io_prepare: any write area in hand is taken for enough
io_prepareAny(io, n) ==
  IF WriteArea(io) > 0 THEN io
  ELSE [io EXCEPT !.buf = grow(io.buf, PrepareGrowth(io, n))]

io_prepare(io, n) ==
  IF n <= WriteArea(io) THEN io
  ELSE [io EXCEPT !.buf = grow(io.buf, PrepareGrowth(io, n))]

\* Mutant of PreparedSize: the whole write area, however little was asked for
PreparedSizeWhole(io, n) == WriteArea(io)

\* The size of the area that prepare(n), having left io, returns
PreparedSize(io, n) == Smaller(n, WriteArea(io))

\* Mutant of io_commit: off by one when the whole write area is committed
io_commitShort(io, n) ==
  IF n < WriteArea(io) THEN [io EXCEPT !.rd = io.rd + n] ELSE Rejected(io)

io_commit(io, n) ==
  IF n <= WriteArea(io) THEN [io EXCEPT !.rd = io.rd + n] ELSE Rejected(io)

\* Mutant of io_consume: the bytes are dropped from the wrong end
io_consumeBack(io, n) ==
  IF n <= io.rd
  THEN [io EXCEPT !.buf = shrink(io.buf, n), !.rd = io.rd - n]
  ELSE Rejected(io)

\* Mutant of io_consume: the window is moved down as soon as it may be
io_consumeEager(io, n) ==
  IF n <= io.rd
  THEN [io EXCEPT !.buf = Compacted(consume(io.buf, n)), !.rd = io.rd - n]
  ELSE Rejected(io)

io_consume(io, n) ==
  IF n <= io.rd
  THEN [io EXCEPT !.buf = consume(io.buf, n), !.rd = io.rd - n]
  ELSE Rejected(io)

io_shrink_uncommitted(io) == [io EXCEPT !.buf = dynbuf_resize(io.buf, io.rd)]

io_clear(io) == [io EXCEPT !.buf = dynbuf_clear(io.buf), !.rd = 0]

\* The n bytes k + 1, k + 2, ... of a stream stored in the window from
\* offset at on
Filled(io, at, n, k) ==
  LET first == io.buf.beg + at IN
  [io EXCEPT !.buf.store =
     [c \in Cells(io.buf.len) |->
        IF c - first \in Cells(n) THEN k + 1 + (c - first) ELSE io.buf.store[c]]]
=============================================================================
