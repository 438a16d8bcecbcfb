---------------------------- MODULE BufferViews ----------------------------
(* Buffers as views: where the bytes of a buffer start and how many there are. *)
EXTENDS BufferSizes

Buffer(from, size) == [from |-> from, size |-> size]

\* buf + n, which asserts that the buffer has n bytes
Plus(buf, n) == Buffer(buf.from + n, buf.size - n)

\* as_buffer(buf, max_size)
Clamped(buf, max_size) ==
  IF max_size < buf.size THEN [buf EXCEPT !.size = max_size] ELSE buf

SizesOf(views) == [i \in DOMAIN views |-> views[i].size]

ViewedBytes(view) == [k \in 1..view.size |-> view.from + k - 1]

\* The bytes of a sequence of buffers
BytesIn(views) == FlattenSeq([i \in DOMAIN views |-> ViewedBytes(views[i])])
=============================================================================
