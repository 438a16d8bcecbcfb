---------------------------- MODULE BufferRanges ----------------------------
(***************************************************************************)
(* Ranges of buffers, their iterators, and buffers_cat, which makes one    *)
(* range of several.  elems of a range are, by its kind,                   *)
(*   "buffer"  itself: a buffer is a range of one                          *)
(*   "array"   the buffers of a std::array                                 *)
(*   "vector"  those of any other container of what as_buffer takes        *)
(*   "bytes"   a buffer that is iterated byte by byte                      *)
(*   "cat"     the ranges of a buffers_seq_concat                          *)
(* and lvalue says whether an operand or an element is held by reference.  *)
(***************************************************************************)
EXTENDS BufferViews

RangeOf(kind, elems) == [kind |-> kind, elems |-> elems, lvalue |-> FALSE]
IsCat(r) == r.kind = "cat"

-----------------------------------------------------------------------------
(* Iterators: the number of a buffer, or, in a concatenation, that of a    *)
(* range and an iterator of it.                                            *)

\* What the iterator of a range that is no concatenation points at
Contained(r) ==
  IF r.kind # "bytes" THEN r.elems
  ELSE [i \in 1..r.elems[1].size |-> Buffer(r.elems[1].from + i - 1, 1)]

total_end == << >>
end(r) == IF IsCat(r) THEN total_end ELSE Len(Contained(r)) + 1

RECURSIVE NoBytes(_), begin(_), increment(_, _), dereference(_, _), IteratorsFrom(_, _)

\* buffer_size of the range is 0, though there may be buffers in it
NoBytes(r) ==
  IF IsCat(r) THEN \A i \in DOMAIN r.elems : NoBytes(r.elems[i])
  ELSE buffer_size(SizesOf(Contained(r))) = 0

\* The front of the first range from n on that has any bytes
_become(r, n) ==
  LET rest == {k \in n..Len(r.elems) : ~NoBytes(r.elems[k])}
  IN IF rest = {} THEN total_end ELSE <<Min(rest), begin(r.elems[Min(rest)])>>

begin(r) == IF IsCat(r) THEN _become(r, 1) ELSE 1

increment(r, it) ==
  IF ~IsCat(r) THEN it + 1
  ELSE LET inner == increment(r.elems[it[1]], it[2])
       IN IF inner = end(r.elems[it[1]]) THEN _become(r, it[1] + 1)
          ELSE <<it[1], inner>>

dereference(r, it) ==
  IF IsCat(r) THEN dereference(r.elems[it[1]], it[2]) ELSE Contained(r)[it]

\* The iterators of a loop over the range, from one on to the end
IteratorsFrom(r, it) ==
  <<it>> \o (IF it = end(r) THEN << >> ELSE IteratorsFrom(r, increment(r, it)))
LoopOver(r) == IteratorsFrom(r, begin(r))

-----------------------------------------------------------------------------
(* buffers_cat, by the specializations of bufcat_impl *)

\* match_simple_buffer_concat
Simple(r) == r.kind \in {"buffer", "array"}

\* [3]: one array of both
Folded(a, b) == RangeOf("array", a.elems \o b.elems)

\* Mutant of Prepended: the tail goes in front
PrependedBehind(head, tail) ==
  RangeOf("cat", IF IsCat(tail) THEN tail.elems \o <<head>> ELSE <<tail, head>>)

\* [4]: in front of the ranges of a concatenation that was made here, or of
\* the tail as it is
Prepended(head, tail) ==
  RangeOf("cat", <<head>> \o
    IF IsCat(tail) /\ ~tail.lvalue THEN tail.elems ELSE <<tail>>)

RECURSIVE buffers_cat(_)

\* [5]: the concatenation of the ranges of both
Joined(f, s) == buffers_cat(f.elems \o s.elems)

buffers_cat(bufs) ==
  CASE Len(bufs) = 0 -> RangeOf("array", << >>)
    [] Len(bufs) = 1 -> bufs[1]
    [] OTHER ->
         LET a == bufs[1]
             b == bufs[2]
             rest == SubSeq(bufs, 3, Len(bufs))
         IN CASE Simple(a) /\ Simple(b) -> buffers_cat(<<Folded(a, b)>> \o rest)
              [] IsCat(a) /\ IsCat(b)   -> buffers_cat(<<Joined(a, b)>> \o rest)
              [] OTHER -> Prepended(a, buffers_cat(Tail(bufs)))

-----------------------------------------------------------------------------
(* The bytes of ranges, without iterators *)

RECURSIVE BytesOf(_)
BytesOf(r) ==
  IF IsCat(r) THEN FlattenSeq([i \in DOMAIN r.elems |-> BytesOf(r.elems[i])])
  ELSE BytesIn(r.elems)
BytesOfAll(ranges) == FlattenSeq([i \in DOMAIN ranges |-> BytesOf(ranges[i])])
=============================================================================
