-------------------------- MODULE BuffersConsumer --------------------------
(***************************************************************************)
(* A buffers_consumer over a concatenation of ranges, which it walks by    *)
(* iterator, and its user, who consumes no more than is left.  The loop of *)
(* consume() is run buffer by buffer.  Like the class template, the module *)
(* takes any range: what it asks of one is RangesAssumption, and           *)
(* BufferRanges has the ranges and the concatenations there are.           *)
(***************************************************************************)
EXTENDS BufferViews, ConsumerOps

CONSTANTS Operands,           \* the lists of operands buffers_cat may be given
          Concatenation(_),   \* buffers_cat of them
          BytesOfOperands(_), \* the bytes they have, in order
          BeginOf(_), EndOf(_),   \* begin() and end() of a range
          Increment(_, _),    \* ++ of an iterator of a range
          Dereference(_, _),  \* the buffer it points at
          Iterators(_),       \* those of a loop over a range, its end included
          SmallSize,          \* buffers in the vector of buffers_vec_consumer (16)
          MaxClamp            \* bound: the largest clamp

ASSUME BoundsAssumption == SmallSize \in Nat \ {0} /\ MaxClamp \in Nat

Views == [from : Nat, size : Nat]

\* The specialization for one buffer is taken for it
IsBuffer(r) == r.kind = "buffer"

\* A forward range: a loop from begin() gets to end() and meets no iterator
\* twice, and those before the end point at buffers.
IsRange(r) ==
  LET its == Iterators(r)
  IN /\ Len(its) \in Nat \ {0} /\ its = [k \in 1..Len(its) |-> its[k]]
     /\ its[1] = BeginOf(r) /\ its[Len(its)] = EndOf(r)
     /\ \A j, k \in 1..Len(its) : its[j] = its[k] => j = k
     /\ \A k \in 1..(Len(its) - 1) : /\ Increment(r, its[k]) = its[k + 1]
                                     /\ Dereference(r, its[k]) \in Views
     /\ IsBuffer(r) => Len(its) = 2

ASSUME RangesAssumption == \A bufs \in Operands : IsRange(Concatenation(bufs))

VARIABLES range,        \* the concatenation
          operand_bytes, \* the bytes of its operands
          seq_it,       \* _seq_it
          elem_offset,  \* _cur_elem_offset
          remaining,    \* _remaining
          aborted,      \* an assertion has fired
          to_consume,   \* what a running consume() has left to do, or NoCall
          consumed      \* history: how many bytes the user has consumed

consumer_vars ==
  <<range, operand_bytes, seq_it, elem_offset, remaining, aborted, to_consume,
    consumed>>
fixed == <<range, operand_bytes>>

NoCall == -1

\* The buffers of a range
BuffersOf(r) ==
  LET its == Iterators(r) IN [k \in 1..(Len(its) - 1) |-> Dereference(r, its[k])]

Buffers == BuffersOf(range)
SizeOfRange == buffer_size(SizesOf(Buffers))

\* The specialization for one buffer holds what is left of it: elem_offset
\* bytes are gone and remaining are left
Single == IsBuffer(range)

ConsumerInit ==
  \E bufs \in Operands, clamp_size \in 0..MaxClamp :
    /\ range = Concatenation(bufs) /\ operand_bytes = BytesOfOperands(bufs)
    /\ seq_it = BeginOf(range) /\ elem_offset = 0 /\ aborted = FALSE
    /\ remaining = IF Single THEN Clamped(Dereference(range, seq_it), clamp_size).size
                   ELSE clamp_size
    /\ to_consume = NoCall /\ consumed = 0

AtEnd == seq_it = EndOf(range)
ConsumerAborts ==
  aborted' = TRUE /\ UNCHANGED <<fixed, seq_it, elem_offset, remaining, to_consume, consumed>>

Consumes(n) ==
  /\ to_consume = NoCall /\ ~aborted
  /\ n <= remaining /\ consumed + n <= SizeOfRange

\* consume(n), up to its loop
Consume(n) ==
  /\ Consumes(n) /\ ~Single
  /\ IF n # 0 /\ (AtEnd \/ remaining = 0) THEN ConsumerAborts
     ELSE /\ to_consume' = n /\ consumed' = consumed + n
          /\ UNCHANGED <<fixed, seq_it, elem_offset, remaining, aborted>>

\* consume(n) of one buffer
ConsumeSingle(n) ==
  /\ Consumes(n) /\ Single
  /\ elem_offset' = elem_offset + n /\ remaining' = remaining - n
  /\ consumed' = consumed + n
  /\ UNCHANGED <<fixed, seq_it, aborted, to_consume>>

\* What is left of the buffer the iterator points at
Unconsumed == Plus(Dereference(range, seq_it), elem_offset)

InLoop == to_consume # NoCall /\ to_consume # 0 /\ ~AtEnd

\* Part of the buffer is consumed: the next walk goes on inside it
SkipInto ==
  /\ InLoop /\ to_consume < Unconsumed.size
  /\ elem_offset' = elem_offset + to_consume /\ remaining' = remaining - to_consume
  /\ to_consume' = 0
  /\ UNCHANGED <<fixed, seq_it, aborted, consumed>>

\* Mutant of Discard: the offset into the buffer left is kept
DiscardKeepsOffset ==
  /\ InLoop /\ to_consume >= Unconsumed.size
  /\ seq_it' = Increment(range, seq_it)
  /\ remaining' = remaining - Unconsumed.size
  /\ to_consume' = to_consume - Unconsumed.size
  /\ UNCHANGED <<fixed, elem_offset, aborted, consumed>>

\* What is left of the buffer is consumed
Discard ==
  /\ InLoop /\ to_consume >= Unconsumed.size
  /\ elem_offset' = 0 /\ seq_it' = Increment(range, seq_it)
  /\ remaining' = remaining - Unconsumed.size
  /\ to_consume' = to_consume - Unconsumed.size
  /\ UNCHANGED <<fixed, aborted, consumed>>

\* consume() ensures that nothing is left to do
ConsumeReturns ==
  /\ to_consume # NoCall /\ ~aborted
  /\ to_consume = 0 \/ AtEnd
  /\ IF to_consume # 0 THEN ConsumerAborts
     ELSE /\ to_consume' = NoCall
          /\ UNCHANGED <<fixed, seq_it, elem_offset, remaining, aborted, consumed>>

ConsumerNext ==
  \/ \E n \in 0..MaxClamp : Consume(n) \/ ConsumeSingle(n)
  \/ SkipInto \/ Discard \/ ConsumeReturns

ConsumerSpec == ConsumerInit /\ [][ConsumerNext]_consumer_vars

-----------------------------------------------------------------------------
(* What the consumer shows *)

NextPart(n) ==
  IF AtEnd THEN Buffer(0, 0) ELSE Clamped(Unconsumed, Smaller(n, remaining))

\* The loop of buffers_vec_consumer::next, after so many of its steps: the
\* vector, the iterator, the offset into its buffer and the bytes to prepare
VecNext(n_to_prepare) ==
  LET filled[k \in 0..SmallSize] ==
        IF k = 0
        THEN [bufs |-> << >>, it |-> seq_it, elem_offset |-> elem_offset, left |-> n_to_prepare]
        ELSE LET v == filled[k - 1]
                 buf == Clamped(Plus(Dereference(range, v.it), v.elem_offset), v.left)
             IN IF v.it = EndOf(range) \/ v.left = 0 THEN v
                ELSE [bufs |-> Append(v.bufs, buf), it |-> Increment(range, v.it),
                      elem_offset |-> 0, left |-> v.left - buf.size]
  IN filled[SmallSize].bufs

\* Mutant of vec_next: the clamp is not looked at
vec_nextUnclamped(n) == VecNext(n)

vec_next(n) == VecNext(Smaller(n, remaining))

-----------------------------------------------------------------------------
(* Properties *)

\* The buffers from the iterator on, and how many are before it
Place ==
  LET its == Iterators(range) IN CHOOSE k \in 1..Len(its) : its[k] = seq_it
Ahead == LET bufs == Buffers IN SubSeq(bufs, Place, Len(bufs))

\* After any calls of consume() the next parts are those of a flat sequence of
\* the same buffers, of which one consume() took all the bytes: offset,
\* iterator and clamp stay in step wherever the empty buffers and the seams of
\* the concatenation are, and no assertion fires (buffers_consumer.hpp:65-122).
ConsumesAsOne ==
  /\ ~aborted
  /\ to_consume = NoCall =>
       LET flat == consume(buffers_consumer(SizesOf(Buffers), remaining + consumed), consumed)
       IN \A n \in 0..MaxClamp : NextPart(n).size = NextSize(flat, n)

\* What is ahead are the bytes of the operands that are not consumed, in order,
\* whatever specialization of bufcat_impl joined them and whichever ranges and
\* buffers are empty (buffers_cat.hpp:60-115,215-399).
OperandsAhead ==
  to_consume = NoCall =>
    LET bytes == BytesIn(Ahead)
    IN SubSeq(bytes, elem_offset + 1, Len(bytes))
         = SubSeq(operand_bytes, consumed + 1, Len(operand_bytes))

\* The buffers of the vector next() fills have the bytes that come next, up to
\* what was asked for, the clamp and the last buffer it has room for, across
\* empty buffers and seams (buffers_consumer.hpp:144-169).
VectorFilled ==
  to_consume = NoCall =>
    LET ahead == Ahead
        bytes == BytesIn(ahead)
        in_reach == Before(SizesOf(ahead), Smaller(SmallSize, Len(ahead))) - elem_offset
    IN \A n \in 0..MaxClamp :
         BytesIn(vec_next(n)) =
           SubSeq(bytes, elem_offset + 1,
                  elem_offset + Smaller(n, Smaller(remaining, in_reach)))
=============================================================================
