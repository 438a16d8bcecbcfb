-------------------------- MODULE BytewiseIterator --------------------------
(***************************************************************************)
(* bytewise_iterator over a sequence of buffers, some of which may be      *)
(* empty: moves of any distance, forward and back, buffer by buffer.  A    *)
(* byte of the sequence is its position in it.  BufferBits moves one.      *)
(***************************************************************************)
EXTENDS BufferSequences

VARIABLES bufs,     \* the sequence
          single,   \* it is one buffer, whose iterator is an index
          cur,      \* _cur: the buffer pointed at, one past the last at _stop
          buf_pos,  \* _cur_buf_pos, or _idx
          abs_pos,  \* _abs_pos, or _idx
          off,      \* the distance _advance (or, negative, _rewind) has left
          at,       \* where all the moves so far should have led
          status    \* "aborted" once an assertion has fired

iterator_vars == <<bufs, single, cur, buf_pos, abs_pos, off, at, status>>

\* The first buffer from k on that is not empty
NonEmptyFrom(k) ==
  CHOOSE j \in k..(Len(bufs) + 1) :
    /\ j <= Len(bufs) => bufs[j] # 0
    /\ \A i \in k..(j - 1) : bufs[i] = 0

PastLast == cur > Len(bufs)

IteratorInit ==
  /\ bufs \in Sequences
  /\ single \in {FALSE, Len(bufs) = 1}
  /\ cur = IF single THEN 1 ELSE NonEmptyFrom(1)
  /\ buf_pos = 0 /\ abs_pos = 0 /\ off = 0 /\ at = 0 /\ status = "running"

Settled == status = "running" /\ off = 0

\* advance(distance) to a byte of the sequence or to its end
Advance(distance) ==
  /\ Settled /\ at + distance \in 0..buffer_size(bufs)
  /\ off' = distance /\ at' = at + distance
  /\ UNCHANGED <<bufs, single, cur, buf_pos, abs_pos, status>>

Abort == status' = "aborted" /\ UNCHANGED <<bufs, single, cur, buf_pos, abs_pos, off, at>>

\* One call of _advance
AdvanceStep ==
  /\ status = "running" /\ off > 0 /\ ~single
  /\ IF PastLast THEN Abort
     ELSE LET remaining == bufs[cur] - buf_pos IN
          /\ IF off < remaining
             THEN buf_pos' = buf_pos + off /\ abs_pos' = abs_pos + off
                  /\ off' = 0 /\ UNCHANGED cur
             ELSE buf_pos' = 0 /\ abs_pos' = abs_pos + remaining
                  /\ off' = off - remaining /\ cur' = NonEmptyFrom(cur + 1)
          /\ UNCHANGED <<bufs, single, at, status>>

\* Mutant of RewindStep: the front of a buffer is taken for that of them all
RewindStepAsserts ==
  /\ status = "running" /\ off < 0 /\ ~single
  /\ IF buf_pos = 0 THEN Abort
     ELSE /\ IF -off <= buf_pos
             THEN buf_pos' = buf_pos + off /\ abs_pos' = abs_pos + off
                  /\ off' = 0 /\ UNCHANGED cur
             ELSE abs_pos' = abs_pos - buf_pos /\ off' = off + buf_pos
                  /\ cur' = cur - 1 /\ buf_pos' = bufs[cur']
          /\ UNCHANGED <<bufs, single, at, status>>

\* One call of _rewind
RewindStep ==
  /\ status = "running" /\ off < 0 /\ ~single
  /\ IF abs_pos = 0 THEN Abort
     ELSE /\ IF -off <= buf_pos
             THEN buf_pos' = buf_pos + off /\ abs_pos' = abs_pos + off
                  /\ off' = 0 /\ UNCHANGED cur
             ELSE abs_pos' = abs_pos - buf_pos /\ off' = off + buf_pos
                  /\ cur' = cur - 1 /\ buf_pos' = bufs[cur']
          /\ UNCHANGED <<bufs, single, at, status>>

\* advance() of the iterator of one buffer
AdvanceSingle ==
  /\ status = "running" /\ off # 0 /\ single
  /\ IF -off > buf_pos \/ off > bufs[1] - buf_pos THEN Abort
     ELSE /\ buf_pos' = buf_pos + off /\ abs_pos' = abs_pos + off /\ off' = 0
          /\ UNCHANGED <<bufs, single, cur, at, status>>

Step == AdvanceStep \/ RewindStep \/ AdvanceSingle

\* The absolute position of end(): the buffers from _cur on are added to the
\* iterator's own
end_pos == abs_pos + buffer_size(bufs) - Before(bufs, cur - 1)

\* it = it.end().  Inside a buffer, where end() counts the bytes of the buffer
\* that are behind the iterator once more, the user does not ask for it.
End ==
  /\ Settled /\ (single \/ buf_pos = 0)
  /\ IF single THEN buf_pos' = bufs[1] /\ abs_pos' = bufs[1] /\ UNCHANGED cur
     ELSE cur' = Len(bufs) + 1 /\ abs_pos' = end_pos /\ UNCHANGED buf_pos
  /\ at' = buffer_size(bufs)
  /\ UNCHANGED <<bufs, single, off, status>>

-----------------------------------------------------------------------------
(* Properties *)

\* After any moves inside the sequence, and to its end(), the iterator points at
\* the byte they sum up to, in a buffer that has it, or past the last one;
\* operator== and distance_to, which look at _abs_pos only, agree; no assertion
\* fires on the way; and end() is the end from the front of a buffer, and only
\* from there (bytewise_iterator.hpp:31-79,95-109,141-166).
MovesAddUp ==
  /\ status = "running"
  /\ off = 0 =>
       /\ abs_pos = at
       /\ Before(bufs, cur - 1) + buf_pos = at
       /\ single => buf_pos <= bufs[1]
       /\ ~single => IF PastLast THEN buf_pos = 0 ELSE buf_pos < bufs[cur]
       /\ ~single => (end_pos = buffer_size(bufs) <=> buf_pos = 0)
=============================================================================
