----------------------------- MODULE BufferBits -----------------------------
(***************************************************************************)
(* buffer_bits: a cursor over the bits of a sequence of buffers, which is  *)
(* a bytewise_iterator and an offset in the byte it points at.  A byte has *)
(* ByteBits bits, the high one first; an integer of MaxCount bits, as it   *)
(* is read or written, is the sequence of them, low bit last.  Bits are    *)
(* told apart by where they came from: those of the sequence are negative  *)
(* at first, those written are numbered from 1 on, the low one first.      *)
(***************************************************************************)
EXTENDS BytewiseIterator

CONSTANTS ByteBits,   \* 8 in the code
          MaxCount,   \* the width of the integers, 64 in the code
          MaxWrites,  \* bound: how many writes
          AnyWrite    \* whether the user also writes where set() is unsound

ASSUME BitsAssumption ==
  /\ ByteBits \in Nat \ {0} /\ MaxCount \in Nat /\ MaxCount % ByteBits = 0
  /\ MaxWrites \in Nat /\ AnyWrite \in BOOLEAN

VARIABLES bit_pos,  \* _bit_pos
          remain,   \* what skip() still has to advance in the byte; None outside it
          mem,      \* the bits of the sequence, by their number
          bit_at,   \* where all the skips so far should have led
          writes    \* how many writes there were

bits_vars == <<iterator_vars, bit_pos, remain, mem, bit_at, writes>>

None == -1

Bytes == buffer_size(bufs)

\* The byte *_it is, or Bytes past the end
Byte == Before(bufs, cur - 1) + buf_pos

BitsInit ==
  /\ IteratorInit
  /\ bit_pos = 0 /\ remain = None /\ bit_at = 0 /\ writes = 0
  /\ mem = [c \in 0..(ByteBits * Bytes - 1) |-> -1 - c]

Idle == Settled /\ remain = None

\* The user asks only for bits that are there
BitsAhead(count) == bit_at + count <= ByteBits * Bytes

-----------------------------------------------------------------------------
(* peek *)

\* n bits of a byte from pos on, as an integer
Bits(byte, pos, n) == [i \in 1..n |-> mem[ByteBits * byte + pos + i - 1]]

\* Mutant of WholeBytes: the iterator is not advanced before the loop
WholeBytesEarly(n) == [k \in 1..n |-> Bits(Byte + k - 1, 0, ByteBits)]

\* The bytes of the loop
WholeBytes(n) == [k \in 1..n |-> Bits(Byte + k, 0, ByteBits)]

\* *_it is read first, whatever count is
PeekAborts == Byte = Bytes

peek(count) ==
  LET bits_left == ByteBits - bit_pos
      whole == (count - bits_left) \div ByteBits
      fin == (count - bits_left) % ByteBits
  IN IF count <= bits_left THEN Bits(Byte, bit_pos, count)
     ELSE Bits(Byte, bit_pos, bits_left) \o FlattenSeq(WholeBytes(whole))
            \o Bits(Byte + whole + 1, 0, fin)

-----------------------------------------------------------------------------
(* set *)

\* A bit of the integer to write; above the high one shifting brings in zeros
Zero == 0
BitOf(bit) == IF bit < MaxCount THEN writes * MaxCount + bit + 1 ELSE Zero

\* m with n bits of a byte from pos on replaced by those of the integer whose
\* low one is the bit low
Put(m, byte, pos, n, low) ==
  LET first == ByteBits * byte + pos IN
  [c \in DOMAIN m |-> IF c - first \in 0..(n - 1)
                      THEN BitOf(low + n - 1 - (c - first)) ELSE m[c]]

\* m with bytes of the loop set, of which count bits were still to write, the
\* k-th at Byte + k
PutWholeBytes(m, count, bits_left) ==
  LET put[k \in 0..(count \div ByteBits)] ==
        IF k = 0 THEN m
        ELSE Put(put[k - 1], Byte + k, 0, ByteBits,
                 (count - ByteBits * (k - 1)) - bits_left)
  IN put[count \div ByteBits]

\* Mutant of set: the first byte gets the low bits
setLowFirst(count) ==
  LET bits_left == ByteBits - bit_pos
      rest == count - bits_left
  IN IF count < bits_left THEN Put(mem, Byte, 0, count, 0)
     ELSE Put(PutWholeBytes(Put(mem, Byte, bit_pos, bits_left, 0),
                            rest, bits_left),
              Byte + (rest \div ByteBits) + 1, 0, rest % ByteBits, 0)

\* A short write goes to the high bits of the byte, whatever bit_pos is, and
\* a byte of the loop is shifted by bits_left and not by a byte
set(count) ==
  LET bits_left == ByteBits - bit_pos
      rest == count - bits_left
  IN IF count < bits_left THEN Put(mem, Byte, 0, count, 0)
     ELSE Put(PutWholeBytes(Put(mem, Byte, bit_pos, bits_left, rest),
                            rest, bits_left),
              Byte + (rest \div ByteBits) + 1, 0, rest % ByteBits, 0)

\* The byte behind the last whole one is read and written back even if no
\* bits are left for it
SetAborts(count) ==
  LET rest == count - (ByteBits - bit_pos) IN
  Byte = Bytes \/ (rest >= 0 /\ Byte + (rest \div ByteBits) + 1 = Bytes)

\* What set() should do: the low count bits of the integer, at the cursor
LowBitsSet(count) ==
  [c \in DOMAIN mem |-> IF c - bit_at \in 0..(count - 1)
                        THEN BitOf(count - 1 - (c - bit_at)) ELSE mem[c]]

\* Where set() does so: at the front of a byte, or to the end of one and less
\* than a byte behind it, and never to the end of the sequence
Sound(count) ==
  /\ bit_pos = 0 \/ count = 0 \/ bit_pos + count \in ByteBits..(2 * ByteBits - 1)
  /\ bit_at + count < ByteBits * Bytes

-----------------------------------------------------------------------------
(* The calls *)

\* skip(count) from the start: whole bytes first
SkipBytes(count) == Advance(count \div ByteBits) /\ remain' = count % ByteBits

\* skip(count), and read(count), which peeks first
Skip(count) ==
  /\ Idle /\ BitsAhead(count)
  /\ SkipBytes(count)
  /\ bit_at' = bit_at + count
  /\ UNCHANGED <<bit_pos, mem, writes>>

bit_offset == (ByteBits - bit_pos) % ByteBits

SkipToByteBoundary == Skip(bit_offset)

\* Mutant of SkipBits: the end of the byte is not a step into the next
SkipBitsLate ==
  /\ remain # None /\ off = 0
  /\ Advance(IF remain > ByteBits - bit_pos THEN 1 ELSE 0)
  /\ bit_pos' = (bit_pos + remain) % ByteBits
  /\ remain' = None
  /\ UNCHANGED <<mem, bit_at, writes>>

\* The rest of skip(): the bits in the byte
SkipBits ==
  /\ remain # None /\ off = 0
  /\ Advance(IF remain >= ByteBits - bit_pos THEN 1 ELSE 0)
  /\ bit_pos' = (bit_pos + remain) % ByteBits
  /\ remain' = None
  /\ UNCHANGED <<mem, bit_at, writes>>

\* write(bits, count)
Write(count) ==
  /\ Idle /\ BitsAhead(count) /\ writes < MaxWrites
  /\ AnyWrite \/ Sound(count)
  /\ IF SetAborts(count) THEN Abort /\ UNCHANGED <<mem, remain>>
     ELSE mem' = set(count) /\ SkipBytes(count)
  /\ bit_at' = bit_at + count /\ writes' = writes + 1
  /\ UNCHANGED bit_pos

\* A new buffer_bits on inner_iterator(), moved by distance bytes
Rebase(distance) ==
  /\ Idle /\ Advance(distance)
  /\ bit_pos' = 0 /\ bit_at' = ByteBits * (at + distance)
  /\ UNCHANGED <<remain, mem, writes>>

\* A new buffer_bits at the end()
RebaseToEnd ==
  /\ Idle /\ End
  /\ bit_pos' = 0 /\ bit_at' = ByteBits * Bytes
  /\ UNCHANGED <<remain, mem, writes>>

BitsNext ==
  \/ \E count \in 0..(ByteBits * Bytes) : Skip(count)
  \/ SkipToByteBoundary
  \/ SkipBits
  \/ \E count \in 0..MaxCount : Write(count)
  \/ \E distance \in -Bytes..Bytes : Rebase(distance)
  \/ RebaseToEnd
  \/ Step /\ UNCHANGED <<bit_pos, remain, mem, bit_at, writes>>

BitsSpec == BitsInit /\ [][BitsNext]_bits_vars

-----------------------------------------------------------------------------
(* Properties *)

\* After any skips, writes and new cursors the cursor is at the bit they add
\* up to: iterator and _bit_pos carry over into each other in skip()
\* (buffer_bits.hpp:158-167).
SkipsAddUp == Idle => ByteBits * Byte + bit_pos = bit_at

\* peek() yields the next count bits in order, from one byte or from several,
\* and reads no byte that is not there, but for a peek(0) at the end
\* (buffer_bits.hpp:49-93).
PeeksNext ==
  Idle => \A count \in 0..MaxCount : BitsAhead(count) =>
    IF PeekAborts THEN count = 0
    ELSE peek(count) = [i \in 1..count |-> mem[bit_at + i - 1]]

\* set() puts the low count bits at the cursor and leaves every other bit,
\* where it is sound, and only there (buffer_bits.hpp:98-153).
SetsWhereSound ==
  Idle => \A count \in 0..MaxCount : BitsAhead(count) =>
    (Sound(count) <=> ~SetAborts(count) /\ set(count) = LowBitsSet(count))

\* "Set the low `count` bits from `bits` into the output and advance by
\* `count` bits" (buffer_bits.hpp:195): the bits behind the cursor after a
\* write are those written.
WritesLowBits ==
  [][\A count \in 0..MaxCount : Write(count) /\ ~SetAborts(count) =>
       mem' = LowBitsSet(count)]_bits_vars
=============================================================================
