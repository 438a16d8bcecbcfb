--------------------------- MODULE TransformSource ---------------------------
(***************************************************************************)
(* buffer_transform_source: next() gives bytes of its dynamic buffer, and  *)
(* when it has too few of them runs the loop of buffer_transform from the  *)
(* source behind it into the rest of the buffer.  That source is any       *)
(* buffer_source: all that is known of it is how many bytes it has.  The   *)
(* bytes are the positions of one stream.  TransformPipe puts a writer     *)
(* behind it.                                                              *)
(***************************************************************************)
EXTENDS DynBufOps, TransformOps

CONSTANTS Kinds,      \* the pairs <<kind, storage>> of the DynBuffer
          MaxSize,    \* its max_size()
          FixedSize,  \* the size of a fixed storage
          Cap,        \* the most one next() grows the buffer by (10 MiB)
          MaxWant     \* bound: the most bytes the user asks for

VARIABLES buf,      \* _buffer
          avail,    \* _avail
          given,    \* the size of the view the user holds
          want,     \* what next() in progress was asked for; None outside it
          to_read,  \* its read_size
          written,  \* res.bytes_written so far
          tr,       \* _transformer
          got,      \* how many bytes of the stream the user has consumed
          taken,    \* how many have left the source behind
          made      \* how many have been written to it

vars == <<buf, avail, given, want, to_read, written, tr, got, taken, made>>

None == -1

Init ==
  /\ \E kind \in Kinds :
       LET len == IF kind[2] = "fixed" THEN FixedSize ELSE 0 IN
       buf = Constructed(kind[1], kind[2], MaxSize, [c \in Cells(len) |-> Blank], len, 0)
  /\ avail = 0 /\ given = 0 /\ want = None /\ to_read = 0 /\ written = 0
  /\ tr = FreshTransformer
  /\ got = 0 /\ taken = 0

Idle == Ok(buf) /\ want = None

\* next(n) that has enough
NextBuffered(n) ==
  /\ Idle /\ avail >= n
  /\ given' = n
  /\ UNCHANGED <<buf, avail, want, to_read, written, tr, got, taken, made>>

\* Mutant of SourceGrowth: grow() and not dynbuf_safe_grow()
SourceGrowthUnsafe(n) == IF buf.size < n THEN Smaller(n - buf.size, Cap) ELSE 0

\* How much next(n) asks of the buffer
SourceGrowth(n) ==
  IF buf.size < n
  THEN dynbuf_safe_grow_size(buf, Smaller(n - buf.size, Cap)) ELSE 0

\* read_size, once the buffer has grown to b
ReadSize(n, b) == Smaller(n - avail, b.size - avail)

\* next(n) that has too few, up to the loop.  The view held before is void.
NextReads(n) ==
  /\ Idle /\ avail < n
  /\ buf' = IF buf.size < n THEN grow(buf, SourceGrowth(n)) ELSE buf
  /\ want' = n /\ to_read' = ReadSize(n, buf') /\ written' = 0
  /\ given' = 0
  /\ UNCHANGED <<avail, tr, got, taken, made>>

\* The storage has no memory to grow
NextThrows(n) ==
  /\ Idle /\ avail < n
  /\ buf.size < n /\ NeedsMemory(buf, SourceGrowth(n))
  /\ buf' = grow_threw(buf, SourceGrowth(n))
  /\ given' = 0
  /\ UNCHANGED <<avail, want, to_read, written, tr, got, taken, made>>

\* What next() of the source behind may return: nothing only at its end
InParts ==
  IF taken = made THEN {<< >>}
  ELSE {[i \in 1..n |-> taken + i] : n \in 1..Smaller(Hint, made - taken)}

\* What prepare() of the consumer of read_buf returns
OutPart == Smaller(Hint, to_read - written)

\* b with bytes stored in read_buf behind those already written there
Stored(b, bytes) ==
  LET first == b.beg + avail + written IN
  [b EXCEPT !.store =
     [c \in Cells(b.len) |-> IF c - first \in Cells(Len(bytes))
                             THEN bytes[c - first + 1] ELSE b.store[c]]]

\* next() once the loop has written n bytes
Returned(n) ==
  avail' = avail + n /\ given' = Smaller(avail', want) /\ want' = None

\* One round of the loop
Round ==
  /\ Ok(buf) /\ want # None
  /\ \E in_part \in InParts : \E res \in Results(tr, Len(in_part), OutPart) :
       /\ buf' = Stored(buf, Written(tr, res, in_part))
       /\ tr' = Transformed(tr, res, in_part)
       /\ taken' = taken + res.bytes_read
       /\ written' = written + res.bytes_written
       /\ IF LastRound(res, res) THEN Returned(written')
          ELSE UNCHANGED <<avail, given, want>>
  /\ UNCHANGED <<to_read, got, made>>

\* consume(n) of bytes that next() has shown
Consume(n) ==
  /\ Idle /\ n <= given
  /\ buf' = consume(buf, n) /\ avail' = avail - n
  /\ got' = got + n /\ given' = 0
  /\ UNCHANGED <<want, to_read, written, tr, taken, made>>

Step ==
  \/ \E n \in 0..MaxWant : NextBuffered(n) \/ NextReads(n) \/ NextThrows(n)
                           \/ Consume(n)
  \/ Round

-----------------------------------------------------------------------------
(* Properties *)

\* What the user has consumed, what the buffer holds and what the transformer
\* keeps back are the bytes that left the source, each once and in order,
\* whatever the buffer does with its storage (transform_io.hpp:96-131).
NothingLost ==
  LET held == avail + (IF want = None THEN 0 ELSE written) IN
  /\ held <= buf.size
  /\ SubSeq(Window(buf), 1, held) \o tr.held = [i \in 1..(taken - got) |-> got + i]

\* next() gives less than was asked for only if the transformer is done, the
\* source behind has no more, or the buffer it may grow to is full
\* (transform_io.hpp:105-119).
ShortOnlyWhenStuck ==
  [][want # None /\ want' = None =>
       \/ given' = want
       \/ tr'.read = EndAt /\ tr'.held = << >>
       \/ taken' = made
       \/ avail' = buf'.size]_vars
=============================================================================
