-------------------------- MODULE IostreamIoProofs --------------------------
(***************************************************************************)
(* The theorems about IostreamIo, for every set of growing buffers, every  *)
(* bound and every stream behind the sink or the source.                   *)
(*                                                                         *)
(* One io buffer serves both sides, so the inductive invariant has a part  *)
(* for the buffer and its bounds, one that says which loop may run, and    *)
(* one for each side.  Each of these names the bytes by their positions:   *)
(* behind what has got out come those the buffer holds, of which the write *)
(* loop has offered some; behind what was taken from the source come those *)
(* the buffer holds, and those the read loop has put into its write area.  *)
(* A call changes the buffer as DynBufLemmas says, and its lemma here      *)
(* adds up the positions.                                                  *)
(***************************************************************************)
EXTENDS IostreamIo, DynBufLemmas, TLAPS

\* A stream's first k bytes, and the n bytes behind them
Positions(k) == [i \in 1..k |-> i]
PositionsFrom(k, n) == [i \in 1..n |-> k + i]

\* The two sides compute with the same operators.
LEMMA SinkOps ==
  ASSUME NEW i, NEW n, NEW k, NEW b
  PROVE  /\ Sink!io_prepare(i, n) = io_prepare(i, n)
         /\ Sink!PrepareGrowth(i, n) = PrepareGrowth(i, n)
         /\ Sink!PreparedSize(i, n) = PreparedSize(i, n)
         /\ Sink!Filled(i, i.rd, n, k) = Filled(i, i.rd, n, k)
         /\ Sink!io_commit(i, n) = io_commit(i, n)
         /\ Sink!io_consume(i, n) = io_consume(i, n)
         /\ Sink!io_clear(i) = io_clear(i)
         /\ Sink!ReadArea(i) = ReadArea(i)
         /\ Sink!Ok(b) <=> Ok(b)
<1>1. Sink!PrepareGrowth(i, n) = PrepareGrowth(i, n)
  BY DEF Sink!PrepareGrowth, PrepareGrowth, Sink!WriteArea, WriteArea,
         Sink!dynbuf_safe_grow_size, dynbuf_safe_grow_size, Sink!Smaller, Smaller,
         Sink!max_size, max_size, Sink!Fixed, Fixed
<1> USE DEF Sink!WriteArea, WriteArea, Sink!Rejected, Rejected, Sink!Asserted, Asserted,
            Sink!Ok, Ok, Sink!Shifts, Shifts, Sink!Fixed, Fixed,
            Sink!WithStorage, WithStorage, Sink!WithWindow, WithWindow,
            Sink!Resized, Resized, Sink!Cells, Cells,
            Sink!CopiedDown, CopiedDown, Sink!Moved, Moved,
            Sink!Narrowed, Narrowed, Sink!Truncated, Truncated, Sink!Rejects, Rejects
<1>2. Sink!PreparedSize(i, n) = PreparedSize(i, n)
  BY DEF Sink!PreparedSize, PreparedSize, Sink!Smaller, Smaller
<1>3. Sink!Filled(i, i.rd, n, k) = Filled(i, i.rd, n, k)
  BY DEF Sink!Filled, Filled
<1>4. Sink!io_commit(i, n) = io_commit(i, n)
  BY DEF Sink!io_commit, io_commit
<1>5. Sink!io_consume(i, n) = io_consume(i, n)
  BY DEF Sink!io_consume, io_consume, Sink!consume, consume
<1>6. Sink!io_clear(i) = io_clear(i)
  BY DEF Sink!io_clear, io_clear, Sink!dynbuf_clear, dynbuf_clear, Sink!shrink, shrink
<1>7. Sink!ReadArea(i) = ReadArea(i)
  BY DEF Sink!ReadArea, ReadArea
<1>8. Sink!Ok(b) <=> Ok(b)
  OBVIOUS
<1>9. \A c, m : Sink!Extended(c, m) = Extended(c, m)
  BY DEF Sink!Extended, Extended
<1>10. \A c, m : Sink!StorageGrown(c, m) = StorageGrown(c, m)
  BY DEF Sink!StorageGrown, StorageGrown, Sink!max_size, max_size
<1>11. \A c, m : Sink!GrowthSize(c, m) = GrowthSize(c, m)
  BY DEF Sink!GrowthSize, GrowthSize, Sink!Larger, Larger, Sink!TailRoom, TailRoom
<1>12. \A c, m : Sink!GrownInStorage(c, m) = GrownInStorage(c, m)
  BY <1>9, <1>10, <1>11 DEF Sink!GrownInStorage, GrownInStorage, Sink!TailRoom, TailRoom
<1>13. \A c, m : Sink!grow(c, m) = grow(c, m)
  BY <1>9, <1>10, <1>12
     DEF Sink!grow, grow, Sink!Compacted, Compacted, Sink!TailRoom, TailRoom
<1>14. Sink!io_prepare(i, n) = io_prepare(i, n)
  BY <1>1, <1>13 DEF Sink!io_prepare, io_prepare
<1> QED BY <1>1, <1>2, <1>3, <1>4, <1>5, <1>6, <1>7, <1>8, <1>14

\* And so does the source.
LEMMA SourceOps ==
  ASSUME NEW i, NEW n, NEW k, NEW b
  PROVE  /\ Source!io_prepare(i, n) = io_prepare(i, n)
         /\ Source!PrepareGrowth(i, n) = PrepareGrowth(i, n)
         /\ Source!PreparedSize(i, n) = PreparedSize(i, n)
         /\ Source!Filled(i, b, n, k) = Filled(i, b, n, k)
         /\ Source!io_commit(i, n) = io_commit(i, n)
         /\ Source!io_consume(i, n) = io_consume(i, n)
         /\ Source!io_clear(i) = io_clear(i)
         /\ Source!NextSize(i, n) = NextSize(i, n)
         /\ Source!Ok(b) <=> Ok(b)
         /\ Source!grow_threw(b, n) = grow_threw(b, n)
<1>1. Source!PrepareGrowth(i, n) = PrepareGrowth(i, n)
  BY DEF Source!PrepareGrowth, PrepareGrowth, Source!WriteArea, WriteArea,
         Source!dynbuf_safe_grow_size, dynbuf_safe_grow_size, Source!Smaller, Smaller,
         Source!max_size, max_size, Source!Fixed, Fixed
<1> USE DEF Source!WriteArea, WriteArea, Source!Rejected, Rejected, Source!Asserted, Asserted,
            Source!Ok, Ok, Source!Shifts, Shifts, Source!Fixed, Fixed,
            Source!WithStorage, WithStorage, Source!WithWindow, WithWindow,
            Source!Resized, Resized, Source!Cells, Cells,
            Source!CopiedDown, CopiedDown, Source!Moved, Moved,
            Source!Narrowed, Narrowed, Source!Truncated, Truncated, Source!Rejects, Rejects
<1>2. Source!PreparedSize(i, n) = PreparedSize(i, n)
  BY DEF Source!PreparedSize, PreparedSize, Source!Smaller, Smaller
<1>3. Source!Filled(i, b, n, k) = Filled(i, b, n, k)
  BY DEF Source!Filled, Filled
<1>4. Source!io_commit(i, n) = io_commit(i, n)
  BY DEF Source!io_commit, io_commit
<1>5. Source!io_consume(i, n) = io_consume(i, n)
  BY DEF Source!io_consume, io_consume, Source!consume, consume
<1>6. Source!io_clear(i) = io_clear(i)
  BY DEF Source!io_clear, io_clear, Source!dynbuf_clear, dynbuf_clear, Source!shrink, shrink
<1>7. Source!NextSize(i, n) = NextSize(i, n)
  BY DEF Source!NextSize, NextSize, Source!Smaller, Smaller
<1>8. Source!Ok(b) <=> Ok(b)
  OBVIOUS
<1>9. \A c, m : Source!Extended(c, m) = Extended(c, m)
  BY DEF Source!Extended, Extended
<1>10. \A c, m : Source!StorageGrown(c, m) = StorageGrown(c, m)
  BY DEF Source!StorageGrown, StorageGrown, Source!max_size, max_size
<1>11. \A c, m : Source!GrowthSize(c, m) = GrowthSize(c, m)
  BY DEF Source!GrowthSize, GrowthSize, Source!Larger, Larger, Source!TailRoom, TailRoom
<1>12. \A c, m : Source!GrownInStorage(c, m) = GrownInStorage(c, m)
  BY <1>9, <1>10, <1>11 DEF Source!GrownInStorage, GrownInStorage, Source!TailRoom, TailRoom
<1>13. \A c, m : Source!grow(c, m) = grow(c, m)
  BY <1>9, <1>10, <1>12
     DEF Source!grow, grow, Source!Compacted, Compacted, Source!TailRoom, TailRoom
<1>14. Source!io_prepare(i, n) = io_prepare(i, n)
  BY <1>1, <1>13 DEF Source!io_prepare, io_prepare
<1>15. Source!grow_threw(b, n) = grow_threw(b, n)
  BY DEF Source!grow_threw, grow_threw, Source!Compacted, Compacted,
         Source!TailRoom, TailRoom
<1> QED BY <1>1, <1>2, <1>3, <1>4, <1>5, <1>6, <1>7, <1>8, <1>14, <1>15

\* So many whole chars fit in n bytes.
LEMMA CharFacts ==
  ASSUME NEW n \in Nat
  PROVE  /\ n \div CharSize \in Nat
         /\ n >= CharSize => n \div CharSize > 0
         /\ \A k \in 0..(n \div CharSize) :
              k * CharSize \in Nat /\ k * CharSize <= n /\ (k = 0 <=> k * CharSize = 0)
<1> DEFINE q == n \div CharSize
<1>1. CharSize \in Nat /\ CharSize > 0
  BY IoStreamAssumption
<1>2. q \in Nat /\ q * CharSize <= n /\ n < (q + 1) * CharSize
  BY <1>1
<1> HIDE DEF q
<1>3. n >= CharSize => q > 0
  BY <1>1, <1>2
<1>4. ASSUME NEW k \in 0..q
      PROVE  k * CharSize \in Nat /\ k * CharSize <= n /\ (k = 0 <=> k * CharSize = 0)
  <2>1. k \in Nat /\ k * CharSize <= q * CharSize
    BY <1>1, <1>2
  <2>2. k * CharSize \in Nat /\ (k > 0 => k * CharSize > 0)
    BY <1>1, <2>1
  <2> QED BY <1>1, <1>2, <2>1, <2>2
<1> QED BY <1>2, <1>3, <1>4 DEF q

\* The stream goes on with the bytes behind its first k.
LEMMA JoinPositions ==
  ASSUME NEW k \in Nat, NEW n \in Nat
  PROVE  Positions(k) \o PositionsFrom(k, n) = Positions(k + n)
BY DEF Positions, PositionsFrom

\* A part of a read area that holds the stream
LEMMA PartOfReadArea ==
  ASSUME NEW i, GoodIo(i), NEW t \in Nat, Holds(i, i.rd, t),
         NEW a \in Nat, NEW n \in Nat, a + n <= i.rd
  PROVE  SubSeq(ReadArea(i), a + 1, a + n) = PositionsFrom(t + a, n)
<1>1. ReadArea(i) = [k \in 1..i.rd |-> t + k] /\ i.rd \in Nat
  <2>1. i.rd \in Nat /\ 0 \in Nat /\ i.rd + 0 = i.rd
    BY IoTypes
  <2> QED BY <2>1, QueueOf
<1> DEFINE r == i.rd
           s == [k \in 1..r |-> t + k]
<1> HIDE DEF r
<1>2. SubSeq(s, a + 1, a + n) = [k \in 1..n |-> t + a + k]
  BY <1>1 DEF r
<1> QED BY <1>1, <1>2 DEF r, PositionsFrom

-----------------------------------------------------------------------------
(* The inductive invariant *)

\* Shifting buffers have a quantum of headroom over the largest window
Headroom == (\E kind \in Kinds : kind[1] = "shifting") => MaxWindow + Quantum <= MaxSize

\* The buffer, its bounds, and the assertions
BufferInv ==
  /\ GoodIo(io) /\ Consumable(io.buf) /\ io.buf.size <= MaxWindow
  /\ ~Fixed(io.buf) /\ io.buf.max = MaxSize
  /\ Headroom => RoomFor(io.buf, MaxWindow) /\ Ok(io.buf)

\* The loops: which of them may run, and with what
LoopInv ==
  /\ dir \in {"out", "in"}
  /\ sending \in Nat \cup {-1} /\ written \in Nat
  /\ receiving \in Nat \cup {-1} /\ nread \in Nat
  /\ sending = -1 => written = 0
  /\ receiving = -1 => nread = 0
  /\ sending # -1 => dir = "out" /\ Ok(io.buf)
  /\ receiving # -1 => dir = "in"

\* What the output stream has got, in front of what the buffer holds.  The
\* write loop has written bytes of those, and offers the rest.
SinkInv ==
  dir = "out" =>
    /\ prepared \in Nat /\ prepared <= WriteArea(io)
    /\ made \in Nat /\ made <= StreamLen /\ io.rd <= made
    /\ written <= io.rd
    /\ sending # -1 => written + sending = io.rd
    /\ out = Positions(made - io.rd + written)
    /\ Holds(io, io.rd, made - io.rd)

\* What has left the input stream.  The read loop has an empty buffer, in the
\* write area of which it has room for what is still asked for; before it has
\* read anything, that is a char or more of it.
SourceInv ==
  dir = "in" =>
    /\ got \in Nat /\ got <= StreamLen /\ taken \in Nat /\ asked \in Nat
    /\ given \in Nat \cup {-1} /\ given <= io.rd
    /\ taken + io.rd + nread = got
    /\ Holds(io, io.rd + nread, taken)
    /\ receiving # -1 =>
         /\ io.rd = 0
         /\ nread + receiving <= WriteArea(io) /\ nread + receiving <= asked
         /\ Headroom /\ nread = 0 /\ asked >= CharSize => receiving >= CharSize

IInv == BufferInv /\ LoopInv /\ SinkInv /\ SourceInv

\* The bounds are numbers.
LEMMA BoundTypes ==
  /\ MaxSize \in Nat /\ MaxWindow \in Nat /\ MaxWindow <= MaxSize
  /\ CharSize \in Nat /\ CharSize > 0 /\ CharSize <= MaxWindow
  /\ MaxAlloc \in Nat /\ CharSize <= MaxAlloc
  /\ StreamLen \in Nat /\ Quantum \in Nat
BY IoBoundsAssumption, IoStreamAssumption, IoRoomAssumption,
   MaxAllocAssumption, QuantumAssumption

\* Positions of the stream are bytes.
LEMMA StreamBytes ==
  ASSUME NEW k \in Nat, NEW n \in Nat, k + n <= StreamLen
  PROVE  AreBytes(k, n)
<1> SUFFICES ASSUME NEW m \in 1..n PROVE k + m \in Byte
  BY DEF AreBytes
<1>1. k + m \in 1..StreamLen
  BY BoundTypes
<1> QED BY <1>1, IoStreamAssumption

\* Nothing holds any stream.
LEMMA HoldsNothing == \A i, k : Holds(i, 0, k)
BY DEF Holds, Cells

\* The numbers of the buffer.
LEMMA StateFacts ==
  ASSUME BufferInv
  PROVE  /\ GoodIo(io) /\ Consumable(io.buf) /\ io.buf.size <= MaxWindow
         /\ io.buf.beg \in Nat /\ io.buf.size \in Nat /\ io.buf.len \in Nat
         /\ io.rd \in Nat /\ io.rd <= io.buf.size
         /\ WriteArea(io) \in Nat /\ WriteArea(io) + io.rd = io.buf.size
         /\ max_size(io.buf) = MaxSize /\ max_size(io.buf) \in Nat
BY IoTypes DEF BufferInv, max_size

\* A call that leaves a good dynbuf_io of the same class in its bounds.
LEMMA BufferStep ==
  ASSUME BufferInv, GoodIo(io'), SameKind(io.buf, io'.buf),
         io'.buf.size <= MaxWindow, Headroom => Ok(io'.buf)
  PROVE  BufferInv'
BY DEF BufferInv, SameKind, Consumable, RoomFor, Fixed, Shifts

\* Every execution starts with an empty buffer and nothing done.
LEMMA InitIInv == Init => IInv
<1> SUFFICES ASSUME Init PROVE IInv
  OBVIOUS
<1>1. PICK kind \in Kinds :
        io = [buf |-> Sink!Constructed(kind[1], kind[2], MaxSize, << >>, 0, 0), rd |-> 0]
  BY DEF Init, Sink!Init
<1> DEFINE b == Constructed(kind[1], kind[2], MaxSize, << >>, 0, 0)
<1>2. kind[1] \in {"bare", "shifting"} /\ kind[2] = "container"
  BY IoContainersAssumption
<1>3. /\ b.kind = kind[1] /\ b.storage = kind[2] /\ b.max = MaxSize
      /\ b.len = 0 /\ b.beg = 0 /\ b.size = 0 /\ b.status = "running"
  BY DEF Constructed
<1>4. b \in Buffers(0)
  <2>1. << >> \in [Cells(0) -> Byte]
    BY DEF Cells
  <2> DEFINE empty == << >>
  <2>2. b = Constructed(kind[1], kind[2], MaxSize, empty, 0, 0)
    OBVIOUS
  <2> HIDE DEF empty, b
  <2>3. empty \in [Cells(0) -> Byte]
    BY <2>1 DEF empty
  <2> QED BY <1>2, <2>2, <2>3, BoundTypes DEF Constructed, Buffers
<1>5. io = [buf |-> b, rd |-> 0]
  BY <1>1 DEF Sink!Constructed, Constructed
<1> HIDE DEF b
<1>6. Good(b)
  BY <1>2, <1>3, <1>4, BoundTypes DEF Good, IsBuffer, max_size, Shifts, Fixed
<1>7. GoodIo(io) /\ io.buf = b /\ io.rd = 0
  <2>1. b \in Buffers(b.len)
    BY <1>3, <1>4
  <2>2. io \in [buf : Buffers(b.len), rd : Nat] /\ io.buf = b /\ io.rd = 0
    BY <1>5, <2>1
  <2> QED BY <1>3, <1>6, <2>2 DEF GoodIo
<1>8. BufferInv
  <2>1. Consumable(b) /\ ~Fixed(b) /\ Ok(b)
    BY <1>2, <1>3 DEF Consumable, Fixed, Ok
  <2>2. Headroom => RoomFor(b, MaxWindow)
    BY <1>3 DEF Headroom, RoomFor, Shifts
  <2> QED BY <1>3, <1>7, <2>1, <2>2, BoundTypes DEF BufferInv
<1>9. /\ dir \in {"out", "in"} /\ sending = -1 /\ written = 0 /\ receiving = -1
      /\ nread = 0 /\ prepared = 0 /\ made = 0 /\ out = << >>
      /\ asked = 0 /\ given = -1 /\ got = 0 /\ taken = 0
  BY DEF Init, Sink!Init, Source!Init, Sink!None, Source!None
<1>10. LoopInv
  BY <1>9 DEF LoopInv
<1>11. WriteArea(io) \in Nat
  BY <1>8, StateFacts
<1>12. SinkInv
  <2>1. Positions(0) = << >>
    BY DEF Positions
  <2> QED BY <1>7, <1>9, <1>11, <2>1, BoundTypes, HoldsNothing DEF SinkInv
<1>13. SourceInv
  BY <1>7, <1>9, BoundTypes, HoldsNothing DEF SourceInv
<1> QED BY <1>8, <1>10, <1>12, <1>13 DEF IInv

-----------------------------------------------------------------------------
(* What both sides do to the buffer *)

\* prepare() within the largest window
LEMMA PrepareStep ==
  ASSUME BufferInv, Ok(io.buf), NEW n \in Nat, io' = io_prepare(io, n),
         io.buf.size + PrepareGrowth(io, n) <= MaxWindow
  PROVE  /\ BufferInv' /\ io'.rd = io.rd
         /\ \A t \in Nat : Holds(io, io.rd, t) => Holds(io', io.rd, t)
         /\ PreparedSize(io', n) \in Nat
         /\ PreparedSize(io', n) <= n /\ PreparedSize(io', n) <= WriteArea(io')
         /\ Headroom /\ io.rd = 0 /\ n >= CharSize => PreparedSize(io', n) >= CharSize
<1> DEFINE g == PrepareGrowth(io, n)
           p == PreparedSize(io', n)
<1>1. /\ GoodIo(io) /\ io.buf.size \in Nat /\ io.buf.max \in Nat /\ io.rd \in Nat
      /\ io.buf.size <= MaxWindow /\ io.rd <= io.buf.size /\ WriteArea(io) \in Nat
      /\ WriteArea(io) + io.rd = io.buf.size /\ max_size(io.buf) = MaxSize
  BY StateFacts, IoTypes
<1>2. /\ g \in Nat
      /\ n <= WriteArea(io) => g = 0
      /\ n > WriteArea(io) =>
           WriteArea(io) + g = Smaller(n, Smaller(max_size(io.buf) - io.rd,
                                                  WriteArea(io) + MaxAlloc))
  BY <1>1, GrowthFacts
<1>3. /\ GoodIo(io') /\ SameKind(io.buf, io'.buf) /\ io'.rd = io.rd
      /\ Keeps(io.buf, 0, io'.buf, io.buf.size)
      /\ io'.buf.size = IF Ok(io'.buf) THEN io.buf.size + g ELSE io.buf.size
      /\ RoomFor(io.buf, io.buf.size + g) => Ok(io'.buf)
  BY <1>1, PrepareFacts
<1>4. io.buf.size + g <= MaxWindow
  OBVIOUS
<1> HIDE DEF g
<1>5. Headroom => RoomFor(io.buf, io.buf.size + g)
  BY <1>1, <1>2, <1>4, BoundTypes DEF BufferInv, RoomFor
<1>6. BufferInv'
  <2>1. io'.buf.size <= MaxWindow /\ (Headroom => Ok(io'.buf))
    BY <1>1, <1>3, <1>4, <1>5
  <2> QED BY <1>3, <2>1, BufferStep
<1>7. ASSUME NEW t \in Nat, Holds(io, io.rd, t) PROVE Holds(io', io.rd, t)
  <2>1. 0 + io.rd = io.rd /\ t + 0 = t /\ 0 \in Nat
    BY <1>1
  <2>2. Holds(io, 0 + io.rd, t)
    BY <1>7, <2>1
  <2>3. Holds(io', io.rd, t + 0)
    BY <1>1, <1>3, <2>1, <2>2, HoldsKept
  <2> QED BY <2>1, <2>3
<1>8. WriteArea(io') \in Nat /\ p = Smaller(n, WriteArea(io'))
  BY <1>3, IoTypes DEF PreparedSize
<1>9. p \in Nat /\ p <= n /\ p <= WriteArea(io')
  BY <1>8 DEF Smaller
<1>10. Headroom /\ io.rd = 0 /\ n >= CharSize => p >= CharSize
  <2> SUFFICES ASSUME Headroom, io.rd = 0, n >= CharSize PROVE p >= CharSize
    OBVIOUS
  <2>1. WriteArea(io') = WriteArea(io) + g
    BY <1>1, <1>2, <1>3, <1>5 DEF WriteArea
  <2>2. WriteArea(io) + g >= CharSize
    BY <1>1, <1>2, BoundTypes DEF Smaller
  <2> QED BY <1>8, <2>1, <2>2, BoundTypes DEF Smaller
<1> QED BY <1>3, <1>6, <1>7, <1>9, <1>10

\* Bytes k + 1, k + 2, ... of the stream stored behind the first at bytes of
\* the window, which are those before them.
LEMMA StoreStep ==
  ASSUME BufferInv, NEW at \in Nat, NEW n \in Nat, NEW t \in Nat,
         at + n <= io.buf.size, t + at + n <= StreamLen, Holds(io, at, t),
         NEW j, j = Filled(io, at, n, t + at)
  PROVE  /\ GoodIo(j) /\ SameKind(io.buf, j.buf) /\ j.rd = io.rd
         /\ j.buf.size = io.buf.size /\ (Ok(j.buf) <=> Ok(io.buf))
         /\ WriteArea(j) = WriteArea(io)
         /\ Holds(j, at + n, t)
<1>1. GoodIo(io) /\ t + at \in Nat
  BY DEF BufferInv
<1>2. AreBytes(t + at, n)
  BY <1>1, StreamBytes
<1>3. Holds(j, at + n, t)
  BY <1>1, <1>2, FilledHolds
<1> DEFINE k == t + at
<1>4. j = Filled(io, at, n, k) /\ k \in Nat /\ AreBytes(k, n)
  BY <1>1, <1>2
<1> HIDE DEF k
<1>5. /\ GoodIo(j) /\ SameKind(io.buf, j.buf) /\ j.rd = io.rd
      /\ j.buf.size = io.buf.size /\ (Ok(j.buf) <=> Ok(io.buf))
  BY <1>1, <1>4, FilledFacts
<1> QED BY <1>3, <1>5 DEF WriteArea

\* commit() of bytes that are in the write area
LEMMA CommitStep ==
  ASSUME BufferInv, NEW j, GoodIo(j), SameKind(io.buf, j.buf),
         j.buf.size = io.buf.size, Ok(j.buf) <=> Ok(io.buf),
         NEW n \in Nat, n <= WriteArea(j), io' = io_commit(j, n)
  PROVE  /\ BufferInv' /\ io'.rd = j.rd + n /\ io'.buf = j.buf
         /\ WriteArea(io') = WriteArea(j) - n
         /\ (Ok(io'.buf) <=> Ok(io.buf))
         /\ \A m, t : Holds(j, m, t) => Holds(io', m, t)
<1>1. GoodIo(io') /\ io'.buf = j.buf /\ io'.rd = j.rd + n
  BY CommitFacts
<1>2. BufferInv'
  <2>1. io'.buf.size <= MaxWindow /\ (Headroom => Ok(io'.buf))
    BY <1>1 DEF BufferInv
  <2> QED BY <1>1, <2>1, BufferStep
<1>3. WriteArea(io') = WriteArea(j) - n
  BY <1>1, IoTypes DEF WriteArea
<1> QED BY <1>1, <1>2, <1>3 DEF Holds

\* consume() of bytes that can be read
LEMMA ConsumeStep ==
  ASSUME BufferInv, Ok(io.buf), NEW n \in Nat, n <= io.rd, io' = io_consume(io, n)
  PROVE  /\ BufferInv' /\ io'.rd = io.rd - n /\ Ok(io'.buf)
         /\ WriteArea(io') = WriteArea(io)
         /\ \A t \in Nat : Holds(io, io.rd, t) => Holds(io', io'.rd, t + n)
<1>1. /\ GoodIo(io) /\ Consumable(io.buf) /\ io.buf.size <= MaxWindow
      /\ io.buf.size \in Nat /\ io.rd \in Nat /\ io.rd <= io.buf.size
  BY StateFacts
<1>2. /\ GoodIo(io') /\ SameKind(io.buf, io'.buf) /\ io'.rd = io.rd - n
      /\ Keeps(io.buf, n, io'.buf, io.buf.size - n)
      /\ Ok(io'.buf) /\ io'.buf.size = io.buf.size - n
  BY <1>1, ConsumeIoFacts
<1>3. BufferInv'
  <2>1. io'.buf.size <= MaxWindow
    BY <1>1, <1>2, BoundTypes
  <2> QED BY <1>2, <2>1, BufferStep
<1>4. WriteArea(io') = WriteArea(io)
  BY <1>1, <1>2 DEF WriteArea
<1>5. ASSUME NEW t \in Nat, Holds(io, io.rd, t) PROVE Holds(io', io'.rd, t + n)
  <2> DEFINE m == io.buf.size - n
             r == io.rd - n
  <2>1. /\ m \in Nat /\ r \in Nat /\ r <= m /\ n + r = io.rd
        /\ Keeps(io.buf, n, io'.buf, m) /\ io'.rd = r
    BY <1>1, <1>2
  <2> HIDE DEF m, r
  <2>2. Holds(io, n + r, t)
    BY <1>5, <2>1
  <2> QED BY <1>1, <1>2, <2>1, <2>2, HoldsKept
<1> QED BY <1>2, <1>3, <1>4, <1>5

\* clear()
LEMMA ClearStep ==
  ASSUME BufferInv, Ok(io.buf), io' = io_clear(io)
  PROVE  BufferInv' /\ io'.rd = 0 /\ Ok(io'.buf) /\ WriteArea(io') = 0
<1>1. GoodIo(io) /\ Consumable(io.buf)
  BY StateFacts
<1>2. /\ GoodIo(io') /\ SameKind(io.buf, io'.buf)
      /\ Ok(io'.buf) /\ io'.rd = 0 /\ io'.buf.size = 0
  BY <1>1, ClearFacts
<1>3. BufferInv'
  BY <1>2, BufferStep, BoundTypes
<1> QED BY <1>2, <1>3 DEF WriteArea

-----------------------------------------------------------------------------
(* The output side *)

\* A step of the output side leaves the input side as it is.
LEMMA SinkSide ==
  ASSUME IInv, dir = "out", UNCHANGED <<dir, source_vars>>, BufferInv', SinkInv',
         sending' \in Nat \cup {-1}, written' \in Nat,
         sending' = -1 => written' = 0, sending' # -1 => Ok(io'.buf)
  PROVE  IInv'
BY DEF IInv, LoopInv, SourceInv, source_vars

\* What the output side knows between two calls
LEMMA SinkIdle ==
  ASSUME IInv, dir = "out", Sink!Idle
  PROVE  /\ BufferInv /\ Ok(io.buf) /\ sending = -1 /\ written = 0
         /\ prepared \in Nat /\ prepared <= WriteArea(io)
         /\ made \in Nat /\ made <= StreamLen /\ made - io.rd \in Nat
         /\ out = Positions(made - io.rd) /\ Holds(io, io.rd, made - io.rd)
<1>1. Ok(io.buf) /\ sending = -1
  BY SinkOps DEF Sink!Idle, Sink!None
<1>2. BufferInv /\ written = 0 /\ io.rd \in Nat
  BY <1>1, StateFacts DEF IInv, LoopInv
<1>3. /\ prepared \in Nat /\ prepared <= WriteArea(io)
      /\ made \in Nat /\ made <= StreamLen /\ io.rd <= made
      /\ out = Positions(made - io.rd + 0) /\ Holds(io, io.rd, made - io.rd)
  BY <1>2 DEF IInv, SinkInv
<1>4. made - io.rd \in Nat /\ made - io.rd + 0 = made - io.rd
  BY <1>2, <1>3
<1> QED BY <1>1, <1>2, <1>3, <1>4

\* prepare()
LEMMA SinkPrepare ==
  ASSUME IInv, dir = "out", UNCHANGED <<dir, source_vars>>,
         NEW n \in Nat, Sink!Prepare(n)
  PROVE  IInv'
<1>1. /\ io' = io_prepare(io, n) /\ io.buf.size + PrepareGrowth(io, n) <= MaxWindow
      /\ prepared' = PreparedSize(io', n)
      /\ sending' = sending /\ written' = written /\ made' = made /\ out' = out
      /\ Sink!Idle
  BY SinkOps DEF Sink!Prepare
<1>2. /\ BufferInv /\ Ok(io.buf) /\ sending = -1 /\ written = 0 /\ io.rd \in Nat
      /\ made \in Nat /\ made <= StreamLen /\ made - io.rd \in Nat /\ io.rd <= made
      /\ out = Positions(made - io.rd + written) /\ Holds(io, io.rd, made - io.rd)
  BY <1>1, SinkIdle, StateFacts
<1>3. /\ BufferInv' /\ io'.rd = io.rd /\ prepared' \in Nat /\ prepared' <= WriteArea(io')
      /\ Holds(io', io.rd, made - io.rd)
  BY <1>1, <1>2, PrepareStep
<1>4. SinkInv'
  BY <1>1, <1>2, <1>3 DEF SinkInv
<1> QED BY <1>1, <1>2, <1>3, <1>4, SinkSide

\* commit() up to the loop
LEMMA SinkCommit ==
  ASSUME IInv, dir = "out", UNCHANGED <<dir, source_vars>>,
         NEW n \in Nat, Sink!Commit(n)
  PROVE  IInv'
<1> DEFINE t == made - io.rd
           j == Filled(io, io.rd, n, t + io.rd)
<1>1. /\ Sink!Idle /\ n <= prepared /\ made + n <= StreamLen
      /\ io' = io_commit(Filled(io, io.rd, n, made), n)
      /\ made' = made + n /\ prepared' = 0
      /\ sending' = io'.rd /\ written' = 0 /\ out' = out
  BY SinkOps DEF Sink!Commit
<1>2. /\ BufferInv /\ Ok(io.buf) /\ prepared <= WriteArea(io) /\ prepared \in Nat
      /\ made \in Nat /\ t \in Nat /\ out = Positions(t) /\ Holds(io, io.rd, t)
      /\ io.rd \in Nat /\ WriteArea(io) \in Nat /\ WriteArea(io) + io.rd = io.buf.size
      /\ io.buf.size \in Nat
  BY <1>1, SinkIdle, StateFacts
<1>3. t + io.rd = made /\ io.rd + n <= io.buf.size /\ t + io.rd + n <= StreamLen
  BY <1>1, <1>2, BoundTypes
<1>4. io' = io_commit(j, n)
  BY <1>1, <1>3
<1> HIDE DEF t
<1>5. /\ GoodIo(j) /\ SameKind(io.buf, j.buf) /\ j.rd = io.rd
      /\ j.buf.size = io.buf.size /\ (Ok(j.buf) <=> Ok(io.buf))
      /\ WriteArea(j) = WriteArea(io) /\ Holds(j, io.rd + n, t)
  BY <1>2, <1>3, StoreStep
<1> HIDE DEF j
<1>6. /\ BufferInv' /\ io'.rd = io.rd + n /\ (Ok(io'.buf) <=> Ok(io.buf))
      /\ WriteArea(io') = WriteArea(io) - n /\ Holds(io', io.rd + n, t)
  <2>1. n <= WriteArea(j)
    BY <1>1, <1>2, <1>5
  <2> QED BY <1>2, <1>4, <1>5, <2>1, CommitStep
<1>7. /\ 0 <= WriteArea(io') /\ made' \in Nat /\ made' <= StreamLen
      /\ io'.rd <= made' /\ io'.rd \in Nat /\ made' - io'.rd = t
      /\ made' - io'.rd + written' = t /\ written' + sending' = io'.rd
      /\ written' <= io'.rd
  BY <1>1, <1>2, <1>3, <1>6
<1>8. SinkInv'
  BY <1>1, <1>2, <1>6, <1>7 DEF SinkInv
<1> QED BY <1>1, <1>2, <1>6, <1>7, <1>8, SinkSide

\* Whatever the stream buffer accepts follows what it has accepted before; what
\* it has not accepted when the loop ends is left at the front of the buffer.
LEMMA SinkSputn ==
  ASSUME IInv, dir = "out", UNCHANGED <<dir, source_vars>>,
         NEW k \in 0..(sending \div CharSize), Sink!Sputn(k)
  PROVE  IInv'
<1> DEFINE n == k * CharSize
           t == made - io.rd
           w == written + n
<1>1. /\ sending # -1
      /\ out' = out \o SubSeq(ReadArea(io), written + 1, written + n)
      /\ prepared' = prepared /\ made' = made
      /\ \/ io' = io_consume(io, w) /\ sending' = -1 /\ written' = 0
         \/ sending' = sending - n /\ written' = w /\ io' = io
  BY SinkOps DEF Sink!Sputn, Sink!None, Sink!AfterWriting
<1>2. BufferInv /\ GoodIo(io) /\ Ok(io.buf)
  BY <1>1 DEF IInv, LoopInv, BufferInv
<1>3. out = Positions(t + written) /\ Holds(io, io.rd, t)
  BY <1>1 DEF IInv, SinkInv
<1>4. /\ sending \in Nat /\ written \in Nat /\ io.rd \in Nat /\ WriteArea(io) \in Nat
      /\ prepared \in Nat /\ prepared <= WriteArea(io)
      /\ made \in Nat /\ made <= StreamLen /\ io.rd <= made
      /\ written + sending = io.rd
  BY <1>1, <1>2, StateFacts DEF IInv, LoopInv, SinkInv
<1>5. n \in Nat /\ n <= sending
  BY <1>4, CharFacts
<1> HIDE DEF n
<1>6. /\ t \in Nat /\ w \in Nat /\ w <= io.rd /\ t + written \in Nat
      /\ t + io.rd = made /\ t + written + n = t + w /\ written + n <= io.rd
  BY <1>4, <1>5
<1>7. out' = Positions(t + w)
  <2> HIDE DEF t, w
  <2>1. SubSeq(ReadArea(io), written + 1, written + n) = PositionsFrom(t + written, n)
    <3>1. /\ GoodIo(io) /\ t \in Nat /\ Holds(io, io.rd, t)
          /\ written \in Nat /\ n \in Nat /\ written + n <= io.rd
      BY <1>2, <1>3, <1>4, <1>5, <1>6
    <3> QED BY <3>1, PartOfReadArea
  <2>2. Positions(t + written) \o PositionsFrom(t + written, n)
          = Positions(t + written + n)
    BY <1>5, <1>6, JoinPositions
  <2> QED BY <1>1, <1>3, <1>6, <2>1, <2>2
<1>8. CASE io' = io_consume(io, w) /\ sending' = -1 /\ written' = 0
  <2>1. /\ BufferInv' /\ io'.rd = io.rd - w /\ Ok(io'.buf)
        /\ WriteArea(io') = WriteArea(io) /\ Holds(io', io'.rd, t + w)
    <3> HIDE DEF t, w
    <3> QED BY <1>2, <1>3, <1>6, <1>8, ConsumeStep
  <2>2. io'.rd = io.rd - w /\ made' = made /\ written' = 0
    BY <1>1, <1>8, <2>1
  <2>3. /\ made' - io'.rd = t + w /\ made' - io'.rd + written' = t + w
        /\ io'.rd \in Nat /\ io'.rd <= made'
    BY <1>4, <1>5, <1>6, <2>2
  <2>4. SinkInv'
    <3> HIDE DEF t, w
    <3>1. out' = Positions(made' - io'.rd + written') /\ Holds(io', io'.rd, made' - io'.rd)
      BY <1>7, <2>1, <2>3
    <3>2. /\ prepared' \in Nat /\ prepared' <= WriteArea(io')
          /\ made' \in Nat /\ made' <= StreamLen /\ io'.rd <= made'
          /\ written' <= io'.rd /\ sending' = -1
      BY <1>1, <1>4, <1>8, <2>1, <2>3
    <3> QED BY <3>1, <3>2 DEF SinkInv
  <2> QED BY <1>8, <2>1, <2>4, SinkSide
<1>9. CASE sending' = sending - n /\ written' = w /\ io' = io
  <2>1. BufferInv'
    BY <1>2, <1>9 DEF BufferInv, GoodIo
  <2>2. /\ sending' \in Nat /\ written' + sending' = io.rd /\ written' <= io.rd
        /\ made - io.rd + written' = t + w /\ written' \in Nat /\ sending' # -1
    BY <1>4, <1>5, <1>6, <1>9
  <2>3. SinkInv'
    <3>1. Holds(io', io'.rd, made' - io'.rd) /\ WriteArea(io') = WriteArea(io)
      BY <1>1, <1>3, <1>9
    <3>2. out' = Positions(made' - io'.rd + written')
      BY <1>1, <1>7, <1>9, <2>2
    <3>3. /\ prepared' \in Nat /\ prepared' <= WriteArea(io')
          /\ made' \in Nat /\ made' <= StreamLen /\ io'.rd <= made'
          /\ written' <= io'.rd /\ written' + sending' = io'.rd
      BY <1>1, <1>4, <1>9, <2>2, <3>1
    <3> QED BY <3>1, <3>2, <3>3 DEF SinkInv
  <2> QED BY <1>2, <1>9, <2>1, <2>2, <2>3, SinkSide
<1> QED BY <1>1, <1>8, <1>9

\* clear() of the sink
LEMMA SinkClear ==
  ASSUME IInv, dir = "out", UNCHANGED <<dir, source_vars>>, Sink!ClearBuffer
  PROVE  IInv'
<1>1. /\ Sink!Idle /\ io' = io_clear(io) /\ made' = made - io.rd /\ prepared' = 0
      /\ sending' = sending /\ written' = written /\ out' = out
  BY SinkOps DEF Sink!ClearBuffer
<1>2. /\ BufferInv /\ Ok(io.buf) /\ sending = -1 /\ written = 0 /\ io.rd \in Nat
      /\ made \in Nat /\ made <= StreamLen /\ made - io.rd \in Nat
      /\ out = Positions(made - io.rd)
  BY <1>1, SinkIdle, StateFacts
<1>3. BufferInv' /\ io'.rd = 0 /\ WriteArea(io') = 0
  BY <1>1, <1>2, ClearStep
<1>4. /\ made' - io'.rd = made' /\ made' + written' = made' /\ made' \in Nat
      /\ made' <= StreamLen
  BY <1>1, <1>2, <1>3, BoundTypes
<1>5. SinkInv'
  BY <1>1, <1>2, <1>3, <1>4, HoldsNothing DEF SinkInv
<1> QED BY <1>1, <1>2, <1>3, <1>5, SinkSide

\* Every step of the sink
LEMMA OutputAction == IInv /\ Output => IInv'
<1> SUFFICES ASSUME IInv, Output PROVE IInv'
  OBVIOUS
<1>1. dir = "out" /\ UNCHANGED <<dir, source_vars>> /\ Sink!Step
  BY DEF Output
<1>2. CASE \E n \in 0..(MaxSize + 1) : Sink!Prepare(n)
  BY <1>1, <1>2, SinkPrepare
<1>3. CASE \E n \in 0..prepared : Sink!Commit(n)
  BY <1>1, <1>3, SinkCommit
<1>4. CASE Sink!WriteLoop
  BY <1>1, <1>4, SinkSputn DEF Sink!WriteLoop
<1>5. CASE Sink!ClearBuffer
  BY <1>1, <1>5, SinkClear
<1> QED BY <1>1, <1>2, <1>3, <1>4, <1>5 DEF Sink!Step

-----------------------------------------------------------------------------
(* The input side *)

\* A step of the input side leaves the output side as it is.
LEMMA SourceSide ==
  ASSUME IInv, dir = "in", UNCHANGED <<dir, sink_vars>>, BufferInv', SourceInv',
         receiving' \in Nat \cup {-1}, nread' \in Nat, receiving' = -1 => nread' = 0
  PROVE  IInv'
BY DEF IInv, LoopInv, SinkInv, sink_vars

\* What the input side knows between two calls
LEMMA SourceIdle ==
  ASSUME IInv, dir = "in", Source!Idle
  PROVE  /\ BufferInv /\ Ok(io.buf) /\ receiving = -1 /\ nread = 0 /\ io.rd \in Nat
         /\ got \in Nat /\ got <= StreamLen /\ taken \in Nat /\ asked \in Nat
         /\ given \in Nat \cup {-1} /\ given <= io.rd
         /\ taken + io.rd = got /\ Holds(io, io.rd, taken)
<1>1. Ok(io.buf) /\ receiving = -1
  BY SourceOps DEF Source!Idle, Source!None
<1>2. BufferInv /\ nread = 0 /\ io.rd \in Nat
  BY <1>1, StateFacts DEF IInv, LoopInv
<1>3. io.rd + nread = io.rd /\ taken + io.rd + 0 = got
  BY <1>2 DEF IInv, SourceInv
<1> QED BY <1>1, <1>2, <1>3 DEF IInv, SourceInv

\* A call between two calls of the read loop that keeps what the buffer holds
LEMMA SourceCall ==
  ASSUME IInv, dir = "in", UNCHANGED <<dir, sink_vars>>, BufferInv',
         receiving' = -1, nread' = 0, got' = got, got \in Nat, got <= StreamLen,
         asked' \in Nat, given' \in Nat \cup {-1}, given' <= io'.rd,
         taken' \in Nat, taken' + io'.rd = got, Holds(io', io'.rd, taken')
  PROVE  IInv'
<1>1. io'.rd \in Nat
  BY IoTypes DEF BufferInv
<1>2. io'.rd + nread' = io'.rd /\ taken' + io'.rd + nread' = got'
  BY <1>1
<1>3. SourceInv'
  BY <1>2 DEF SourceInv
<1> QED BY <1>3, SourceSide

\* next() that has enough
LEMMA SourceNextBuffered ==
  ASSUME IInv, dir = "in", UNCHANGED <<dir, sink_vars>>,
         NEW want \in Nat, Source!NextBuffered(want)
  PROVE  IInv'
<1>1. /\ Source!Idle /\ asked' = want /\ given' = NextSize(io, want)
      /\ io' = io /\ receiving' = receiving /\ nread' = nread
      /\ got' = got /\ taken' = taken
  BY SourceOps DEF Source!NextBuffered
<1>2. /\ BufferInv /\ receiving = -1 /\ nread = 0 /\ io.rd \in Nat
      /\ got \in Nat /\ got <= StreamLen /\ taken \in Nat
      /\ taken + io.rd = got /\ Holds(io, io.rd, taken)
  BY <1>1, SourceIdle
<1>3. BufferInv'
  BY <1>1, <1>2 DEF BufferInv, GoodIo
<1>4. given' \in Nat /\ given' <= io.rd
  BY <1>1, <1>2 DEF NextSize, Smaller
<1> QED BY <1>1, <1>2, <1>3, <1>4, SourceCall

\* next() up to the loop
LEMMA SourceNextReads ==
  ASSUME IInv, dir = "in", UNCHANGED <<dir, sink_vars>>,
         NEW want \in Nat, Source!NextReads(want)
  PROVE  IInv'
<1> DEFINE p == PreparedSize(io', want)
<1>1. /\ Source!Idle /\ io.rd = 0
      /\ io.buf.size + PrepareGrowth(io, want) <= MaxWindow
      /\ io' = io_prepare(io, want) /\ asked' = want /\ given' = -1
      /\ receiving' = p /\ nread' = 0 /\ got' = got /\ taken' = taken
  BY SourceOps DEF Source!NextReads, Source!None
<1>2. /\ BufferInv /\ Ok(io.buf) /\ got \in Nat /\ got <= StreamLen /\ taken \in Nat
      /\ taken + io.rd = got
  BY <1>1, SourceIdle
<1>3. /\ BufferInv' /\ io'.rd = io.rd /\ p \in Nat /\ p <= want /\ p <= WriteArea(io')
      /\ Headroom /\ io.rd = 0 /\ want >= CharSize => p >= CharSize
  BY <1>1, <1>2, PrepareStep
<1> HIDE DEF p
<1>4. /\ io'.rd = 0 /\ nread' + receiving' = p /\ io'.rd + nread' = 0
      /\ taken' + io'.rd + nread' = got' /\ given' <= io'.rd
  BY <1>1, <1>2, <1>3
<1>5. SourceInv'
  BY <1>1, <1>2, <1>3, <1>4, HoldsNothing DEF SourceInv
<1> QED BY <1>1, <1>3, <1>5, SourceSide

\* next() without the memory to read
LEMMA SourceNextThrows ==
  ASSUME IInv, dir = "in", UNCHANGED <<dir, sink_vars>>,
         NEW want \in Nat, Source!NextThrows(want)
  PROVE  IInv'
<1> DEFINE g == PrepareGrowth(io, want)
<1>1. /\ Source!Idle /\ io.rd = 0
      /\ io' = [io EXCEPT !.buf = grow_threw(io.buf, g)]
      /\ asked' = want /\ given' = -1
      /\ receiving' = receiving /\ nread' = nread /\ got' = got /\ taken' = taken
  BY SourceOps DEF Source!NextThrows, Source!None
<1>2. /\ BufferInv /\ Ok(io.buf) /\ receiving = -1 /\ nread = 0
      /\ got \in Nat /\ got <= StreamLen /\ taken \in Nat
      /\ taken + io.rd = got
  BY <1>1, SourceIdle
<1>3. GoodIo(io) /\ io.buf.size <= MaxWindow /\ g \in Nat
  BY <1>2, StateFacts, GrowthFacts
<1> HIDE DEF g
<1>4. /\ GoodIo(io') /\ SameKind(io.buf, io'.buf) /\ io'.rd = io.rd
      /\ Ok(io'.buf) /\ io'.buf.size = io.buf.size
  BY <1>1, <1>2, <1>3, PrepareThrewFacts
<1>5. BufferInv'
  BY <1>2, <1>3, <1>4, BufferStep
<1>6. Holds(io', io'.rd, taken') /\ taken' + io'.rd = got /\ given' <= io'.rd
  BY <1>1, <1>2, <1>4, HoldsNothing
<1> QED BY <1>1, <1>2, <1>5, <1>6, SourceCall

\* How many bytes a read() yields, and what it says of the stream
LEMMA ReadsFacts ==
  ASSUME NEW n \in Nat, got \in Nat, got <= StreamLen,
         NEW r \in Source!Reads(n \div CharSize)
  PROVE  /\ r[1] \in 0..(n \div CharSize)
         /\ r[1] * CharSize \in Nat
         /\ r[1] * CharSize <= n /\ got + r[1] * CharSize <= StreamLen
         /\ r[1] = 0 <=> r[1] * CharSize = 0
         /\ n >= CharSize /\ r[1] = 0 => r[2] # "good"
<1> DEFINE q == n \div CharSize
           rest == StreamLen - got
           left == rest \div CharSize
           k == r[1]
<1>1. rest \in Nat /\ got + rest = StreamLen
  BY BoundTypes
<1>2. /\ q \in Nat /\ (n >= CharSize => q > 0)
      /\ \A m \in 0..q : m * CharSize \in Nat /\ m * CharSize <= n
                         /\ (m = 0 <=> m * CharSize = 0)
  BY CharFacts
<1>3. left \in Nat /\ \A m \in 0..left : m * CharSize <= rest
  BY <1>1, CharFacts
<1>4. \/ rdstate # "good" /\ r = <<0, rdstate>>
      \/ r = <<Smaller(q, left), IF q <= left THEN "good" ELSE "eof">>
      \/ \E m \in Cells(Smaller(q, left)) : r = <<m, "bad">>
  BY DEF Source!Reads, Source!Smaller, Smaller, Source!Cells, Cells
<1> HIDE DEF q, left, rest
<1>5. /\ k \in 0..q /\ k \in 0..left
      /\ q > 0 /\ k = 0 => r[2] # "good"
  BY <1>2, <1>3, <1>4 DEF Smaller, Cells
<1> DEFINE b == k * CharSize
<1>6. b \in Nat /\ b <= n /\ b <= rest /\ (k = 0 <=> b = 0)
  BY <1>2, <1>3, <1>5
<1> HIDE DEF b
<1>7. got + b <= StreamLen
  BY <1>1, <1>6
<1> QED BY <1>2, <1>5, <1>6, <1>7 DEF b, q

\* A read() stores its bytes behind those of the reads before it; the last one
\* commits them all, which are no more than were asked for.
LEMMA SourceRead ==
  ASSUME IInv, dir = "in", UNCHANGED <<dir, sink_vars>>, Source!Read
  PROVE  /\ IInv'
         /\ Headroom /\ receiving' = -1 /\ given' = 0 /\ asked >= CharSize
              => rdstate' # "good"
<1>1. /\ receiving # -1 /\ Ok(io.buf) /\ asked' = asked /\ taken' = taken
  BY SourceOps DEF Source!Read, Source!None
<1>2. BufferInv /\ GoodIo(io)
  BY DEF IInv, BufferInv
<1>3. /\ receiving \in Nat /\ nread \in Nat /\ got \in Nat /\ got <= StreamLen
      /\ taken \in Nat /\ asked \in Nat /\ given \in Nat \cup {-1}
      /\ io.rd = 0 /\ taken + io.rd + nread = got
      /\ nread + receiving <= WriteArea(io) /\ nread + receiving <= asked
      /\ Headroom /\ nread = 0 /\ asked >= CharSize => receiving >= CharSize
  BY <1>1 DEF IInv, LoopInv, SourceInv
<1>4. Holds(io, io.rd + nread, taken)
  BY DEF IInv, SourceInv
<1>5. PICK r \in Source!Reads(receiving \div CharSize) :
        LET n == r[1] * CharSize
            i == Filled(io, io.rd + nread, n, got)
        IN /\ rdstate' = r[2] /\ got' = got + n
           /\ IF Source!LastRead(r[1])
              THEN Source!Returned(io_commit(i, nread + n))
              ELSE /\ io' = i /\ receiving' = receiving - n /\ nread' = nread + n
                   /\ given' = given
  BY SourceOps DEF Source!Read, Source!NRead
<1> DEFINE n == r[1] * CharSize
           j == Filled(io, nread, n, taken + nread)
<1>6. /\ n \in Nat /\ n <= receiving /\ got + n <= StreamLen /\ (r[1] = 0 <=> n = 0)
      /\ receiving >= CharSize /\ r[1] = 0 => r[2] # "good"
  BY <1>3, ReadsFacts
<1>7. /\ rdstate' = r[2] /\ got' = got + n
      /\ \/ Source!Returned(io_commit(j, nread + n))
         \/ /\ ~Source!LastRead(r[1])
            /\ io' = j /\ receiving' = receiving - n /\ nread' = nread + n
            /\ given' = given
  <2>1. io.rd + nread = nread /\ got = taken + nread
    BY <1>3
  <2> QED BY <1>5, <2>1
<1> HIDE DEF n
<1>8. /\ nread + n <= io.buf.size /\ taken + nread + n <= StreamLen
      /\ nread + n \in Nat /\ nread + n <= WriteArea(io) /\ nread + n <= asked
      /\ WriteArea(io) \in Nat /\ io.buf.size \in Nat
      /\ taken + (nread + n) = got + n
  BY <1>2, <1>3, <1>6, IoTypes
<1>9. Holds(io, nread, taken)
  <2>1. io.rd + nread = nread
    BY <1>3
  <2> QED BY <1>4, <2>1
<1>10. /\ GoodIo(j) /\ SameKind(io.buf, j.buf) /\ j.rd = 0
       /\ j.buf.size = io.buf.size /\ (Ok(j.buf) <=> Ok(io.buf))
       /\ WriteArea(j) = WriteArea(io) /\ Holds(j, nread + n, taken)
  BY <1>2, <1>3, <1>6, <1>8, <1>9, StoreStep
<1> HIDE DEF j
<1>11. CASE Source!Returned(io_commit(j, nread + n))
  <2> DEFINE c == io_commit(j, nread + n)
  <2>1. GoodIo(c) /\ c.rd = nread + n
    <3>1. nread + n <= WriteArea(j) /\ 0 + (nread + n) = nread + n
      BY <1>8, <1>10
    <3> QED BY <1>8, <1>10, <3>1, CommitFacts
  <2>2. /\ io' = c /\ given' = nread + n /\ receiving' = -1 /\ nread' = 0
    BY <1>8, <1>11, <2>1 DEF Source!Returned, Source!None
  <2> HIDE DEF c
  <2>3. /\ BufferInv' /\ io'.rd = nread + n /\ Holds(io', nread + n, taken)
    <3>1. io' = io_commit(j, nread + n) /\ nread + n <= WriteArea(j)
      BY <1>8, <1>10, <2>2 DEF c
    <3>2. BufferInv' /\ \A m, t : Holds(j, m, t) => Holds(io', m, t)
      BY <1>2, <1>8, <1>10, <3>1, CommitStep
    <3> QED BY <1>10, <2>1, <2>2, <3>2
  <2>4. SourceInv'
    <3>1. io'.rd + nread' = nread + n /\ taken' + io'.rd + nread' = got'
      BY <1>1, <1>3, <1>6, <1>7, <1>8, <2>2, <2>3
    <3>2. got' \in Nat /\ got' <= StreamLen
      BY <1>3, <1>6, <1>7
    <3> QED BY <1>1, <1>3, <1>8, <2>2, <2>3, <3>1, <3>2 DEF SourceInv
  <2>5. IInv'
    BY <2>2, <2>3, <2>4, SourceSide
  <2>6. Headroom /\ given' = 0 /\ asked >= CharSize => rdstate' # "good"
    <3>1. given' = 0 => nread = 0 /\ n = 0
      BY <1>3, <1>6, <2>2
    <3> QED BY <1>3, <1>6, <1>7, <3>1
  <2> QED BY <2>5, <2>6
<1>12. CASE /\ ~Source!LastRead(r[1])
            /\ io' = j /\ receiving' = receiving - n /\ nread' = nread + n
            /\ given' = given
  <2>1. r[1] # 0
    BY <1>12 DEF Source!LastRead
  <2>2. /\ receiving' \in Nat /\ nread' \in Nat /\ nread' > 0
        /\ nread' + receiving' = nread + receiving /\ receiving' # -1
    BY <1>3, <1>6, <1>12, <2>1
  <2>3. BufferInv'
    <3>1. io'.buf.size <= MaxWindow /\ (Headroom => Ok(io'.buf))
      BY <1>2, <1>10, <1>12 DEF BufferInv
    <3> QED BY <1>2, <1>10, <1>12, <3>1, BufferStep
  <2>4. SourceInv'
    <3>1. /\ io'.rd = 0 /\ io'.rd + nread' = nread + n
          /\ taken' + io'.rd + nread' = got' /\ got' \in Nat /\ got' <= StreamLen
      BY <1>1, <1>3, <1>6, <1>7, <1>8, <1>10, <1>12
    <3>2. Holds(io', io'.rd + nread', taken')
      BY <1>1, <1>10, <1>12, <3>1
    <3>3. given' \in Nat \cup {-1} /\ given' <= io'.rd
      BY <1>3, <1>12, <3>1 DEF IInv, SourceInv
    <3>4. nread' + receiving' <= WriteArea(io') /\ nread' + receiving' <= asked'
      BY <1>1, <1>3, <1>10, <1>12, <2>2
    <3>5. taken' \in Nat /\ asked' \in Nat /\ ~(nread' = 0)
      BY <1>1, <1>3, <2>2
    <3> QED BY <3>1, <3>2, <3>3, <3>4, <3>5 DEF SourceInv
  <2> QED BY <2>2, <2>3, <2>4, SourceSide
<1> QED BY <1>7, <1>11, <1>12

\* consume()
LEMMA SourceConsume ==
  ASSUME IInv, dir = "in", UNCHANGED <<dir, sink_vars>>,
         NEW n \in 0..given, Source!Consume(n)
  PROVE  IInv'
<1>1. /\ Source!Idle /\ given # -1 /\ io' = io_consume(io, n)
      /\ given' = -1 /\ taken' = taken + n /\ asked' = asked
      /\ receiving' = receiving /\ nread' = nread /\ got' = got
  BY SourceOps DEF Source!Consume, Source!None
<1>2. /\ BufferInv /\ Ok(io.buf) /\ receiving = -1 /\ nread = 0 /\ io.rd \in Nat
      /\ got \in Nat /\ got <= StreamLen /\ taken \in Nat /\ asked \in Nat
      /\ given \in Nat \cup {-1} /\ given <= io.rd
      /\ taken + io.rd = got /\ Holds(io, io.rd, taken)
  BY <1>1, SourceIdle
<1>3. n \in Nat /\ n <= io.rd
  BY <1>1, <1>2
<1>4. /\ BufferInv' /\ io'.rd = io.rd - n /\ Holds(io', io'.rd, taken + n)
  BY <1>1, <1>2, <1>3, ConsumeStep
<1>5. /\ taken' \in Nat /\ taken' + io'.rd = got /\ given' <= io'.rd
  BY <1>1, <1>2, <1>3, <1>4
<1> QED BY <1>1, <1>2, <1>4, <1>5, SourceCall

\* clear() of the source
LEMMA SourceClear ==
  ASSUME IInv, dir = "in", UNCHANGED <<dir, sink_vars>>, Source!ClearBuffer
  PROVE  IInv'
<1>1. /\ Source!Idle /\ io' = io_clear(io)
      /\ given' = -1 /\ taken' = taken + io.rd /\ asked' = asked
      /\ receiving' = receiving /\ nread' = nread /\ got' = got
  BY SourceOps DEF Source!ClearBuffer, Source!None
<1>2. /\ BufferInv /\ Ok(io.buf) /\ receiving = -1 /\ nread = 0 /\ io.rd \in Nat
      /\ got \in Nat /\ got <= StreamLen /\ taken \in Nat /\ asked \in Nat
      /\ taken + io.rd = got
  BY <1>1, SourceIdle
<1>3. BufferInv' /\ io'.rd = 0
  BY <1>1, <1>2, ClearStep
<1>4. /\ taken' \in Nat /\ taken' + io'.rd = got /\ given' <= io'.rd
      /\ Holds(io', io'.rd, taken')
  BY <1>1, <1>2, <1>3, HoldsNothing
<1> QED BY <1>1, <1>2, <1>3, <1>4, SourceCall

\* The user clears the state of the stream.
LEMMA SourceClearState ==
  ASSUME IInv, dir = "in", UNCHANGED <<dir, sink_vars>>, Source!ClearState
  PROVE  IInv'
<1>1. /\ Source!Idle /\ io' = io /\ given' = given /\ taken' = taken /\ asked' = asked
      /\ receiving' = receiving /\ nread' = nread /\ got' = got
  BY DEF Source!ClearState
<1>2. /\ BufferInv /\ receiving = -1 /\ nread = 0
      /\ got \in Nat /\ got <= StreamLen /\ taken \in Nat /\ asked \in Nat
      /\ given \in Nat \cup {-1} /\ given <= io.rd
      /\ taken + io.rd = got /\ Holds(io, io.rd, taken)
  BY <1>1, SourceIdle
<1>3. BufferInv'
  BY <1>1, <1>2 DEF BufferInv, GoodIo
<1> QED BY <1>1, <1>2, <1>3, SourceCall

\* Every step of the source
LEMMA InputAction == IInv /\ Input => IInv'
<1> SUFFICES ASSUME IInv, Input PROVE IInv'
  OBVIOUS
<1>1. dir = "in" /\ UNCHANGED <<dir, sink_vars>> /\ Source!Step
  BY DEF Input
<1>2. CASE \E want \in 0..(MaxSize + 1) : \/ Source!NextBuffered(want)
                                        \/ Source!NextReads(want)
                                        \/ Source!NextThrows(want)
  BY <1>1, <1>2, BoundTypes, SourceNextBuffered, SourceNextReads, SourceNextThrows
<1>3. CASE Source!Read
  BY <1>1, <1>3, SourceRead
<1>4. CASE \E n \in 0..given : Source!Consume(n)
  BY <1>1, <1>4, SourceConsume
<1>5. CASE Source!ClearBuffer
  BY <1>1, <1>5, SourceClear
<1>6. CASE Source!ClearState
  BY <1>1, <1>6, SourceClearState
<1> QED BY <1>1, <1>2, <1>3, <1>4, <1>5, <1>6 DEF Source!Step

\* The other side starts with a stream of its own and with nothing of the
\* first one's in the buffer.
LEMMA TurnAction == IInv /\ Turn => IInv'
<1> SUFFICES ASSUME IInv, Turn PROVE IInv'
  OBVIOUS
<1>1. /\ sending = -1 /\ receiving = -1 /\ io.rd = 0
      /\ dir' = IF dir = "out" THEN "in" ELSE "out"
      /\ prepared' = 0 /\ made' = 0 /\ out' = << >>
      /\ asked' = 0 /\ given' = -1 /\ got' = 0 /\ taken' = 0
      /\ io' = io /\ sending' = -1 /\ written' = written
      /\ receiving' = -1 /\ nread' = nread
  BY DEF Turn, Sink!Idle, Source!Idle, Sink!None, Source!None
<1>2. BufferInv' /\ WriteArea(io) \in Nat
  BY <1>1, StateFacts DEF IInv, BufferInv, GoodIo
<1>3. LoopInv' /\ written = 0 /\ nread = 0
  BY <1>1 DEF IInv, LoopInv
<1>4. SinkInv'
  <2>1. Positions(0) = << >> /\ WriteArea(io') = WriteArea(io)
    BY <1>1 DEF Positions
  <2> QED BY <1>1, <1>2, <1>3, <2>1, BoundTypes, HoldsNothing DEF SinkInv
<1>5. SourceInv'
  BY <1>1, <1>3, BoundTypes, HoldsNothing DEF SourceInv
<1> QED BY <1>2, <1>3, <1>4, <1>5 DEF IInv

\* A step that changes nothing keeps the invariant.
LEMMA StutterAction == IInv /\ UNCHANGED vars => IInv'
BY DEF vars, sink_vars, source_vars, IInv, BufferInv, LoopInv, SinkInv, SourceInv,
       GoodIo, WriteArea, Holds

-----------------------------------------------------------------------------
(* The theorems *)

\* The inductive invariant holds in every state of every execution.
THEOREM Invariance == Spec => []IInv
<1>1. Init => IInv
  BY InitIInv
<1>2. IInv /\ [Next]_vars => IInv'
  BY OutputAction, InputAction, TurnAction, StutterAction DEF Next
<1> QED BY <1>1, <1>2, PTL DEF Spec

\* However the stream cuts writes short, what it has accepted and what is still
\* held are the bytes committed, in order (iostream_io.hpp:64-72, 158-193).
THEOREM OutputLosesNothing == Spec => []SinkLosesNothing
<1>1. IInv => SinkLosesNothing
  <2> SUFFICES ASSUME IInv, dir = "out" PROVE Sink!NothingLost
    BY DEF SinkLosesNothing
  <2> DEFINE t == made - io.rd
             n == io.rd - written
  <2>1. /\ GoodIo(io) /\ io.rd \in Nat /\ written \in Nat /\ made \in Nat
        /\ written <= io.rd /\ io.rd <= made
    BY StateFacts DEF IInv, LoopInv, SinkInv
  <2>2. out = Positions(t + written) /\ Holds(io, io.rd, t)
    BY DEF IInv, SinkInv
  <2>3. /\ t \in Nat /\ n \in Nat /\ written + n = io.rd /\ t + written \in Nat
        /\ t + written + n = made
    BY <2>1
  <2> HIDE DEF t, n
  <2>4. SubSeq(ReadArea(io), written + 1, written + n) = PositionsFrom(t + written, n)
    <3>1. /\ GoodIo(io) /\ t \in Nat /\ Holds(io, io.rd, t)
          /\ written \in Nat /\ n \in Nat /\ written + n <= io.rd
      BY <2>1, <2>2, <2>3
    <3> QED BY <3>1, PartOfReadArea
  <2>5. out \o SubSeq(ReadArea(io), written + 1, io.rd) = Positions(made)
    BY <2>2, <2>3, <2>4, JoinPositions
  <2> QED BY <2>5, SinkOps DEF Sink!NothingLost, Positions
<1> QED BY <1>1, Invariance, PTL

\* However reads fall short, the buffer holds exactly what has left the stream
\* and has not reached the user (iostream_io.hpp:74-108, 121-152).
THEOREM InputLosesNothing == Spec => []SourceLosesNothing
<1>1. IInv => SourceLosesNothing
  <2> SUFFICES ASSUME IInv, dir = "in" PROVE Source!NothingLost
    BY DEF SourceLosesNothing
  <2>1. taken + io.rd + nread = got /\ Holds(io, io.rd + nread, taken)
    BY DEF IInv, SourceInv
  <2> QED BY <2>1 DEF Source!NothingLost, Holds, Source!Cells, Cells
<1> QED BY <1>1, Invariance, PTL

\* Where shifting buffers have a quantum of headroom no assertion fires, that
\* of next() about what it has read included (iostream_io.hpp:92-97).
THEOREM NeverAsserts == ASSUME Headroom PROVE Spec => []NoAssertionFires
<1>1. IInv => NoAssertionFires
  BY DEF IInv, BufferInv, NoAssertionFires
<1> QED BY <1>1, Invariance, PTL

\* With that headroom a next() for at least a char that read nothing has met
\* the end of the stream or an error (iostream_io.hpp:83-101, 121-152).
THEOREM EmptyMeansEnd == ASSUME Headroom PROVE Spec => EmptyOnlyAtEnd
<1> DEFINE A == receiving # -1 /\ receiving' = -1 /\ given' = 0 /\ asked >= CharSize
                  => rdstate' # "good"
           v == <<io, asked, given, receiving, nread, rdstate, got, taken>>
<1>1. IInv /\ [Next]_vars => [A]_v
  <2> SUFFICES ASSUME IInv, [Next]_vars, receiving # -1, receiving' = -1,
                      given' = 0, asked >= CharSize
               PROVE  rdstate' # "good"
    OBVIOUS
  <2>1. Input
    BY DEF Next, Output, Turn, Source!Idle, Source!None, vars, source_vars
  <2>2. dir = "in" /\ UNCHANGED <<dir, sink_vars>> /\ Source!Step
    BY <2>1 DEF Input
  <2>3. Source!Read
    BY <2>2 DEF Source!Step, Source!NextBuffered, Source!NextReads,
                Source!NextThrows, Source!Consume,
                Source!ClearBuffer, Source!ClearState, Source!Idle, Source!None
  <2> QED BY <2>2, <2>3, SourceRead
<1>2. EmptyOnlyAtEnd <=> [][A]_v
  BY DEF EmptyOnlyAtEnd, Source!EmptyOnlyAtEnd, Source!vars, Source!None
<1> HIDE DEF A, v
<1> QED BY <1>1, <1>2, Invariance, PTL DEF Spec
=============================================================================
