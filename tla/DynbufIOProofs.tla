--------------------------- MODULE DynbufIOProofs ---------------------------
(***************************************************************************)
(* The theorems about DynbufIO, for every stream, every set of buffers and *)
(* every bound.  The inductive invariant adds to the checked ones what a   *)
(* step needs of the state before it: the read area lies in the window,    *)
(* every buffer can be consumed from, what the producer has stored lies in *)
(* its area, and a buffer_copy that runs has room in the stream and in the *)
(* window for all that is left of it.                                      *)
(***************************************************************************)
EXTENDS DynbufIO, DynBufLemmas

\* Shifting containers have a quantum of headroom over the largest window
Headroom ==
  \A kind \in Kinds :
    kind[1] = "shifting" /\ kind[2] = "container" => MaxWindow + Quantum <= kind[3]

\* The buffer, its bounds, and the assertions
BufferInv ==
  /\ GoodIo(io) /\ Consumable(io.buf) /\ io.buf.size <= MaxWindow
  /\ Headroom => RoomFor(io.buf, MaxWindow) /\ NoAssertionFires

\* The producer's area and how the stream is split
StreamInv ==
  /\ view \in [from : Nat, size : Nat]
  /\ filled \in Nat /\ filled <= view.size
  /\ taken \in Nat /\ taken + io.rd + filled <= MaxBytes

\* What a buffer_copy that runs may still store
CopyInv ==
  /\ remaining \in Nat
  /\ remaining > 0 =>
       LET most == Smaller(io.rd + remaining, max_size(io.buf)) IN
       /\ most <= MaxWindow /\ taken + most <= MaxBytes
       /\ view = NoView /\ filled = 0

IInv == BufferInv /\ StreamInv /\ CopyInv /\ ViewIsWriteArea /\ StreamIntact

\* The bounds are numbers.
LEMMA BoundTypes ==
  /\ MaxAsked \in Nat /\ MaxWindow \in Nat /\ MaxBytes \in Nat
  /\ Quantum \in Nat /\ MaxAlloc \in Nat /\ Quantum > 0 /\ MaxAlloc > 0
BY IoSizesAssumption, QuantumAssumption, MaxAllocAssumption

\* What an io that holds the stream looks like to its consumer.
LEMMA IntactIsHolds == StreamIntact <=> Holds(io, io.rd + filled, taken)
BY DEF StreamIntact, Holds

-----------------------------------------------------------------------------
(* What each call does to the parts of the invariant *)

\* Every dynbuf_io that a program starts with satisfies the invariant.
LEMMA InitIInv == Init => IInv /\ taken = 0
<1> SUFFICES ASSUME Init PROVE IInv /\ taken = 0
  OBVIOUS
<1>1. PICK kind \in {k \in Kinds : k[1] = "bare" => k[2] # "fixed"},
           n \in 0..MaxWindow :
        \E size \in 0..n : \E rd \in 0..Smaller(size, MaxBytes) :
          /\ kind[1] = "shifting" \/ size = n
          /\ io = [buf |-> Constructed(kind[1], kind[2], kind[3],
                             [i \in Cells(n) |-> IF i < rd THEN i + 1 ELSE Blank],
                             n, size),
                   rd  |-> rd]
  BY DEF Init
<1>2. PICK size \in 0..n : \E rd \in 0..Smaller(size, MaxBytes) :
          /\ kind[1] = "shifting" \/ size = n
          /\ io = [buf |-> Constructed(kind[1], kind[2], kind[3],
                             [i \in Cells(n) |-> IF i < rd THEN i + 1 ELSE Blank],
                             n, size),
                   rd  |-> rd]
  BY <1>1
<1>3. PICK rd \in 0..Smaller(size, MaxBytes) :
          /\ kind[1] = "shifting" \/ size = n
          /\ io = [buf |-> Constructed(kind[1], kind[2], kind[3],
                             [i \in Cells(n) |-> IF i < rd THEN i + 1 ELSE Blank],
                             n, size),
                   rd  |-> rd]
  BY <1>2
<1> DEFINE store == [i \in Cells(n) |-> IF i < rd THEN i + 1 ELSE Blank]
           b == Constructed(kind[1], kind[2], kind[3], store, n, size)
<1>4. /\ kind \in Kinds /\ (kind[1] = "bare" => kind[2] # "fixed")
      /\ kind[1] \in {"bare", "shifting"} /\ kind[2] \in {"container", "fixed"}
      /\ kind[3] \in Nat /\ MaxWindow <= kind[3]
  BY IoKindsAssumption, IoSizesAssumption
<1>5. /\ n \in Nat /\ n <= MaxWindow /\ size \in Nat /\ size <= n
      /\ rd \in Nat /\ rd <= size /\ rd <= MaxBytes /\ 0 \in Nat
  BY BoundTypes DEF Smaller
<1>6. store \in [Cells(n) -> Byte]
  <2>1. ASSUME NEW i \in Cells(n), i < rd PROVE i + 1 \in Byte
    <3>1. i + 1 \in 1..MaxBytes
      BY <1>5, <2>1, BoundTypes DEF Cells
    <3> QED BY <3>1, StreamAssumption
  <2> QED BY <2>1, BlankAssumption
<1>7. \A c \in Cells(rd) : store[c] = c + 1
  BY <1>5 DEF Cells
<1>8. io = [buf |-> b, rd |-> rd] /\ (kind[1] = "shifting" \/ size = n)
  BY <1>3
<1> HIDE DEF store
<1>9. /\ b.kind = kind[1] /\ b.storage = kind[2] /\ b.max = kind[3]
      /\ b.store = store /\ b.len = n /\ b.beg = 0 /\ b.size = size
      /\ b.status = "running"
  BY DEF Constructed
<1>10. b \in Buffers(n)
  BY <1>4, <1>5, <1>6 DEF Buffers, Constructed
<1> HIDE DEF b
<1>11. Good(b)
  BY <1>4, <1>5, <1>8, <1>9, <1>10, BoundTypes
     DEF Good, IsBuffer, max_size, Shifts, Fixed
<1>12. GoodIo(io) /\ io.buf = b /\ io.rd = rd
  <2>1. b \in Buffers(b.len)
    BY <1>9, <1>10
  <2>2. io \in [buf : Buffers(b.len), rd : Nat] /\ io.buf = b /\ io.rd = rd
    BY <1>5, <1>8, <2>1
  <2> QED BY <1>5, <1>9, <1>11, <2>2 DEF GoodIo
<1>13. BufferInv
  <2>1. Consumable(b) /\ Ok(b)
    BY <1>4, <1>9 DEF Consumable, Ok, Shifts, Fixed
  <2>2. Headroom => RoomFor(b, MaxWindow)
    BY <1>4, <1>9 DEF Headroom, RoomFor, Shifts, Fixed
  <2>3. Consumable(io.buf) /\ Ok(io.buf) /\ (Headroom => RoomFor(io.buf, MaxWindow))
    BY <1>12, <2>1, <2>2, Zenon
  <2>4. GoodIo(io) /\ io.buf.size <= MaxWindow
    BY <1>5, <1>9, <1>12, BoundTypes
  <2> QED BY <2>3, <2>4, Zenon DEF BufferInv, NoAssertionFires, Running
<1>14. view = NoView /\ filled = 0 /\ taken = 0 /\ remaining = 0
  BY DEF Init
<1>15. StreamInv /\ CopyInv
  BY <1>5, <1>12, <1>14, BoundTypes DEF StreamInv, CopyInv, NoView
<1>16. ViewIsWriteArea
  BY <1>12, <1>14, IoTypes DEF ViewIsWriteArea, NoView
<1>17. Holds(io, io.rd + filled, taken)
  BY <1>5, <1>7, <1>9, <1>12, <1>14 DEF Holds, Cells
<1> QED BY <1>12, <1>13, <1>14, <1>15, <1>16, <1>17, IntactIsHolds DEF IInv

\* A call that leaves a good dynbuf_io of the same class in its bounds.
LEMMA BufferStep ==
  ASSUME BufferInv, GoodIo(io'), SameKind(io.buf, io'.buf),
         io'.buf.size <= MaxWindow, Headroom => Ok(io'.buf)
  PROVE  BufferInv'
BY DEF BufferInv, SameKind, Consumable, RoomFor, NoAssertionFires, Running

\* With headroom, growing to the largest window or less fires no assertion.
LEMMA PrepareStep ==
  ASSUME BufferInv, Running, NEW n \in Nat, NEW j, j = io_prepare(io, n),
         io.buf.size + PrepareGrowth(io, n) <= MaxWindow
  PROVE  /\ GoodIo(j) /\ SameKind(io.buf, j.buf) /\ j.rd = io.rd
         /\ Keeps(io.buf, 0, j.buf, io.buf.size)
         /\ io.buf.size <= j.buf.size /\ j.buf.size <= MaxWindow
         /\ j.buf.size = IF Ok(j.buf) THEN io.buf.size + PrepareGrowth(io, n)
                         ELSE io.buf.size
         /\ max_size(j.buf) <= max_size(io.buf)
         /\ Headroom => Ok(j.buf)
<1> DEFINE g == PrepareGrowth(io, n)
<1>1. /\ GoodIo(io) /\ Ok(io.buf) /\ io.buf.size \in Nat /\ io.buf.max \in Nat
      /\ io.buf.size <= MaxWindow
  BY IoTypes DEF BufferInv, Running
<1>2. g \in Nat
  BY <1>1, GrowthFacts
<1>3. /\ GoodIo(j) /\ SameKind(io.buf, j.buf) /\ j.rd = io.rd
      /\ Keeps(io.buf, 0, j.buf, io.buf.size)
      /\ j.buf.size = IF Ok(j.buf) THEN io.buf.size + g ELSE io.buf.size
      /\ max_size(j.buf) <= max_size(io.buf)
      /\ RoomFor(io.buf, io.buf.size + g) => Ok(j.buf)
  BY <1>1, PrepareFacts
<1> HIDE DEF g
<1>4. Headroom => RoomFor(io.buf, io.buf.size + g)
  BY <1>1, <1>2, BoundTypes DEF BufferInv, RoomFor, g
<1> QED BY <1>1, <1>2, <1>3, <1>4 DEF g

\* The invariant in numbers.
LEMMA StateFacts ==
  ASSUME IInv
  PROVE  /\ GoodIo(io) /\ Consumable(io.buf) /\ io.buf.size <= MaxWindow
         /\ io.buf.beg \in Nat /\ io.buf.size \in Nat /\ io.buf.len \in Nat
         /\ io.rd \in Nat /\ io.rd <= io.buf.size
         /\ WriteArea(io) \in Nat /\ WriteArea(io) + io.rd = io.buf.size
         /\ max_size(io.buf) \in Nat /\ io.buf.size <= max_size(io.buf)
         /\ view.from \in Nat /\ view.size \in Nat /\ view.size <= WriteArea(io)
         /\ view.size > 0 => view.from = WriteStart(io)
         /\ filled \in Nat /\ filled <= view.size
         /\ taken \in Nat /\ taken + io.rd + filled <= MaxBytes
         /\ remaining \in Nat
         /\ Holds(io, io.rd + filled, taken)
<1>1. GoodIo(io) /\ Consumable(io.buf) /\ io.buf.size <= MaxWindow
  BY DEF IInv, BufferInv
<1>2. Holds(io, io.rd + filled, taken)
  BY <1>1, IntactIsHolds DEF IInv
<1> QED BY <1>1, <1>2, IoTypes DEF IInv, StreamInv, CopyInv, ViewIsWriteArea

\* In the next state, too, holding the stream is what StreamIntact says.
LEMMA IntactNext ==
  ASSUME Holds(io', io'.rd + filled', taken')
  PROVE  StreamIntact'
BY DEF StreamIntact, Holds

\* What a step does to the queue of bytes that can be read
QueueStep ==
  \/ io'.rd >= io.rd /\ taken' = taken
  \/ io'.rd <= io.rd /\ taken' = taken + (io.rd - io'.rd)

\* A call that leaves the producer without an area and no buffer_copy running.
LEMMA DroppedView ==
  ASSUME IInv, GoodIo(io'), SameKind(io.buf, io'.buf), Ok(io'.buf),
         io'.buf.size <= io.buf.size, view' = NoView, filled' = 0, remaining' = 0,
         taken' \in Nat, taken' + io'.rd <= MaxBytes, Holds(io', io'.rd, taken')
  PROVE  IInv'
<1>1. /\ io.buf.size \in Nat /\ io.buf.size <= MaxWindow
      /\ io'.buf.size \in Nat /\ io'.rd \in Nat /\ WriteArea(io') \in Nat
  BY StateFacts, IoTypes
<1>2. BufferInv'
  <2>1. io'.buf.size <= MaxWindow
    BY <1>1, BoundTypes
  <2> QED BY <2>1, BufferStep DEF IInv
<1>3. StreamInv' /\ CopyInv'
  BY <1>1, BoundTypes DEF StreamInv, CopyInv, NoView
<1>4. ViewIsWriteArea'
  BY <1>1 DEF ViewIsWriteArea, NoView
<1>5. io'.rd + filled' = io'.rd
  BY <1>1
<1>6. StreamIntact'
  BY <1>5, IntactNext
<1> QED BY <1>2, <1>3, <1>4, <1>6 DEF IInv

\* A call that keeps the read area where it is in the window.
LEMMA ReadAreaKept ==
  ASSUME IInv, NEW j, GoodIo(j), NEW m \in Nat, io.rd <= m,
         Keeps(io.buf, 0, j.buf, m)
  PROVE  Holds(j, io.rd, taken)
<1>1. /\ GoodIo(io) /\ io.rd \in Nat /\ io.rd + filled \in Nat
      /\ io.rd <= io.rd + filled /\ taken \in Nat
      /\ 0 + io.rd = io.rd /\ taken + 0 = taken
      /\ Holds(io, io.rd + filled, taken)
  BY StateFacts
<1>2. Holds(io, 0 + io.rd, taken)
  BY <1>1, HoldsFewer
<1>3. Holds(j, io.rd, taken + 0)
  BY <1>1, <1>2, HoldsKept
<1> QED BY <1>1, <1>3

\* prepare()
LEMMA PrepareAction ==
  ASSUME IInv, NEW n \in Nat, Prepare(n)
  PROVE  IInv' /\ QueueStep
<1>1. /\ BufferInv /\ Running /\ io' = io_prepare(io, n)
      /\ io.buf.size + PrepareGrowth(io, n) <= MaxWindow
      /\ view' = [from |-> WriteStart(io'), size |-> PreparedSize(io', n)]
      /\ filled' = 0 /\ taken' = taken /\ remaining' = 0
  BY DEF IInv, Prepare, Idle
<1>2. /\ GoodIo(io') /\ SameKind(io.buf, io'.buf) /\ io'.rd = io.rd
      /\ Keeps(io.buf, 0, io'.buf, io.buf.size) /\ io'.buf.size <= MaxWindow
      /\ Headroom => Ok(io'.buf)
  BY <1>1, PrepareStep
<1>3. /\ io'.buf.beg \in Nat /\ io'.rd \in Nat /\ WriteArea(io') \in Nat
      /\ WriteStart(io') \in Nat
      /\ PreparedSize(io', n) \in Nat /\ PreparedSize(io', n) <= WriteArea(io')
  BY <1>2, IoTypes DEF WriteStart, PreparedSize, Smaller
<1>4. BufferInv'
  BY <1>1, <1>2, BufferStep
<1>5. StreamInv' /\ CopyInv'
  BY <1>1, <1>2, <1>3, StateFacts, BoundTypes DEF StreamInv, CopyInv
<1>6. ViewIsWriteArea'
  BY <1>1, <1>3 DEF ViewIsWriteArea
<1>7. Holds(io', io'.rd + filled', taken')
  <2>1. io.buf.size \in Nat /\ io.rd <= io.buf.size /\ io.rd + 0 = io.rd
    BY StateFacts
  <2>2. Holds(io', io.rd, taken)
    BY <1>2, <2>1, ReadAreaKept
  <2> QED BY <1>1, <1>2, <2>1, <2>2
<1>8. StreamIntact'
  BY <1>2, <1>7, IntactNext
<1>9. QueueStep
  BY <1>1, <1>2, StateFacts DEF QueueStep
<1> QED BY <1>4, <1>5, <1>6, <1>8, <1>9 DEF IInv

\* resize() that throws leaves the bytes, wherever it has moved them.
LEMMA ThrowStep ==
  ASSUME IInv, Running, NEW n \in Nat,
         io' = [io EXCEPT !.buf = grow_threw(io.buf, n)],
         view' = NoView, filled' = 0, remaining' = 0, taken' = taken
  PROVE  IInv' /\ QueueStep
<1>1. GoodIo(io) /\ Ok(io.buf) /\ io.buf.size \in Nat /\ io.rd <= io.buf.size
  BY StateFacts DEF Running
<1>2. /\ GoodIo(io') /\ SameKind(io.buf, io'.buf) /\ io'.rd = io.rd
      /\ Keeps(io.buf, 0, io'.buf, io.buf.size)
      /\ Ok(io'.buf) /\ io'.buf.size = io.buf.size
  BY <1>1, PrepareThrewFacts
<1>3. Holds(io', io'.rd, taken')
  BY <1>1, <1>2, ReadAreaKept
<1>4. /\ taken' \in Nat /\ taken' + io'.rd <= MaxBytes
      /\ io'.buf.size <= io.buf.size
  BY <1>2, StateFacts, BoundTypes
<1>5. IInv'
  BY <1>2, <1>3, <1>4, DroppedView
<1> QED BY <1>2, <1>5, StateFacts DEF QueueStep

\* prepare() without memory
LEMMA PrepareThrowsAction ==
  ASSUME IInv, NEW n \in Nat, PrepareThrows(n)
  PROVE  IInv' /\ QueueStep
<1>1. PrepareGrowth(io, n) \in Nat
  BY StateFacts, GrowthFacts
<1> QED BY <1>1, ThrowStep DEF PrepareThrows, Idle

\* A buffer_copy that runs holds no area of the producer's.
LEMMA CopyThrowsAction ==
  ASSUME IInv, NEW n \in Nat, CopyThrows(n)
  PROVE  IInv' /\ QueueStep
<1>1. PrepareGrowth(io, n) \in Nat
  BY StateFacts, GrowthFacts
<1>2. view = NoView /\ filled = 0
  BY StateFacts DEF IInv, CopyInv, CopyThrows, Copying
<1> QED BY <1>1, <1>2, ThrowStep DEF CopyThrows, Copying

\* shrink_uncommitted()
LEMMA ShrinkUncommittedAction ==
  ASSUME IInv, ShrinkUncommitted
  PROVE  IInv' /\ QueueStep
<1>1. /\ GoodIo(io) /\ Ok(io.buf) /\ Consumable(io.buf)
      /\ io.rd \in Nat /\ io.rd <= io.rd
  BY StateFacts DEF ShrinkUncommitted, Idle, Running
<1>2. /\ io' = io_shrink_uncommitted(io) /\ view' = NoView /\ filled' = 0
      /\ taken' = taken /\ remaining' = 0
  BY DEF ShrinkUncommitted, Idle
<1>3. /\ GoodIo(io') /\ SameKind(io.buf, io'.buf) /\ io'.rd = io.rd
      /\ Keeps(io.buf, 0, io'.buf, io.rd)
      /\ Ok(io'.buf) /\ io'.buf.size = io.rd
  BY <1>1, <1>2, ShrinkUncommittedFacts
<1>4. Holds(io', io'.rd, taken')
  BY <1>1, <1>2, <1>3, ReadAreaKept
<1>5. /\ taken' \in Nat /\ taken' + io'.rd <= MaxBytes
      /\ io'.buf.size <= io.buf.size
  BY <1>2, <1>3, StateFacts, BoundTypes
<1>6. IInv'
  BY <1>2, <1>3, <1>4, <1>5, DroppedView
<1> QED BY <1>2, <1>3, <1>6, StateFacts DEF QueueStep

\* clear()
LEMMA ClearAction ==
  ASSUME IInv, Clear
  PROVE  IInv' /\ QueueStep
<1>1. GoodIo(io) /\ Ok(io.buf) /\ Consumable(io.buf)
  BY StateFacts DEF Clear, Idle, Running
<1>2. /\ io' = io_clear(io) /\ view' = NoView /\ filled' = 0
      /\ taken' = taken + io.rd /\ remaining' = 0
  BY DEF Clear, Idle
<1>3. /\ GoodIo(io') /\ SameKind(io.buf, io'.buf)
      /\ Ok(io'.buf) /\ io'.rd = 0 /\ io'.buf.size = 0
  BY <1>1, <1>2, ClearFacts
<1>4. Holds(io', io'.rd, taken')
  BY <1>3 DEF Holds, Cells
<1>5. /\ taken' \in Nat /\ taken' + io'.rd <= MaxBytes
      /\ io'.buf.size <= io.buf.size
  BY <1>2, <1>3, StateFacts, BoundTypes
<1>6. IInv'
  BY <1>2, <1>3, <1>4, <1>5, DroppedView
<1> QED BY <1>2, <1>3, <1>6, StateFacts DEF QueueStep

\* Storing through the pointer: the area still is where the write area is, so
\* the byte lands behind those of the stream that are there.
LEMMA FillAction ==
  ASSUME IInv, Fill
  PROVE  IInv' /\ QueueStep
<1> DEFINE at == io.rd + filled
           first == io.buf.beg + at
           v == taken + io.rd + filled + 1
           s == [io.buf.store EXCEPT ![first] = v]
           d == [io.buf EXCEPT !.store = s]
<1>1. /\ Ok(io.buf) /\ remaining = 0 /\ filled < view.size
      /\ taken + io.rd + filled < MaxBytes
      /\ io' = [io EXCEPT !.buf.store[view.from + filled] = v]
      /\ filled' = filled + 1
      /\ view' = view /\ taken' = taken /\ remaining' = remaining
  BY DEF Fill, Idle, Running
<1>2. view.from + filled = first
  BY <1>1, StateFacts DEF WriteStart
<1>3. io' = [io EXCEPT !.buf = d]
  BY <1>1, <1>2
<1>4. /\ first \in Cells(io.buf.len) /\ at < io.buf.size /\ at \in Nat
      /\ v = taken + at + 1 /\ v \in 1..MaxBytes /\ first = io.buf.beg + at
  <2>1. /\ io.buf.beg \in Nat /\ io.buf.size \in Nat /\ io.buf.len \in Nat
        /\ io.rd \in Nat /\ filled \in Nat /\ taken \in Nat /\ MaxBytes \in Nat
        /\ WriteArea(io) \in Nat /\ WriteArea(io) + io.rd = io.buf.size
        /\ view.size \in Nat /\ view.size <= WriteArea(io)
    BY StateFacts, BoundTypes
  <2>2. io.buf.beg + io.buf.size <= io.buf.len
    BY StateFacts, IoTypes
  <2>3. at \in Nat /\ at < io.buf.size /\ first \in Nat /\ first < io.buf.len
    BY <1>1, <2>1, <2>2
  <2>4. v = taken + at + 1 /\ v \in 1..MaxBytes
    BY <1>1, <2>1
  <2> QED BY <2>1, <2>3, <2>4 DEF Cells
<1>5. v \in Byte
  BY <1>4, StreamAssumption
<1>6. /\ Good(io.buf) /\ io.buf \in Buffers(io.buf.len)
      /\ io.buf.store \in [Cells(io.buf.len) -> Byte]
      /\ io.buf.beg \in Nat /\ io.rd <= io.buf.size
      /\ IsBuffer(io.buf) /\ io.buf.len \in Nat
  BY StateFacts, IoTypes DEF IsBuffer
<1> HIDE DEF at, v, first
<1>7. s \in [Cells(io.buf.len) -> Byte]
  BY <1>4, <1>5, <1>6
<1> HIDE DEF s
<1>8. /\ Good(d) /\ SameKind(io.buf, d) /\ Ok(d) /\ d.store = s
      /\ d.beg = io.buf.beg /\ d.size = io.buf.size /\ d.len = io.buf.len
  <2>1. /\ d \in Buffers(io.buf.len) /\ d.store = s
        /\ d.beg = io.buf.beg /\ d.size = io.buf.size /\ d.len = io.buf.len
    BY <1>6, <1>7 DEF Buffers
  <2>2. SameKind(io.buf, d) /\ Ok(d)
    BY <1>1, <1>6 DEF Buffers, SameKind, Shifts, Fixed, Ok
  <2> HIDE DEF d
  <2> QED BY <1>6, <2>1, <2>2 DEF Good, IsBuffer, SameKind, max_size
<1> HIDE DEF d
<1>9. GoodIo(io') /\ io'.buf = d /\ io'.rd = io.rd
  BY <1>3, <1>6, <1>8, StateFacts, WithBufFacts
<1>10. BufferInv'
  <2>1. /\ SameKind(io.buf, io'.buf) /\ io'.buf.size <= MaxWindow
        /\ Ok(io'.buf)
    BY <1>8, <1>9, StateFacts
  <2> QED BY <1>9, <2>1, BufferStep DEF IInv
<1>11. StreamInv' /\ CopyInv'
  BY <1>1, <1>9, StateFacts, BoundTypes DEF IInv, StreamInv, CopyInv
<1>12. ViewIsWriteArea'
  BY <1>1, <1>8, <1>9, StateFacts DEF ViewIsWriteArea, WriteArea, WriteStart
<1>13. Holds(io', io'.rd + filled', taken')
  <2> SUFFICES ASSUME NEW c \in Cells(at + 1)
               PROVE  s[io.buf.beg + c] = taken + c + 1
    BY <1>1, <1>8, <1>9, StateFacts DEF Holds, at
  <2>1. /\ c \in Int /\ c <= at /\ io.buf.beg + c \in Cells(io.buf.len)
        /\ (io.buf.beg + c = first <=> c = at)
        /\ c # at => c \in Cells(at)
    <3>1. c \in Int /\ 0 <= c /\ c <= at /\ (c # at => c \in Cells(at))
      BY <1>4 DEF Cells
    <3>2. io.buf.beg + c \in Int /\ 0 <= io.buf.beg + c /\ io.buf.beg + c <= first
      BY <1>4, <1>6, <3>1
    <3>3. io.buf.beg + c \in Cells(io.buf.len)
      BY <1>4, <1>6, <3>2 DEF Cells
    <3> QED BY <1>4, <1>6, <3>1, <3>3
  <2>2. CASE c = at
    BY <1>4, <1>6, <2>1, <2>2 DEF s
  <2>3. CASE c # at
    <3>1. io.buf.store[io.buf.beg + c] = taken + c + 1
      BY <2>1, <2>3, StateFacts DEF Holds, at
    <3> QED BY <1>6, <2>1, <2>3, <3>1 DEF s
  <2> QED BY <2>2, <2>3
<1>14. StreamIntact'
  BY <1>9, <1>13, IntactNext
<1> QED BY <1>1, <1>9, <1>10, <1>11, <1>12, <1>14, StateFacts DEF IInv, QueueStep

\* Committing moves the border of the read area over bytes that are stored.
LEMMA CommitAction ==
  ASSUME IInv, NEW n \in Nat, Commit(n)
  PROVE  IInv' /\ QueueStep
<1>1. /\ Running /\ remaining = 0 /\ n <= filled /\ io' = io_commit(io, n)
      /\ view' = [from |-> view.from + n, size |-> view.size - n]
      /\ filled' = filled - n
      /\ taken' = taken /\ remaining' = remaining
  BY DEF Commit, Idle
<1>2. /\ GoodIo(io) /\ n <= WriteArea(io) /\ io.buf.size <= MaxWindow
      /\ io.rd \in Nat /\ filled \in Nat /\ taken \in Nat /\ MaxBytes \in Nat
      /\ view.from \in Nat /\ view.size \in Nat /\ filled <= view.size
      /\ view.size <= WriteArea(io) /\ WriteArea(io) \in Nat
      /\ WriteArea(io) + io.rd = io.buf.size /\ io.buf.beg \in Nat
      /\ taken + io.rd + filled <= MaxBytes
      /\ view.size > 0 => view.from = WriteStart(io)
  BY <1>1, StateFacts, BoundTypes
<1>3. GoodIo(io') /\ io'.buf = io.buf /\ io'.rd = io.rd + n
  BY <1>1, <1>2, CommitFacts
<1>4. BufferInv'
  <2>1. SameKind(io.buf, io'.buf) /\ io'.buf.size <= MaxWindow /\ Ok(io'.buf)
    BY <1>1, <1>2, <1>3 DEF SameKind, Running
  <2> QED BY <1>3, <2>1, BufferStep DEF IInv
<1>5. /\ view'.from = view.from + n /\ view'.size = view.size - n
      /\ view' \in [from : Nat, size : Nat] /\ filled' \in Nat
  BY <1>1, <1>2
<1>6. StreamInv' /\ CopyInv'
  BY <1>1, <1>2, <1>3, <1>5 DEF StreamInv, CopyInv
<1>7. ViewIsWriteArea'
  BY <1>2, <1>3, <1>5 DEF ViewIsWriteArea, WriteArea, WriteStart
<1>8. Holds(io', io'.rd + filled', taken')
  <2>1. io'.rd + filled' = io.rd + filled /\ Holds(io, io.rd + filled, taken)
    BY <1>1, <1>2, <1>3, StateFacts
  <2> QED BY <1>1, <1>3, <2>1 DEF Holds
<1>9. StreamIntact'
  BY <1>3, <1>8, IntactNext
<1> QED BY <1>1, <1>2, <1>3, <1>4, <1>6, <1>7, <1>9 DEF IInv, QueueStep

\* Consuming leaves the area of a shifting buffer in its place, and moves the
\* bytes of a bare container with what is stored behind them.
LEMMA ConsumeAction ==
  ASSUME IInv, NEW n \in Nat, Consume(n)
  PROVE  IInv' /\ QueueStep
<1>1. /\ Running /\ Ok(io.buf) /\ remaining = 0 /\ n <= io.rd
      /\ io' = io_consume(io, n)
      /\ view' = IF Shifts(io.buf) THEN view
                 ELSE [from |-> WriteStart(io'), size |-> filled]
      /\ taken' = taken + n
      /\ filled' = filled /\ remaining' = remaining
  BY DEF Consume, Idle, Running
<1>2. /\ GoodIo(io) /\ Consumable(io.buf) /\ io.buf.size <= MaxWindow
      /\ MaxWindow \in Nat /\ io.buf.size \in Nat
      /\ io.rd \in Nat /\ filled \in Nat /\ taken \in Nat /\ MaxBytes \in Nat
      /\ view.from \in Nat /\ view.size \in Nat /\ filled <= view.size
      /\ view.size <= WriteArea(io) /\ WriteArea(io) \in Nat
      /\ WriteArea(io) + io.rd = io.buf.size /\ io.buf.beg \in Nat
      /\ taken + io.rd + filled <= MaxBytes
      /\ view.size > 0 => view.from = WriteStart(io)
  BY StateFacts, BoundTypes
<1>3. /\ GoodIo(io') /\ SameKind(io.buf, io'.buf) /\ io'.rd = io.rd - n
      /\ Keeps(io.buf, n, io'.buf, io.buf.size - n)
      /\ Ok(io'.buf) /\ io'.buf.size = io.buf.size - n
      /\ Shifts(io.buf) /\ io'.buf.size > 0 => io'.buf.beg = io.buf.beg + n
  BY <1>1, <1>2, ConsumeIoFacts
<1>4. /\ io'.buf.beg \in Nat /\ io'.rd \in Nat /\ WriteStart(io') \in Nat
      /\ WriteArea(io') = WriteArea(io)
  <2>1. io'.buf.beg \in Nat /\ io'.rd \in Nat
    BY <1>3, IoTypes
  <2>2. io'.buf.size - io'.rd = io.buf.size - io.rd
    BY <1>1, <1>2, <1>3
  <2> QED BY <2>1, <2>2 DEF WriteStart, WriteArea
<1>5. BufferInv'
  <2>1. io'.buf.size <= MaxWindow
    BY <1>1, <1>2, <1>3
  <2> QED BY <1>3, <2>1, BufferStep DEF IInv
<1>6. /\ view' \in [from : Nat, size : Nat] /\ filled <= view'.size
      /\ view'.size <= WriteArea(io')
      /\ view'.size > 0 => view'.from = WriteStart(io')
  <2>1. CASE Shifts(io.buf)
    <3>1. view' = view /\ view \in [from : Nat, size : Nat]
      BY <1>1, <2>1 DEF IInv, StreamInv
    <3>2. view.size > 0 => WriteStart(io') = WriteStart(io)
      BY <1>1, <1>2, <1>3, <1>4, <2>1 DEF WriteStart
    <3> QED BY <1>2, <1>4, <3>1, <3>2
  <2>2. CASE ~Shifts(io.buf)
    BY <1>1, <1>2, <1>4, <2>2
  <2> QED BY <2>1, <2>2
<1>7. StreamInv' /\ CopyInv'
  BY <1>1, <1>2, <1>3, <1>6 DEF StreamInv, CopyInv
<1>8. ViewIsWriteArea'
  BY <1>6 DEF ViewIsWriteArea
<1>9. Holds(io', io'.rd + filled', taken')
  <2> DEFINE p == io.rd - n + filled
             m == io.buf.size - n
  <2>1. p \in Nat /\ m \in Nat /\ p <= m /\ n + p = io.rd + filled
    BY <1>1, <1>2
  <2>2. Holds(io, n + p, taken)
    BY <2>1, StateFacts
  <2> HIDE DEF p, m
  <2>3. Holds(io', p, taken + n)
    BY <1>2, <1>3, <2>1, <2>2, HoldsKept DEF m
  <2> QED BY <1>1, <1>3, <2>3 DEF p
<1>10. StreamIntact'
  BY <1>3, <1>9, IntactNext
<1> QED BY <1>1, <1>2, <1>3, <1>5, <1>7, <1>8, <1>10 DEF IInv, QueueStep

\* buffer_copy starts with room for all it may copy.
LEMMA CopyAction ==
  ASSUME IInv, NEW n \in Nat, Copy(n)
  PROVE  IInv' /\ QueueStep
<1>1. /\ LET most == Smaller(io.rd + n, max_size(io.buf)) IN
         most <= MaxWindow /\ taken + most <= MaxBytes
      /\ remaining' = n /\ view' = NoView /\ filled' = 0
      /\ io' = io /\ taken' = taken
  BY DEF Copy
<1>2. /\ GoodIo(io) /\ io.rd \in Nat /\ filled \in Nat /\ WriteArea(io) \in Nat
      /\ taken \in Nat /\ taken + io.rd + filled <= MaxBytes /\ MaxBytes \in Nat
      /\ io.rd + 0 <= io.rd + filled /\ io.rd + 0 \in Nat /\ io.rd + filled \in Nat
      /\ Holds(io, io.rd + filled, taken)
  BY StateFacts, BoundTypes
<1>3. BufferInv'
  BY <1>1, Zenon DEF IInv, BufferInv, NoAssertionFires, Running
<1>4. StreamInv' /\ CopyInv' /\ ViewIsWriteArea'
  BY <1>1, <1>2 DEF StreamInv, CopyInv, ViewIsWriteArea, NoView, WriteArea
<1>5. Holds(io, io.rd + 0, taken)
  BY <1>2, HoldsFewer
<1>6. StreamIntact'
  <2>1. GoodIo(io') /\ Holds(io', io'.rd + filled', taken')
    BY <1>1, <1>2, <1>5
  <2> QED BY <2>1, IntactNext
<1> QED BY <1>1, <1>2, <1>3, <1>4, <1>6 DEF IInv, QueueStep

\* One round of buffer_copy: what it prepares lies within what the copy was
\* said to have room for, and it commits as much of its part as it got.
LEMMA RoundFacts ==
  ASSUME IInv, NEW part \in 1..remaining, CopyRound(part)
  PROVE  LET prepared == io_prepare(io, part)
             n_copied == PreparedSize(prepared, part)
         IN /\ GoodIo(prepared) /\ prepared.rd = io.rd
            /\ n_copied \in Nat /\ n_copied <= part /\ n_copied <= WriteArea(prepared)
            /\ prepared.buf.size = IF Ok(prepared.buf)
                                   THEN io.buf.size + PrepareGrowth(io, part)
                                   ELSE io.buf.size
            /\ io.rd + n_copied <= max_size(io.buf)
            /\ taken + io.rd + n_copied <= MaxBytes
            /\ GoodIo(io') /\ SameKind(io.buf, io'.buf)
            /\ io'.rd = io.rd + n_copied
            /\ io'.buf.size <= MaxWindow /\ max_size(io'.buf) <= max_size(io.buf)
            /\ (Ok(io'.buf) <=> Ok(prepared.buf)) /\ (Headroom => Ok(io'.buf))
            /\ remaining' = LeftAfter(part, n_copied)
            /\ Holds(io', io.rd + n_copied, taken)
<1> DEFINE g == PrepareGrowth(io, part)
           j == io_prepare(io, part)
           n == PreparedSize(j, part)
           k == taken + io.rd
           f == Filled(j, io.rd, n, k)
           most == Smaller(io.rd + remaining, max_size(io.buf))
<1>1. /\ Running /\ remaining > 0 /\ io' = io_commit(f, n)
      /\ remaining' = LeftAfter(part, n)
  BY DEF CopyRound, Copying
<1>2. /\ GoodIo(io) /\ io.buf.size \in Nat /\ io.rd \in Nat /\ taken \in Nat
      /\ remaining \in Nat /\ part \in Nat /\ part <= remaining /\ part > 0
      /\ io.buf.size <= MaxWindow /\ MaxWindow \in Nat /\ MaxBytes \in Nat
      /\ io.rd <= io.buf.size /\ max_size(io.buf) \in Nat
      /\ io.buf.size <= max_size(io.buf)
  BY StateFacts, BoundTypes
<1>3. most \in Nat /\ most <= MaxWindow /\ taken + most <= MaxBytes
  BY <1>1, <1>2 DEF IInv, CopyInv, Smaller
<1>4. /\ g \in Nat /\ io.buf.size + g <= max_size(io.buf)
      /\ io.buf.size + g <= MaxWindow
  <2>1. /\ g \in Nat /\ io.buf.size + g <= max_size(io.buf)
        /\ part <= WriteArea(io) => g = 0
        /\ part > WriteArea(io) => io.buf.size + g <= io.rd + part
    BY <1>2, GrowthFacts
  <2> HIDE DEF g
  <2> QED BY <1>2, <1>3, <2>1, IoTypes DEF Smaller
<1>5. /\ GoodIo(j) /\ SameKind(io.buf, j.buf) /\ j.rd = io.rd
      /\ Keeps(io.buf, 0, j.buf, io.buf.size)
      /\ j.buf.size <= MaxWindow
      /\ j.buf.size = IF Ok(j.buf) THEN io.buf.size + g ELSE io.buf.size
      /\ max_size(j.buf) <= max_size(io.buf)
      /\ Headroom => Ok(j.buf)
  BY <1>1, <1>2, <1>4, PrepareStep DEF IInv
<1> HIDE DEF g, j
<1>6. /\ j.buf.size \in Nat /\ WriteArea(j) \in Nat
      /\ WriteArea(j) + io.rd = j.buf.size
  BY <1>5, IoTypes
<1>7. n \in Nat /\ n <= part /\ n <= WriteArea(j)
  BY <1>2, <1>6 DEF PreparedSize, Smaller
<1> HIDE DEF n
<1>8. /\ io.rd + n <= j.buf.size /\ io.rd + n <= max_size(io.buf)
      /\ taken + io.rd + n <= MaxBytes /\ k \in Nat /\ k + n <= MaxBytes
  BY <1>2, <1>3, <1>4, <1>5, <1>6, <1>7 DEF Smaller
<1>9. AreBytes(k, n)
  <2> SUFFICES ASSUME NEW m \in 1..n PROVE k + m \in Byte
    BY DEF AreBytes
  <2>1. k + m \in 1..MaxBytes
    BY <1>2, <1>7, <1>8
  <2> QED BY <2>1, StreamAssumption
<1>10. Holds(f, io.rd + n, taken)
  <2>1. Holds(j, io.rd, taken)
    BY <1>2, <1>5, ReadAreaKept
  <2>2. /\ GoodIo(j) /\ io.rd \in Nat /\ n \in Nat /\ taken \in Nat
        /\ io.rd + n <= j.buf.size /\ AreBytes(taken + io.rd, n)
    BY <1>2, <1>5, <1>7, <1>8, <1>9
  <2>3. f = Filled(j, io.rd, n, taken + io.rd)
    OBVIOUS
  <2> HIDE DEF f, k
  <2> QED BY <2>1, <2>2, <2>3, FilledHolds
<1> HIDE DEF k, f
<1>11. /\ GoodIo(f) /\ SameKind(j.buf, f.buf) /\ f.rd = io.rd
       /\ (Ok(f.buf) <=> Ok(j.buf)) /\ f.buf.size = j.buf.size
       /\ f.buf.len = j.buf.len
  <2>1. f = Filled(j, io.rd, n, k)
    BY DEF f
  <2>2. /\ GoodIo(j) /\ io.rd \in Nat /\ n \in Nat /\ k \in Nat
        /\ io.rd + n <= j.buf.size /\ AreBytes(k, n) /\ j.rd = io.rd
    BY <1>2, <1>5, <1>7, <1>8, <1>9
  <2> QED BY <2>1, <2>2, FilledFacts
<1>12. WriteArea(f) = WriteArea(j)
  BY <1>5, <1>11 DEF WriteArea
<1>13. GoodIo(io') /\ io'.buf = f.buf /\ io'.rd = io.rd + n
  BY <1>1, <1>7, <1>11, <1>12, CommitFacts
<1>14. max_size(f.buf) = max_size(j.buf)
  BY <1>11 DEF SameKind, max_size
<1>15. SameKind(io.buf, f.buf)
  BY <1>5, <1>11 DEF SameKind
<1>16. Holds(io', io.rd + n, taken)
  BY <1>10, <1>13 DEF Holds
<1> QED BY <1>1, <1>5, <1>7, <1>8, <1>11, <1>13, <1>14, <1>15, <1>16 DEF n, j, g

\* A round of buffer_copy
LEMMA CopyRoundAction ==
  ASSUME IInv, NEW part \in 1..remaining, CopyRound(part)
  PROVE  IInv' /\ QueueStep
<1> DEFINE prepared == io_prepare(io, part)
           n == PreparedSize(prepared, part)
<1>1. /\ view' = view /\ filled' = filled /\ taken' = taken
      /\ remaining > 0
  BY DEF CopyRound, Copying
<1>2. /\ GoodIo(io) /\ view = NoView /\ filled = 0 /\ io.rd \in Nat /\ taken \in Nat
      /\ remaining \in Nat /\ part \in Nat /\ part <= remaining
      /\ max_size(io.buf) \in Nat /\ MaxBytes \in Nat /\ MaxWindow \in Nat
      /\ LET most == Smaller(io.rd + remaining, max_size(io.buf)) IN
         most <= MaxWindow /\ taken + most <= MaxBytes
  BY <1>1, StateFacts, BoundTypes DEF IInv, CopyInv
<1>3. /\ n \in Nat /\ n <= part
      /\ taken + io.rd + n <= MaxBytes
      /\ GoodIo(io') /\ SameKind(io.buf, io'.buf) /\ io'.rd = io.rd + n
      /\ io'.buf.size <= MaxWindow /\ max_size(io'.buf) <= max_size(io.buf)
      /\ Headroom => Ok(io'.buf)
      /\ remaining' = LeftAfter(part, n)
      /\ Holds(io', io.rd + n, taken)
  BY RoundFacts
<1> HIDE DEF n, prepared
<1>4. BufferInv'
  BY <1>3, BufferStep DEF IInv
<1>5. remaining' \in Nat /\ (remaining' = 0 \/ remaining' + n = remaining)
  BY <1>2, <1>3 DEF LeftAfter
<1>6. max_size(io'.buf) \in Nat /\ WriteArea(io') \in Nat
  BY <1>3, IoTypes
<1>7. StreamInv'
  BY <1>1, <1>2, <1>3 DEF IInv, StreamInv
<1>8. CopyInv'
  <2> SUFFICES ASSUME remaining' > 0
               PROVE  LET most == Smaller(io'.rd + remaining', max_size(io'.buf)) IN
                      /\ most <= MaxWindow /\ taken' + most <= MaxBytes
                      /\ view' = NoView /\ filled' = 0
    BY <1>5 DEF CopyInv
  <2>1. io'.rd + remaining' = io.rd + remaining
    BY <1>2, <1>3, <1>5
  <2> QED BY <1>1, <1>2, <1>3, <1>6, <2>1 DEF Smaller
<1>9. ViewIsWriteArea'
  BY <1>1, <1>2, <1>6 DEF ViewIsWriteArea, NoView
<1>10. StreamIntact'
  <2>1. io'.rd + filled' = io.rd + n
    BY <1>1, <1>2, <1>3
  <2> QED BY <1>1, <1>3, <2>1, IntactNext
<1> QED BY <1>1, <1>2, <1>3, <1>4, <1>7, <1>8, <1>9, <1>10 DEF IInv, QueueStep

\* Every step keeps the invariant, and does to the read area what a queue does.
LEMMA NextAction == IInv /\ Next => IInv' /\ QueueStep
<1> SUFFICES ASSUME IInv, Next PROVE IInv' /\ QueueStep
  OBVIOUS
<1>1. CASE \E n \in 0..MaxAsked : Prepare(n) \/ PrepareThrows(n)
  BY <1>1, PrepareAction, PrepareThrowsAction
<1>2. CASE Fill
  BY <1>2, FillAction
<1>3. CASE \E n \in 0..filled : Commit(n)
  BY <1>3, CommitAction
<1>4. CASE \E n \in 0..io.rd : Consume(n)
  BY <1>4, ConsumeAction
<1>5. CASE ShrinkUncommitted
  BY <1>5, ShrinkUncommittedAction
<1>6. CASE Clear
  BY <1>6, ClearAction
<1>7. CASE \E n \in 1..MaxAsked : Copy(n)
  BY <1>7, CopyAction
<1>8. CASE \E part \in 1..remaining : CopyRound(part) \/ CopyThrows(part)
  BY <1>8, CopyRoundAction, CopyThrowsAction
<1> QED BY <1>1, <1>2, <1>3, <1>4, <1>5, <1>6, <1>7, <1>8 DEF Next

\* A step that changes nothing keeps the invariant.
LEMMA StutterAction == IInv /\ UNCHANGED vars => IInv'
BY DEF vars, IInv, BufferInv, StreamInv, CopyInv, ViewIsWriteArea, StreamIntact,
       NoAssertionFires, Running, GoodIo, WriteArea, WriteStart

-----------------------------------------------------------------------------
(* The theorems *)

\* The inductive invariant holds in every state of every execution.
THEOREM Invariance == Spec => []IInv
<1>1. Init => IInv
  BY InitIInv
<1>2. IInv /\ [Next]_vars => IInv'
  BY NextAction, StutterAction
<1> QED BY <1>1, <1>2, PTL DEF Spec

\* Whatever grows, compacts, shrinks and consumes in whatever order, the read
\* area and the stored bytes behind it are the stream's (dynbuf_io.hpp:41-88).
THEOREM StreamStaysIntact == Spec => []StreamIntact
<1>1. IInv => StreamIntact
  BY DEF IInv
<1> QED BY <1>1, Invariance, PTL

\* The area the producer was given stays where the next commit() looks
\* (dynbuf_io.hpp:19-22, 46-82).
THEOREM ViewStaysWriteArea == Spec => []ViewIsWriteArea
<1>1. IInv => ViewIsWriteArea
  BY DEF IInv
<1> QED BY <1>1, Invariance, PTL

\* Where the containers have a quantum of headroom over the windows in use, a
\* producer and a consumer who keep the contract meet no assertion.  Without
\* it the growth of a shifting buffer may ask its container for more than
\* max_size().
THEOREM NeverAsserts == ASSUME Headroom PROVE Spec => []NoAssertionFires
<1>1. IInv => NoAssertionFires
  BY DEF IInv, BufferInv
<1> QED BY <1>1, Invariance, PTL

\* The read area as a queue holds it: the bytes behind those taken, before and
\* after a step.
LEMMA QueueIs ==
  /\ IInv => ReadArea(io) = [k \in 1..io.rd |-> taken + k]
  /\ IInv' => ReadArea(io') = [k \in 1..io'.rd |-> taken' + k]
<1>1. ASSUME IInv PROVE ReadArea(io) = [k \in 1..io.rd |-> taken + k]
  <2>1. /\ GoodIo(io) /\ filled \in Nat /\ taken \in Nat
        /\ Holds(io, io.rd + filled, taken)
    BY <1>1, StateFacts
  <2> QED BY <2>1, QueueOf
<1>2. ASSUME IInv' PROVE ReadArea(io') = [k \in 1..io'.rd |-> taken' + k]
  <2>1. /\ GoodIo(io') /\ filled' \in Nat /\ taken' \in Nat
        /\ Holds(io', io'.rd + filled', taken')
    BY <1>2 DEF IInv, BufferInv, StreamInv, StreamIntact, Holds
  <2> QED BY <2>1, QueueOf
<1> QED BY <1>1, <1>2

\* What a step does to the read area is what a step of the queue does.
LEMMA QueueSteps ==
  ASSUME IInv, IInv', QueueStep
  PROVE  Queue!Next
<1> DEFINE q == ReadArea(io)
           r == ReadArea(io')
<1>1. io.rd \in Nat /\ taken \in Nat /\ io'.rd \in Nat
  BY StateFacts, IoTypes DEF IInv, BufferInv
<1>2. q = [k \in 1..io.rd |-> taken + k] /\ r = [k \in 1..io'.rd |-> taken' + k]
  BY QueueIs
<1> HIDE DEF q, r
<1>3. Len(q) = io.rd /\ Len(r) = io'.rd
  BY <1>1, <1>2
<1>4. CASE io'.rd >= io.rd /\ taken' = taken
  <2>1. r = [i \in 1..(Len(q) + (Len(r) - Len(q))) |-> taken + i]
    BY <1>1, <1>2, <1>3, <1>4
  <2> QED BY <1>1, <1>3, <1>4, <2>1 DEF Queue!Next, Queue!Put, q, r
<1>5. CASE io'.rd <= io.rd /\ taken' = taken + (io.rd - io'.rd)
  <2> DEFINE n == Len(q) - Len(r)
  <2>1. n = io.rd - io'.rd /\ n \in Nat /\ Len(q) - n = io'.rd
    BY <1>1, <1>3, <1>5
  <2> HIDE DEF n
  <2>2. ASSUME NEW i \in 1..io'.rd PROVE taken' + i = q[i + n]
    <3>1. /\ i \in Nat /\ i >= 1 /\ i <= io'.rd
          /\ io.rd \in Nat /\ io'.rd \in Nat
          /\ n \in Nat /\ n + io'.rd = io.rd
      BY <1>1, <2>1
    <3>2. i + n \in 1..io.rd
      BY ONLY <3>1
    <3>3. q[i + n] = taken + (i + n)
      BY ONLY <1>2, <3>2
    <3>4. taken' = taken + (io.rd - io'.rd) /\ taken \in Nat
      BY <1>1, <1>5
    <3> QED BY ONLY <3>1, <3>3, <3>4
  <2>3. r = [i \in 1..(Len(q) - n) |-> q[i + n]]
    BY <1>2, <2>1, <2>2
  <2> QED BY <1>1, <1>3, <1>5, <2>1, <2>3 DEF Queue!Next, Queue!Take, n, q, r
<1> QED BY <1>4, <1>5 DEF QueueStep

\* A dynbuf_io is a queue of the bytes of the stream: they come out in the
\* order they were committed in, each once, whatever the buffer underneath
\* does (dynbuf_io.hpp:24-94).
THEOREM IsByteQueue == Spec => ImplementsByteQueue
<1>1. Init => Queue!Init
  <2> SUFFICES ASSUME Init PROVE Queue!Init
    OBVIOUS
  <2>1. IInv /\ taken = 0 /\ io.rd \in Nat
    BY InitIInv, StateFacts
  <2>2. ReadArea(io) = [i \in 1..io.rd |-> i] /\ Len(ReadArea(io)) = io.rd
    BY <2>1, QueueIs
  <2> QED BY <2>1, <2>2 DEF Queue!Init
<1>2. IInv /\ IInv' /\ [Next]_vars => [Queue!Next]_<<ReadArea(io), taken>>
  <2> SUFFICES ASSUME IInv, IInv', [Next]_vars
               PROVE  [Queue!Next]_<<ReadArea(io), taken>>
    OBVIOUS
  <2>1. CASE Next
    BY <2>1, NextAction, QueueSteps
  <2>2. CASE UNCHANGED vars
    BY <2>2 DEF vars, ReadArea
  <2> QED BY <2>1, <2>2
<1> QED BY <1>1, <1>2, Invariance, PTL DEF Spec, ImplementsByteQueue, Queue!Spec

\* With headroom the area prepare() returns is as large as it is to be.
LEMMA PreparedInFull ==
  ASSUME Headroom, IInv, NEW n \in Nat, Prepare(n)
  PROVE  view'.size = Smaller(n, Smaller(max_size(io.buf) - io.rd,
                                         WriteArea(io) + MaxAlloc))
<1> DEFINE g == PrepareGrowth(io, n)
<1>1. /\ BufferInv /\ Running /\ io' = io_prepare(io, n)
      /\ io.buf.size + g <= MaxWindow
      /\ view'.size = PreparedSize(io', n)
  BY DEF IInv, Prepare, Idle
<1>2. /\ GoodIo(io) /\ io.buf.size \in Nat /\ io.rd \in Nat /\ WriteArea(io) \in Nat
      /\ WriteArea(io) + io.rd = io.buf.size /\ MaxAlloc \in Nat
      /\ max_size(io.buf) \in Nat /\ io.buf.size <= max_size(io.buf)
  BY StateFacts, BoundTypes
<1>3. /\ g \in Nat
      /\ n <= WriteArea(io) => g = 0
      /\ n > WriteArea(io) =>
           WriteArea(io) + g = Smaller(n, Smaller(max_size(io.buf) - io.rd,
                                                  WriteArea(io) + MaxAlloc))
  BY <1>2, GrowthFacts
<1>4. io'.rd = io.rd /\ io'.buf.size = io.buf.size + g
  BY <1>1, PrepareStep
<1> HIDE DEF g
<1>5. io'.buf.size - io'.rd = WriteArea(io) + g
  BY <1>2, <1>3, <1>4
<1>6. view'.size = Smaller(n, WriteArea(io) + g)
  BY <1>1, <1>5 DEF PreparedSize, WriteArea
<1> QED BY <1>2, <1>3, <1>6 DEF Smaller

\* The last round of a buffer_copy has copied all there is or filled the buffer.
LEMMA LastRound ==
  ASSUME Headroom, IInv, NEW part \in 1..remaining, CopyRound(part), remaining' = 0
  PROVE  io'.rd = io.rd + remaining \/ io'.rd = max_size(io.buf)
<1> DEFINE prepared == io_prepare(io, part)
           n == PreparedSize(prepared, part)
           g == PrepareGrowth(io, part)
<1>1. /\ GoodIo(io) /\ io.buf.size \in Nat /\ io.rd \in Nat /\ WriteArea(io) \in Nat
      /\ WriteArea(io) + io.rd = io.buf.size /\ MaxAlloc \in Nat /\ MaxAlloc > 0
      /\ max_size(io.buf) \in Nat /\ io.buf.size <= max_size(io.buf)
      /\ remaining \in Nat /\ part \in Nat /\ part > 0
  BY StateFacts, BoundTypes
<1>2. /\ prepared.rd = io.rd /\ prepared.buf.size = io.buf.size + g
      /\ io'.rd = io.rd + n /\ remaining' = LeftAfter(part, n)
      /\ n \in Nat /\ n = Smaller(part, WriteArea(prepared))
  BY RoundFacts DEF PreparedSize
<1>3. /\ g \in Nat
      /\ part <= WriteArea(io) => g = 0
      /\ part > WriteArea(io) =>
           WriteArea(io) + g = Smaller(part, Smaller(max_size(io.buf) - io.rd,
                                                     WriteArea(io) + MaxAlloc))
  BY <1>1, GrowthFacts
<1> HIDE DEF g, prepared, n
<1>4. WriteArea(prepared) = WriteArea(io) + g
  BY <1>1, <1>2, <1>3 DEF WriteArea
<1>5. n = 0 \/ n = remaining
  BY <1>1, <1>2 DEF LeftAfter
<1>6. CASE n = remaining
  BY <1>2, <1>6
<1>7. CASE n = 0
  <2>1. WriteArea(io) + g = 0
    BY <1>1, <1>2, <1>3, <1>4, <1>7 DEF Smaller
  <2>2. max_size(io.buf) - io.rd = 0
    BY <1>1, <1>3, <2>1 DEF Smaller
  <2> QED BY <1>1, <1>2, <1>7, <2>2
<1> QED BY <1>5, <1>6, <1>7

\* Where the containers have headroom, prepare() gives what it was asked for, or
\* all that max_size() and the allocation cap leave, whatever consume() has
\* given up before (dynbuf_io.hpp:46-71).
THEOREM PrepareGivesAll == ASSUME Headroom PROVE Spec => PrepareYields
<1> DEFINE A == \A n \in 0..MaxAsked :
                  Prepare(n) =>
                    view'.size = Smaller(n, Smaller(max_size(io.buf) - io.rd,
                                                    WriteArea(io) + MaxAlloc))
<1>1. IInv => A
  BY PreparedInFull
<1>2. PrepareYields <=> [][A]_vars
  BY DEF PrepareYields
<1> HIDE DEF A
<1> QED BY <1>1, <1>2, Invariance, PTL

\* Where the containers have headroom, buffer_copy into a dynbuf_io ends when
\* all is copied, when the buffer is full, or with an exception
\* (copy.hpp:123-133).
THEOREM CopyFillsBuffer == ASSUME Headroom PROVE Spec => CopyFills
<1> DEFINE A == Copying /\ remaining' = 0 =>
                  \/ io'.rd = io.rd + remaining
                  \/ io'.rd = max_size(io.buf)
                  \/ \E part \in 1..remaining : CopyThrows(part)
<1>1. IInv /\ Next => A
  <2> SUFFICES ASSUME IInv, Next, Copying, remaining' = 0
               PROVE  \/ io'.rd = io.rd + remaining
                      \/ io'.rd = max_size(io.buf)
                      \/ \E part \in 1..remaining : CopyThrows(part)
    OBVIOUS
  <2>1. \E part \in 1..remaining : CopyRound(part) \/ CopyThrows(part)
    BY BoundTypes DEF Next, Copying, Idle, Prepare, PrepareThrows, Fill, Commit, Consume,
              ShrinkUncommitted, Clear, Copy
  <2> QED BY <2>1, LastRound
<1>2. CopyFills <=> [][A]_vars
  BY DEF CopyFills
<1> HIDE DEF A
<1> QED BY <1>1, <1>2, Invariance, PTL DEF Spec
=============================================================================
