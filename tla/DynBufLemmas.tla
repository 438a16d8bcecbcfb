---------------------------- MODULE DynBufLemmas ----------------------------
(***************************************************************************)
(* Facts about the operators of DynBufOps and of DynbufIoOps, for every    *)
(* buffer, every dynbuf_io and every size: what each call does to the      *)
(* window, to the storage, to the read and the write area and to the       *)
(* assertions.  The proofs about the machines cite them by name.           *)
(***************************************************************************)
EXTENDS DynbufIoOps, TLAPS

-----------------------------------------------------------------------------
(* Dynamic buffers *)

\* A buffer whose window lies in its storage, and its storage in max_size()
Good(b) ==
  /\ IsBuffer(b)
  /\ b.beg + b.size <= b.len
  /\ b.len <= max_size(b)
  /\ ~Shifts(b) => b.beg = 0 /\ b.size = b.len

\* c is of the class of b, over the same container type
SameKind(b, c) ==
  (Shifts(c) <=> Shifts(b)) /\ (Fixed(c) <=> Fixed(b)) /\ c.max = b.max

\* The first n bytes of c's window are those of b's from offset k on
Keeps(b, k, c, n) ==
  \A i \in Cells(n) : c.store[c.beg + i] = b.store[b.beg + k + i]

\* The fields of a buffer have their types.
LEMMA FieldTypes ==
  ASSUME NEW b, IsBuffer(b)
  PROVE  /\ b.max \in Nat /\ b.len \in Nat /\ b.beg \in Nat /\ b.size \in Nat
         /\ b.store \in [Cells(b.len) -> Byte]
         /\ max_size(b) \in Nat
BY DEF IsBuffer, Buffers, max_size

\* Replacing the storage of a buffer gives a buffer.
LEMMA WithStorageFacts ==
  ASSUME NEW b, IsBuffer(b), NEW n \in Nat, NEW s \in [Cells(n) -> Byte]
  PROVE  LET c == WithStorage(b, s, n) IN
         /\ IsBuffer(c) /\ SameKind(b, c)
         /\ c.store = s /\ c.len = n
         /\ c.beg = b.beg /\ c.size = b.size /\ (Ok(c) <=> Ok(b))
<1> DEFINE c == WithStorage(b, s, n)
<1>1. b.len \in Nat /\ b \in Buffers(b.len)
  BY DEF IsBuffer
<1>2. c \in Buffers(n)
  BY <1>1 DEF WithStorage, Buffers
<1>3. c.store = s /\ c.len = n
  BY <1>1 DEF WithStorage, Buffers
<1>4. c.beg = b.beg /\ c.size = b.size /\ (Ok(c) <=> Ok(b))
  BY <1>1 DEF WithStorage, Buffers, Ok
<1>5. SameKind(b, c)
  BY <1>1 DEF WithStorage, Buffers, SameKind, Shifts, Fixed
<1> HIDE DEF c
<1>6. IsBuffer(c)
  BY <1>2, <1>3 DEF IsBuffer
<1> QED BY <1>3, <1>4, <1>5, <1>6 DEF c

\* Replacing the window of a buffer gives a buffer.
LEMMA WithWindowFacts ==
  ASSUME NEW b, IsBuffer(b), NEW beg \in Nat, NEW size \in Nat
  PROVE  LET c == WithWindow(b, beg, size) IN
         /\ IsBuffer(c) /\ SameKind(b, c)
         /\ c.store = b.store /\ c.len = b.len
         /\ c.beg = beg /\ c.size = size /\ (Ok(c) <=> Ok(b))
BY DEF WithWindow, IsBuffer, Buffers, SameKind, Shifts, Fixed, Ok

\* A failed assertion changes nothing but ok.
LEMMA AssertedFacts ==
  ASSUME NEW b, IsBuffer(b)
  PROVE  LET c == Asserted(b) IN
         /\ IsBuffer(c) /\ SameKind(b, c)
         /\ c.store = b.store /\ c.len = b.len
         /\ c.beg = b.beg /\ c.size = b.size /\ ~Ok(c)
BY DEF Asserted, IsBuffer, Buffers, SameKind, Shifts, Fixed, Ok

\* The n bytes from where a copy to the front begins are the first n after it.
LEMMA CopiedDownFacts ==
  ASSUME NEW len \in Nat, NEW m \in [Cells(len) -> Byte],
         NEW from \in Nat, NEW n \in Nat, from + n <= len
  PROVE  LET s == CopiedDown(m, len, from, n) IN
         /\ s \in [Cells(len) -> Byte]
         /\ \A i \in Cells(n) : s[i] = m[from + i]
<1>1. \A c \in Cells(len) : c - 0 = c
  BY DEF Cells
<1>2. \A c \in Cells(n) : c \in Cells(len) /\ from + c \in Cells(len)
  BY DEF Cells
<1> QED BY <1>1, <1>2 DEF CopiedDown, Moved

\* Compacting a shifting buffer moves its window and loses none of it.
LEMMA CompactedFacts ==
  ASSUME NEW b, Good(b), Shifts(b)
  PROVE  LET c == Compacted(b) IN
         /\ Good(c) /\ SameKind(b, c) /\ Keeps(b, 0, c, b.size)
         /\ (Ok(c) <=> Ok(b)) /\ c.beg = 0 /\ c.size = b.size /\ c.len = b.len
<1> DEFINE s == CopiedDown(b.store, b.len, b.beg, b.size)
           d == WithStorage(b, s, b.len)
           c == WithWindow(d, 0, b.size)
<1>1. IsBuffer(b)
  BY DEF Good
<1>2. /\ s \in [Cells(b.len) -> Byte]
      /\ \A i \in Cells(b.size) : s[i] = b.store[b.beg + i]
  BY <1>1, FieldTypes, CopiedDownFacts DEF Good
<1> HIDE DEF s
<1>4. /\ IsBuffer(d) /\ SameKind(b, d) /\ d.store = s
      /\ d.len = b.len /\ (Ok(d) <=> Ok(b))
  BY <1>1, <1>2, WithStorageFacts, FieldTypes
<1> HIDE DEF d
<1>5. /\ IsBuffer(c) /\ SameKind(d, c) /\ c.store = s
      /\ c.len = b.len /\ (Ok(c) <=> Ok(b)) /\ c.beg = 0 /\ c.size = b.size
  <2>1. b.size \in Nat /\ 0 \in Nat
    BY <1>1, FieldTypes
  <2> QED BY <1>4, <2>1, WithWindowFacts
<1>6. Compacted(b) = c
  BY DEF Compacted, d, s
<1> HIDE DEF c
<1>7. Good(c) /\ SameKind(b, c)
  BY <1>1, <1>4, <1>5, FieldTypes DEF Good, SameKind, max_size
<1>8. Keeps(b, 0, c, b.size)
  BY <1>1, <1>2, <1>5, FieldTypes DEF Keeps, Cells
<1> QED BY <1>5, <1>6, <1>7, <1>8

\* Growing the storage adds cells behind the old ones, or asserts.
LEMMA StorageGrownFacts ==
  ASSUME NEW b, Good(b), Ok(b), NEW n \in Nat
  PROVE  LET c == StorageGrown(b, n) IN
         /\ IsBuffer(c) /\ SameKind(b, c) /\ c.len <= max_size(c)
         /\ c.beg = b.beg /\ c.size = b.size
         /\ \A i \in Cells(b.len) : c.store[i] = b.store[i]
         /\ (Ok(c) <=> n <= max_size(b) - b.len)
         /\ c.len = IF Ok(c) THEN b.len + n ELSE b.len
<1> DEFINE s == Resized(b.store, b.len, b.len + n)
           c == StorageGrown(b, n)
<1>1. IsBuffer(b)
  BY DEF Good
<1>2. CASE n <= max_size(b) - b.len
  <2>1. s \in [Cells(b.len + n) -> Byte]
    BY <1>1, FieldTypes, BlankAssumption DEF Resized, Cells
  <2>2. \A i \in Cells(b.len) : s[i] = b.store[i]
    BY <1>1, FieldTypes DEF Resized, Cells
  <2> HIDE DEF s
  <2>3. c = WithStorage(b, s, b.len + n)
    BY <1>2 DEF StorageGrown, s
  <2> HIDE DEF c
  <2>4. /\ IsBuffer(c) /\ SameKind(b, c) /\ c.store = s
        /\ c.len = b.len + n /\ c.beg = b.beg /\ c.size = b.size /\ Ok(c)
    BY <1>1, <2>1, <2>3, WithStorageFacts, FieldTypes
  <2>5. Fixed(b) => n = 0
    BY <1>1, <1>2, FieldTypes DEF max_size
  <2>6. c.len <= max_size(c)
    BY <1>1, <1>2, <2>4, FieldTypes DEF max_size, SameKind
  <2> QED BY <1>1, <1>2, <2>2, <2>4, <2>6, FieldTypes DEF c
<1>3. CASE ~(n <= max_size(b) - b.len)
  <2>1. c = Asserted(b)
    BY <1>3 DEF StorageGrown
  <2> HIDE DEF c
  <2>2. /\ IsBuffer(c) /\ SameKind(b, c) /\ c.store = b.store
        /\ c.len = b.len /\ c.beg = b.beg /\ c.size = b.size /\ ~Ok(c)
    BY <1>1, <2>1, AssertedFacts
  <2>3. c.len <= max_size(c)
    BY <2>2 DEF Good, max_size, SameKind
  <2> QED BY <1>3, <2>2, <2>3 DEF c
<1> QED BY <1>2, <1>3

\* c is b grown by more bytes, or b after the assertion of its storage:
\* the window is still there, and the storage grew only if it had to
Grew(b, c, more) ==
  /\ Good(c) /\ SameKind(b, c) /\ Keeps(b, 0, c, b.size)
  /\ c.size = IF Ok(c) THEN b.size + more ELSE b.size
  /\ c.len > b.len => c.size > b.len
  /\ c.len <= Larger(b.len, b.size + more + Quantum)

\* Extending the window changes its size only.
LEMMA ExtendedFacts ==
  ASSUME NEW b, IsBuffer(b), Ok(b), NEW more \in Nat
  PROVE  LET c == Extended(b, more) IN
         /\ IsBuffer(c) /\ SameKind(b, c)
         /\ c.store = b.store /\ c.len = b.len
         /\ c.beg = b.beg /\ c.size = b.size + more /\ Ok(c)
<1>1. b.size + more \in Nat
  BY FieldTypes
<1> QED BY <1>1 DEF Extended, WithWindow, IsBuffer, Buffers, SameKind,
                  Shifts, Fixed, Ok

\* A shifting buffer grows in the storage behind its window.
LEMMA GrownInStorageFacts ==
  ASSUME NEW b, Good(b), Ok(b), Shifts(b), NEW more \in Nat,
         b.beg = 0 \/ TailRoom(b) >= more
  PROVE  LET c == GrownInStorage(b, more) IN
         /\ Grew(b, c, more)
         /\ \/ TailRoom(b) >= more
            \/ GrowthSize(b, more) <= max_size(b) - b.len
            => Ok(c)
<1> DEFINE c == GrownInStorage(b, more)
<1>1. /\ IsBuffer(b) /\ b.len \in Nat /\ b.beg \in Nat /\ b.size \in Nat
      /\ Quantum \in Nat \ {0}
  BY FieldTypes, QuantumAssumption DEF Good
<1>2. CASE TailRoom(b) >= more
  <2>1. c = Extended(b, more)
    BY <1>2 DEF GrownInStorage
  <2> HIDE DEF c
  <2>3. /\ IsBuffer(c) /\ SameKind(b, c) /\ c.store = b.store /\ Ok(c)
        /\ c.len = b.len /\ c.beg = b.beg /\ c.size = b.size + more
    BY <1>1, <2>1, ExtendedFacts
  <2>4. Good(c)
    BY <1>1, <1>2, <2>3 DEF Good, SameKind, max_size, TailRoom
  <2>5. Keeps(b, 0, c, b.size)
    BY <1>1, <2>3 DEF Keeps, Cells
  <2>6. Grew(b, c, more)
    BY <1>1, <2>3, <2>4, <2>5 DEF Grew, Larger
  <2> QED BY <2>3, <2>6 DEF c
<1>3. CASE ~(TailRoom(b) >= more)
  <2> DEFINE n == GrowthSize(b, more)
             d == StorageGrown(b, n)
  <2>1. /\ n \in Nat /\ b.beg = 0
        /\ n <= Larger(Quantum, b.size + more - b.len)
        /\ n >= b.size + more - b.len
        /\ b.size + more > b.len
    BY <1>1, <1>3 DEF GrowthSize, Larger, TailRoom, Good
  <2>2. c = Extended(d, more)
    BY <1>3 DEF GrownInStorage
  <2>3. ~(TailRoom(b) >= more)
    BY <1>3
  <2> HIDE DEF n, c
  <2>4. /\ IsBuffer(d) /\ SameKind(b, d) /\ d.len <= max_size(d)
        /\ d.beg = b.beg /\ d.size = b.size
        /\ \A i \in Cells(b.len) : d.store[i] = b.store[i]
        /\ (Ok(d) <=> n <= max_size(b) - b.len)
        /\ d.len = IF Ok(d) THEN b.len + n ELSE b.len
    BY <2>1, StorageGrownFacts
  <2> HIDE DEF d
  <2>5. CASE Ok(d)
    <3>2. /\ IsBuffer(c) /\ SameKind(d, c) /\ c.store = d.store
          /\ c.len = d.len /\ c.beg = d.beg /\ c.size = d.size + more
          /\ (Ok(c) <=> Ok(d))
      BY <2>2, <2>4, <2>5, ExtendedFacts
    <3>3. Good(c)
      BY <1>1, <2>1, <2>4, <2>5, <3>2 DEF Good, SameKind, max_size
    <3>4. Keeps(b, 0, c, b.size)
      BY <1>1, <2>1, <2>4, <3>2 DEF Keeps, Cells, Good
    <3>5. c.len <= Larger(b.len, b.size + more + Quantum)
      BY <1>1, <2>1, <2>4, <2>5, <3>2 DEF Larger
    <3>6. Grew(b, c, more)
      BY <1>1, <2>1, <2>4, <2>5, <3>2, <3>3, <3>4, <3>5 DEF Grew, SameKind
    <3> QED BY <2>5, <3>2, <3>6 DEF c
  <2>6. CASE ~Ok(d)
    <3>1. c = d
      BY <2>2, <2>6 DEF Extended
    <3>2. Good(d)
      BY <2>4, <2>6 DEF Good, SameKind
    <3>3. Keeps(b, 0, d, b.size)
      BY <1>1, <2>1, <2>4 DEF Keeps, Cells, Good
    <3>4. Grew(b, d, more)
      BY <1>1, <2>4, <2>6, <3>2, <3>3 DEF Grew, Larger
    <3> QED BY <2>3, <2>4, <2>6, <3>1, <3>4 DEF c, n
  <2> QED BY <2>5, <2>6
<1> QED BY <1>2, <1>3

\* grow() of the bare classes, in one step of the storage.
LEMMA BareGrowFacts ==
  ASSUME NEW b, Good(b), Ok(b), ~Shifts(b), NEW more \in Nat
  PROVE  LET c == grow(b, more) IN
         Grew(b, c, more) /\ (more <= max_size(b) - b.size => Ok(c))
<1> DEFINE c == grow(b, more)
           d == StorageGrown(b, more)
<1>1. /\ IsBuffer(b) /\ b.len \in Nat /\ Quantum \in Nat
      /\ b.beg = 0 /\ b.size = b.len
  BY FieldTypes, QuantumAssumption DEF Good
<1>2. c = Extended(d, more)
  BY DEF grow
<1> HIDE DEF c
<1>3. /\ IsBuffer(d) /\ SameKind(b, d) /\ d.len <= max_size(d)
      /\ d.beg = b.beg /\ d.size = b.size
      /\ \A i \in Cells(b.len) : d.store[i] = b.store[i]
      /\ (Ok(d) <=> more <= max_size(b) - b.len)
      /\ d.len = IF Ok(d) THEN b.len + more ELSE b.len
  BY StorageGrownFacts
<1> HIDE DEF d
<1>4. Keeps(b, 0, d, b.size)
  BY <1>1, <1>3 DEF Keeps, Cells
<1>5. CASE Ok(d)
  <2>1. /\ IsBuffer(c) /\ SameKind(d, c) /\ c.store = d.store
        /\ c.len = d.len /\ c.beg = d.beg /\ c.size = d.size + more /\ Ok(c)
    BY <1>2, <1>3, <1>5, ExtendedFacts
  <2>2. Good(c)
    BY <1>1, <1>3, <1>5, <2>1 DEF Good, SameKind, max_size
  <2>3. Keeps(b, 0, c, b.size)
    BY <1>4, <2>1 DEF Keeps
  <2>4. SameKind(b, c)
    BY <1>3, <2>1 DEF SameKind
  <2>5. /\ c.len > b.len => c.size > b.len
        /\ c.len <= Larger(b.len, b.size + more + Quantum)
    BY <1>1, <1>3, <1>5, <2>1 DEF Larger
  <2>6. Grew(b, c, more)
    BY <1>3, <2>1, <2>2, <2>3, <2>4, <2>5 DEF Grew
  <2> QED BY <2>1, <2>6 DEF c
<1>6. CASE ~Ok(d)
  <2>1. c = d
    BY <1>2, <1>6 DEF Extended
  <2>2. Good(d)
    BY <1>1, <1>3, <1>6 DEF Good, SameKind
  <2>3. /\ ~(d.len > b.len)
        /\ d.len <= Larger(b.len, b.size + more + Quantum)
    BY <1>1, <1>3, <1>6 DEF Larger
  <2>4. Grew(b, d, more)
    BY <1>3, <1>4, <1>6, <2>2, <2>3 DEF Grew
  <2> QED BY <1>1, <1>3, <1>6, <2>1, <2>4 DEF c
<1> QED BY <1>5, <1>6

\* grow() keeps the window and the invariants of every class; it asserts only
\* if the growth, rounded up to a quantum for a shifting container, would
\* pass max_size().
LEMMA GrowFacts ==
  ASSUME NEW b, Good(b), Ok(b), NEW more \in Nat
  PROVE  LET c == grow(b, more) IN
         /\ Grew(b, c, more)
         /\ \/ b.size + more + Quantum <= max_size(b)
            \/ ~(Shifts(b) /\ ~Fixed(b)) /\ more <= max_size(b) - b.size
            => Ok(c)
<1> DEFINE c == grow(b, more)
<1>1. /\ IsBuffer(b) /\ b.len \in Nat /\ b.beg \in Nat /\ b.size \in Nat
      /\ max_size(b) \in Nat /\ b.max \in Nat /\ Quantum \in Nat \ {0}
  BY FieldTypes, QuantumAssumption DEF Good
<1>2. CASE ~Shifts(b)
  BY <1>1, <1>2, BareGrowFacts
<1>3. CASE Shifts(b) /\ ~(TailRoom(b) < more /\ b.beg # 0)
  <2>1. c = GrownInStorage(b, more)
    BY <1>3 DEF grow
  <2>2. b.beg = 0 \/ TailRoom(b) >= more
    BY <1>1, <1>3 DEF TailRoom
  <2>3. /\ Grew(b, c, more)
        /\ \/ TailRoom(b) >= more
           \/ GrowthSize(b, more) <= max_size(b) - b.len
           => Ok(c)
    BY <1>3, <2>1, <2>2, GrownInStorageFacts
  <2> HIDE DEF c
  <2>4. \/ b.size + more + Quantum <= max_size(b)
        \/ Fixed(b) /\ more <= max_size(b) - b.size
        => \/ TailRoom(b) >= more
           \/ GrowthSize(b, more) <= max_size(b) - b.len
    BY <1>1, <2>2 DEF TailRoom, GrowthSize, Larger, max_size, Good
  <2> QED BY <1>3, <2>3, <2>4 DEF c
<1>4. CASE Shifts(b) /\ TailRoom(b) < more /\ b.beg # 0
  <2> DEFINE d == Compacted(b)
  <2>1. c = GrownInStorage(d, more)
    BY <1>4 DEF grow
  <2>2. /\ Good(d) /\ SameKind(b, d) /\ Keeps(b, 0, d, b.size)
        /\ (Ok(d) <=> Ok(b)) /\ d.beg = 0 /\ d.size = b.size /\ d.len = b.len
    BY <1>4, CompactedFacts
  <2> HIDE DEF c, d
  <2>3. /\ Grew(d, c, more)
        /\ \/ TailRoom(d) >= more
           \/ GrowthSize(d, more) <= max_size(d) - d.len
           => Ok(c)
    BY <1>4, <2>1, <2>2, GrownInStorageFacts DEF SameKind
  <2>4. \/ b.size + more + Quantum <= max_size(b)
        \/ Fixed(b) /\ more <= max_size(b) - b.size
        => \/ TailRoom(d) >= more
           \/ GrowthSize(d, more) <= max_size(d) - d.len
    BY <1>1, <2>2
       DEF TailRoom, GrowthSize, Larger, max_size, Good, SameKind
  <2>5. Keeps(b, 0, c, b.size)
    BY <1>1, <2>2, <2>3 DEF Grew, Keeps, Cells
  <2>6. Grew(b, c, more)
    BY <2>2, <2>3, <2>5 DEF Grew, SameKind
  <2> QED BY <1>4, <2>3, <2>4, <2>6 DEF c
<1> QED BY <1>2, <1>3, <1>4

\* A grow() whose resize() throws has at most moved the window.
LEMMA GrowThrewFacts ==
  ASSUME NEW b, Good(b), Ok(b), NEW more \in Nat
  PROVE  LET c == grow_threw(b, more) IN
         /\ Good(c) /\ SameKind(b, c) /\ Keeps(b, 0, c, b.size)
         /\ Ok(c) /\ c.size = b.size /\ c.len = b.len
<1>1. IsBuffer(b) /\ b.beg \in Nat
  BY FieldTypes DEF Good
<1>2. CASE Shifts(b) /\ b.beg # 0
  BY <1>1, <1>2, CompactedFacts DEF grow_threw
<1>3. CASE ~(Shifts(b) /\ b.beg # 0)
  BY <1>1, <1>3 DEF grow_threw, SameKind, Keeps, Cells
<1> QED BY <1>2, <1>3

\* Narrowing a shifting buffer to a part of its window.
LEMMA NarrowedFacts ==
  ASSUME NEW b, Good(b), Ok(b), Shifts(b), NEW beg \in Nat, NEW size \in Nat,
         b.beg <= beg, beg + size <= b.beg + b.size
  PROVE  LET c == Narrowed(b, beg, size) IN
         /\ Good(c) /\ SameKind(b, c) /\ Keeps(b, beg - b.beg, c, size)
         /\ Ok(c) /\ c.size = size /\ c.len = b.len
<1> DEFINE beg2 == IF size = 0 THEN 0 ELSE beg
           c == WithWindow(b, beg2, size)
<1>1. /\ IsBuffer(b) /\ b.len \in Nat /\ b.beg \in Nat /\ b.size \in Nat
      /\ beg2 \in Nat
  BY FieldTypes DEF Good
<1>2. beg2 + size <= b.len /\ (size # 0 => beg2 = beg)
  BY <1>1 DEF Good
<1>3. Narrowed(b, beg, size) = c
  BY DEF Narrowed
<1> HIDE DEF beg2
<1>4. /\ IsBuffer(c) /\ SameKind(b, c) /\ c.store = b.store /\ c.len = b.len
      /\ c.beg = beg2 /\ c.size = size /\ (Ok(c) <=> Ok(b))
  <2>1. IsBuffer(b) /\ beg2 \in Nat
    BY <1>1
  <2> QED BY <2>1, WithWindowFacts
<1> HIDE DEF c
<1>5. Good(c)
  BY <1>1, <1>2, <1>4 DEF Good, SameKind, max_size
<1>6. Keeps(b, beg - b.beg, c, size)
  BY <1>1, <1>2, <1>4 DEF Keeps, Cells
<1> QED BY <1>1, <1>3, <1>4, <1>5, <1>6

\* Truncating the container of a bare buffer.
LEMMA TruncatedFacts ==
  ASSUME NEW b, Good(b), Ok(b), ~Shifts(b),
         NEW n \in Nat, n <= b.len, Fixed(b) => n = b.len, NEW s \in [Cells(b.len) -> Byte]
  PROVE  LET c == Truncated(b, s, n) IN
         /\ Good(c) /\ SameKind(b, c)
         /\ Ok(c) /\ c.beg = 0 /\ c.size = n /\ c.len = n
         /\ \A i \in Cells(n) : c.store[i] = s[i]
<1> DEFINE t == Resized(s, b.len, n)
           d == WithStorage(b, t, n)
           c == WithWindow(d, 0, n)
<1>1. IsBuffer(b) /\ b.len \in Nat /\ 0 \in Nat
  BY FieldTypes DEF Good
<1>2. t \in [Cells(n) -> Byte] /\ \A i \in Cells(n) : t[i] = s[i]
  BY <1>1 DEF Resized, Cells
<1>3. Truncated(b, s, n) = c
  BY DEF Truncated
<1> HIDE DEF t
<1>4. /\ IsBuffer(d) /\ SameKind(b, d) /\ d.store = t /\ d.len = n
      /\ (Ok(d) <=> Ok(b))
  BY <1>1, <1>2, WithStorageFacts
<1> HIDE DEF d
<1>5. /\ IsBuffer(c) /\ SameKind(d, c) /\ c.store = t /\ c.len = n
      /\ c.beg = 0 /\ c.size = n /\ (Ok(c) <=> Ok(b))
  <2>1. IsBuffer(d) /\ 0 \in Nat
    BY <1>4
  <2>2. /\ IsBuffer(c) /\ SameKind(d, c) /\ c.store = d.store /\ c.len = d.len
        /\ c.beg = 0 /\ c.size = n /\ (Ok(c) <=> Ok(d))
    BY <2>1, WithWindowFacts
  <2> QED BY <1>4, <2>2
<1> HIDE DEF c
<1>6. SameKind(b, c)
  BY <1>4, <1>5 DEF SameKind
<1>7. Good(c)
  <2>1. c.len <= max_size(c)
    BY <1>1, <1>5, <1>6, FieldTypes DEF Good, SameKind, max_size
  <2> QED BY <1>5, <2>1 DEF Good
<1> QED BY <1>2, <1>3, <1>5, <1>6, <1>7

\* shrink(n) drops the last n bytes of the window.
LEMMA ShrinkFacts ==
  ASSUME NEW b, Good(b), Ok(b), NEW n \in Nat, ~Rejects(b, n)
  PROVE  LET c == shrink(b, n) IN
         /\ Good(c) /\ SameKind(b, c) /\ Keeps(b, 0, c, b.size - n)
         /\ Ok(c) /\ c.size = b.size - n /\ c.len <= b.len
<1> DEFINE c == shrink(b, n)
           m == b.size - n
<1>1. /\ IsBuffer(b) /\ b.len \in Nat /\ b.beg \in Nat /\ b.size \in Nat
      /\ m \in Nat /\ n <= b.size /\ b.store \in [Cells(b.len) -> Byte]
  BY FieldTypes DEF Good, Rejects
<1>2. CASE Shifts(b)
  <2>1. c = Narrowed(b, b.beg, m)
    BY <1>2 DEF shrink
  <2>2. b.beg <= b.beg /\ b.beg + m <= b.beg + b.size /\ b.beg - b.beg = 0
    BY <1>1
  <2> HIDE DEF c, m
  <2>3. /\ Good(c) /\ SameKind(b, c) /\ Keeps(b, b.beg - b.beg, c, m)
        /\ Ok(c) /\ c.size = m /\ c.len = b.len
    BY <1>1, <1>2, <2>1, <2>2, NarrowedFacts
  <2> QED BY <1>1, <2>2, <2>3 DEF c, m
<1>3. CASE ~Shifts(b)
  <2>1. c = Truncated(b, b.store, m) /\ m <= b.len /\ (Fixed(b) => m = b.len)
    BY <1>1, <1>3 DEF shrink, Rejects, Good
  <2> HIDE DEF c, m
  <2>2. /\ Good(c) /\ SameKind(b, c)
        /\ Ok(c) /\ c.beg = 0 /\ c.size = m /\ c.len = m
        /\ \A i \in Cells(m) : c.store[i] = b.store[i]
    BY <1>1, <1>3, <2>1, TruncatedFacts
  <2>3. b.beg = 0 /\ \A i \in Cells(m) : c.beg + i = i /\ b.beg + 0 + i = i
    BY <1>1, <1>3, <2>2 DEF Cells, Good
  <2>4. Keeps(b, 0, c, m)
    BY <2>2, <2>3 DEF Keeps
  <2> QED BY <1>1, <2>1, <2>2, <2>4 DEF c, m
<1> QED BY <1>2, <1>3

\* consume(n) drops the first n bytes of the window.
LEMMA ConsumeFacts ==
  ASSUME NEW b, Good(b), Ok(b), NEW n \in Nat, ~Rejects(b, n)
  PROVE  LET c == consume(b, n) IN
         /\ Good(c) /\ SameKind(b, c) /\ Keeps(b, n, c, b.size - n)
         /\ Ok(c) /\ c.size = b.size - n /\ c.len <= b.len
<1> DEFINE c == consume(b, n)
           m == b.size - n
<1>1. /\ IsBuffer(b) /\ b.len \in Nat /\ b.beg \in Nat /\ b.size \in Nat
      /\ m \in Nat /\ n <= b.size /\ b.store \in [Cells(b.len) -> Byte]
  BY FieldTypes DEF Good, Rejects
<1>2. CASE Shifts(b)
  <2> DEFINE lo == b.beg + n
  <2>1. c = Narrowed(b, lo, m)
    BY <1>2 DEF consume
  <2>2. lo \in Nat /\ b.beg <= lo /\ lo + m <= b.beg + b.size /\ lo - b.beg = n
    BY <1>1
  <2> HIDE DEF c, m, lo
  <2>3. /\ Good(c) /\ SameKind(b, c) /\ Keeps(b, lo - b.beg, c, m)
        /\ Ok(c) /\ c.size = m /\ c.len = b.len
    BY <1>1, <1>2, <2>1, <2>2, NarrowedFacts
  <2> QED BY <1>1, <2>2, <2>3 DEF c, m
<1>3. CASE ~Shifts(b)
  <2> DEFINE s == CopiedDown(b.store, b.len, n, m)
  <2>1. /\ c = Truncated(b, s, m) /\ m <= b.len /\ (Fixed(b) => m = b.len)
        /\ n + m = b.len /\ b.beg = 0
    BY <1>1, <1>3 DEF consume, Rejects, Good
  <2> HIDE DEF c, m
  <2>2. /\ s \in [Cells(b.len) -> Byte]
        /\ \A i \in Cells(m) : s[i] = b.store[n + i]
    <3>1. /\ b.len \in Nat /\ b.store \in [Cells(b.len) -> Byte]
          /\ m \in Nat /\ n + m <= b.len
      BY <1>1, <2>1
    <3> QED BY <3>1, CopiedDownFacts DEF s
  <2> HIDE DEF s
  <2>3. /\ Good(c) /\ SameKind(b, c)
        /\ Ok(c) /\ c.beg = 0 /\ c.size = m /\ c.len = m
        /\ \A i \in Cells(m) : c.store[i] = s[i]
    BY <1>1, <1>3, <2>1, <2>2, TruncatedFacts
  <2>4. \A i \in Cells(m) : c.beg + i = i /\ b.beg + n + i = n + i
    BY <1>1, <2>1, <2>3 DEF Cells
  <2>5. Keeps(b, n, c, m)
    BY <2>2, <2>3, <2>4 DEF Keeps
  <2> QED BY <1>1, <2>1, <2>3, <2>5 DEF c, m
<1> QED BY <1>2, <1>3

\* A byte stored in the window changes that byte only.
LEMMA PokedFacts ==
  ASSUME NEW b, Good(b), Ok(b), NEW i \in Cells(b.size), NEW v \in Byte
  PROVE  LET c == Poked(b, i, v) IN
         /\ Good(c) /\ SameKind(b, c) /\ Ok(c)
         /\ c.beg = b.beg /\ c.size = b.size /\ c.len = b.len
         /\ c.store = [b.store EXCEPT ![b.beg + i] = v]
<1> DEFINE s == [b.store EXCEPT ![b.beg + i] = v]
           c == WithStorage(b, s, b.len)
<1>1. /\ IsBuffer(b) /\ b.len \in Nat /\ b.beg \in Nat /\ b.size \in Nat
      /\ b.store \in [Cells(b.len) -> Byte]
  BY FieldTypes DEF Good
<1>2. s \in [Cells(b.len) -> Byte]
  BY <1>1
<1>3. Poked(b, i, v) = c
  BY DEF Poked
<1> HIDE DEF s
<1>4. /\ IsBuffer(c) /\ SameKind(b, c) /\ c.store = s /\ c.len = b.len
      /\ c.beg = b.beg /\ c.size = b.size /\ (Ok(c) <=> Ok(b))
  BY <1>1, <1>2, WithStorageFacts
<1> HIDE DEF c
<1>5. Good(c)
  BY <1>1, <1>4 DEF Good, SameKind, max_size
<1> QED BY <1>3, <1>4, <1>5 DEF s

\* The n positions of a stream after the first k are bytes
AreBytes(k, n) == \A m \in 1..n : k + m \in Byte

\* b with the n bytes behind the first k of a stream stored in its window
StreamStored(b, at, n, k) ==
  LET first == b.beg + at IN
  [b EXCEPT !.store = [c \in Cells(b.len) |->
                         IF c - first \in Cells(n) THEN k + 1 + (c - first)
                         ELSE b.store[c]]]

\* Storing a part of a stream in the window changes that part only.
LEMMA StreamStoredFacts ==
  ASSUME NEW b, Good(b), NEW at \in Nat, NEW n \in Nat, NEW k \in Nat,
         at + n <= b.size, AreBytes(k, n)
  PROVE  LET d == StreamStored(b, at, n, k) IN
         /\ Good(d) /\ SameKind(b, d) /\ (Ok(d) <=> Ok(b))
         /\ d.beg = b.beg /\ d.size = b.size /\ d.len = b.len
         /\ \A c \in Cells(at) : d.store[d.beg + c] = b.store[b.beg + c]
         /\ \A c \in Cells(n) : d.store[d.beg + at + c] = k + 1 + c
<1> DEFINE first == b.beg + at
           s == [c \in Cells(b.len) |->
                   IF c - first \in Cells(n) THEN k + 1 + (c - first)
                   ELSE b.store[c]]
           d == [b EXCEPT !.store = s]
<1>1. /\ IsBuffer(b) /\ b.len \in Nat /\ b.beg \in Nat
      /\ b.size \in Nat /\ b.store \in [Cells(b.len) -> Byte]
      /\ b.beg + b.size <= b.len /\ at + n <= b.size
  BY FieldTypes DEF Good
<1>2. StreamStored(b, at, n, k) = d
  BY DEF StreamStored
<1>3. s \in [Cells(b.len) -> Byte]
  <2>1. ASSUME NEW c \in Cells(b.len), c - first \in Cells(n)
        PROVE  k + 1 + (c - first) \in Byte
    <3> DEFINE x == c - first
    <3>1. x \in 0..(n - 1)
      BY <2>1 DEF Cells
    <3> HIDE DEF x
    <3>2. k + 1 + x = k + (x + 1) /\ x + 1 \in 1..n
      BY <3>1
    <3>3. k + 1 + x \in Byte
      BY <3>2 DEF AreBytes
    <3> QED BY <3>3 DEF x
  <2> QED BY <1>1, <2>1
<1>4. \A c \in Cells(b.len) :
        s[c] = IF c - first \in Cells(n) THEN k + 1 + (c - first) ELSE b.store[c]
  OBVIOUS
<1> HIDE DEF s
<1>5. \A c \in Cells(at) : s[b.beg + c] = b.store[b.beg + c]
  <2>1. TAKE c \in Cells(at)
  <2> DEFINE x == b.beg + c
  <2>2. x \in Cells(b.len) /\ x - first \notin Cells(n)
    <3>1. /\ b.beg \in Nat /\ b.len \in Nat /\ b.size \in Nat
          /\ b.beg + b.size <= b.len /\ at + n <= b.size /\ c \in 0..(at - 1)
      BY <1>1 DEF Cells
    <3>2. x \in 0..(b.len - 1) /\ x - first < 0
      BY <3>1
    <3> HIDE DEF x, first
    <3> QED BY <3>2 DEF Cells
  <2> HIDE DEF first, x
  <2>3. s[x] = b.store[x]
    BY <1>4, <2>2
  <2> QED BY <2>3 DEF x
<1>6. \A c \in Cells(n) : s[first + c] = k + 1 + c
  <2>1. first \in Nat /\ first + n <= b.len
    BY <1>1
  <2> HIDE DEF first
  <2>2. ASSUME NEW c \in Cells(n)
        PROVE  first + c \in Cells(b.len) /\ first + c - first = c /\ c \in Int
    BY SMTT(30), <1>1, <2>1 DEF Cells
  <2> QED BY <1>4, <2>1, <2>2
<1>7. /\ Good(d) /\ SameKind(b, d) /\ (Ok(d) <=> Ok(b)) /\ d.store = s
      /\ d.beg = b.beg /\ d.size = b.size /\ d.len = b.len
  <2>1. b \in Buffers(b.len)
    BY <1>1 DEF IsBuffer
  <2>2. /\ d \in Buffers(b.len) /\ d.store = s
        /\ d.beg = b.beg /\ d.size = b.size /\ d.len = b.len
    BY <1>3, <2>1 DEF Buffers
  <2>3. SameKind(b, d) /\ (Ok(d) <=> Ok(b))
    BY <2>1 DEF Buffers, SameKind, Shifts, Fixed, Ok
  <2> HIDE DEF d
  <2> QED BY <1>1, <2>2, <2>3 DEF Good, IsBuffer, SameKind, max_size
<1> HIDE DEF d
<1>8. \A c \in Cells(at) : d.store[d.beg + c] = b.store[b.beg + c]
  BY <1>5, <1>7
<1>9. \A c \in Cells(n) : d.store[d.beg + at + c] = k + 1 + c
  BY <1>6, <1>7
<1> QED BY <1>2, <1>7, <1>8, <1>9

-----------------------------------------------------------------------------
(* Their calls through a dynbuf_io *)

\* A dynbuf_io over a good buffer, whose read area lies in the window
GoodIo(i) ==
  /\ i \in [buf : Buffers(i.buf.len), rd : Nat]
  /\ Good(i.buf)
  /\ i.rd <= i.buf.size

\* A buffer that can be consumed from
Consumable(b) == Fixed(b) => Shifts(b)

\* A shifting container has a quantum of room above a window of n bytes, and
\* every other buffer needs none
RoomFor(b, n) == Shifts(b) /\ ~Fixed(b) => n + Quantum <= b.max

\* The numbers of a good dynbuf_io.
LEMMA IoTypes ==
  ASSUME NEW i, GoodIo(i)
  PROVE  /\ IsBuffer(i.buf) /\ Good(i.buf)
         /\ i.buf.len \in Nat /\ i.buf.beg \in Nat /\ i.buf.size \in Nat
         /\ i.buf.max \in Nat /\ max_size(i.buf) \in Nat
         /\ i.buf.store \in [Cells(i.buf.len) -> Byte]
         /\ i.rd \in Nat /\ i.rd <= i.buf.size
         /\ i.buf.beg + i.buf.size <= i.buf.len
         /\ i.buf.size <= max_size(i.buf)
         /\ WriteArea(i) \in Nat /\ WriteArea(i) + i.rd = i.buf.size
<1>1. Good(i.buf) /\ IsBuffer(i.buf) /\ i.rd \in Nat /\ i.rd <= i.buf.size
  BY DEF GoodIo, Good
<1>2. /\ i.buf.len \in Nat /\ i.buf.beg \in Nat /\ i.buf.size \in Nat
      /\ i.buf.max \in Nat /\ max_size(i.buf) \in Nat
      /\ i.buf.store \in [Cells(i.buf.len) -> Byte]
  BY <1>1, FieldTypes
<1>3. i.buf.beg + i.buf.size <= i.buf.len /\ i.buf.len <= max_size(i.buf)
  BY <1>1 DEF Good
<1> QED BY <1>1, <1>2, <1>3 DEF WriteArea

\* Records of two fields, whatever their fields are.
LEMMA PairFacts ==
  ASSUME NEW S, NEW T, NEW i \in [buf : S, rd : Nat]
  PROVE  /\ \A b \in T : LET j == [i EXCEPT !.buf = b] IN
              j \in [buf : T, rd : Nat] /\ j.buf = b /\ j.rd = i.rd
         /\ \A n \in Nat : LET j == [i EXCEPT !.rd = n] IN
              j \in [buf : S, rd : Nat] /\ j.buf = i.buf /\ j.rd = n
         /\ \A b \in T, n \in Nat :
              [i EXCEPT !.buf = b, !.rd = n] = [[i EXCEPT !.rd = n] EXCEPT !.buf = b]
OBVIOUS

\* A dynbuf_io with another buffer around its read area
LEMMA WithBufFacts ==
  ASSUME NEW i, GoodIo(i), NEW b, Good(b), i.rd <= b.size
  PROVE  LET j == [i EXCEPT !.buf = b] IN
         GoodIo(j) /\ j.buf = b /\ j.rd = i.rd
<1>1. i \in [buf : Buffers(i.buf.len), rd : Nat] /\ b \in Buffers(b.len)
  BY DEF GoodIo, Good, IsBuffer
<1> DEFINE j == [i EXCEPT !.buf = b]
<1>2. j \in [buf : Buffers(b.len), rd : Nat] /\ j.buf = b /\ j.rd = i.rd
  BY <1>1, PairFacts
<1> HIDE DEF j
<1> QED BY <1>2 DEF GoodIo, j

\* A dynbuf_io with another read area in its buffer
LEMMA WithRdFacts ==
  ASSUME NEW i, GoodIo(i), NEW n \in Nat, n <= i.buf.size
  PROVE  LET j == [i EXCEPT !.rd = n] IN
         GoodIo(j) /\ j.buf = i.buf /\ j.rd = n
<1>1. i \in [buf : Buffers(i.buf.len), rd : Nat] /\ Good(i.buf)
  BY DEF GoodIo
<1> DEFINE j == [i EXCEPT !.rd = n]
<1>2. j \in [buf : Buffers(i.buf.len), rd : Nat] /\ j.buf = i.buf /\ j.rd = n
  BY <1>1, PairFacts
<1> HIDE DEF j
<1> QED BY <1>1, <1>2 DEF GoodIo, j

\* prepare() asks for no more than is missing, than the allocation cap and
\* than max_size() leave; and for as much as they do.
LEMMA GrowthFacts ==
  ASSUME NEW i, GoodIo(i), NEW n \in Nat
  PROVE  /\ PrepareGrowth(i, n) \in Nat
         /\ i.buf.size + PrepareGrowth(i, n) <= max_size(i.buf)
         /\ n <= WriteArea(i) => PrepareGrowth(i, n) = 0
         /\ n > WriteArea(i) =>
              /\ i.buf.size + PrepareGrowth(i, n) <= i.rd + n
              /\ WriteArea(i) + PrepareGrowth(i, n)
                   = Smaller(n, Smaller(max_size(i.buf) - i.rd,
                                        WriteArea(i) + MaxAlloc))
BY IoTypes, MaxAllocAssumption
   DEF PrepareGrowth, dynbuf_safe_grow_size, Smaller

\* prepare() keeps the window, and extends it by its growth unless the
\* assertion of the storage fires; with room for a quantum it does not.
LEMMA PrepareFacts ==
  ASSUME NEW i, GoodIo(i), Ok(i.buf), NEW n \in Nat
  PROVE  LET j == io_prepare(i, n)
             g == PrepareGrowth(i, n)
         IN /\ GoodIo(j) /\ SameKind(i.buf, j.buf) /\ j.rd = i.rd
            /\ Keeps(i.buf, 0, j.buf, i.buf.size)
            /\ j.buf.size = IF Ok(j.buf) THEN i.buf.size + g ELSE i.buf.size
            /\ max_size(j.buf) <= max_size(i.buf)
            /\ RoomFor(i.buf, i.buf.size + g) => Ok(j.buf)
<1> DEFINE j == io_prepare(i, n)
           g == PrepareGrowth(i, n)
           b == i.buf
           c == grow(b, g)
<1>1. /\ IsBuffer(b) /\ Good(b) /\ b.len \in Nat /\ b.beg \in Nat
      /\ b.size \in Nat /\ b.max \in Nat /\ max_size(b) \in Nat
      /\ i.rd \in Nat /\ i.rd <= b.size /\ b.len <= max_size(b)
  BY IoTypes DEF Good
<1>2. CASE n <= WriteArea(i)
  <2>1. j = i /\ g = 0
    BY <1>2 DEF io_prepare, PrepareGrowth
  <2>2. Keeps(b, 0, b, b.size)
    BY <1>1 DEF Keeps, Cells
  <2>3. SameKind(b, b)
    BY DEF SameKind
  <2> QED BY <1>1, <2>1, <2>2, <2>3
<1>3. CASE ~(n <= WriteArea(i))
  <2>1. j = [i EXCEPT !.buf = c]
    BY <1>3 DEF io_prepare
  <2>2. g \in Nat /\ g <= max_size(b) - b.size
    BY <1>1, GrowthFacts
  <2> HIDE DEF g
  <2>3. /\ Grew(b, c, g)
        /\ \/ b.size + g + Quantum <= max_size(b)
           \/ ~(Shifts(b) /\ ~Fixed(b)) /\ g <= max_size(b) - b.size
           => Ok(c)
    BY <1>1, <2>2, GrowFacts
  <2> HIDE DEF c, b, j
  <2>4. /\ Good(c) /\ SameKind(b, c) /\ Keeps(b, 0, c, b.size)
        /\ c.size = IF Ok(c) THEN b.size + g ELSE b.size
        /\ c.len > b.len => c.size > b.len
    BY <2>3 DEF Grew
  <2>5. c.len \in Nat /\ c.max \in Nat /\ c.size \in Nat
    BY <2>4, FieldTypes DEF Good
  <2>6. max_size(c) <= max_size(b)
    <3>1. CASE Fixed(b)
      <4>1. max_size(b) = b.len /\ max_size(c) = c.len
        BY <2>4, <3>1 DEF SameKind, max_size
      <4> QED BY <1>1, <2>2, <2>4, <2>5, <4>1
    <3>2. CASE ~Fixed(b)
      BY <1>1, <2>4, <3>2 DEF SameKind, max_size
    <3> QED BY <3>1, <3>2
  <2>7. RoomFor(b, b.size + g) => Ok(c)
    <3>1. ~Fixed(b) => max_size(b) = b.max
      BY DEF max_size
    <3> QED BY <2>2, <2>3, <3>1 DEF RoomFor
  <2>8. GoodIo(j) /\ j.buf = c /\ j.rd = i.rd
    <3>1. i.rd <= c.size
      BY <1>1, <2>2, <2>4 DEF b
    <3> QED BY <2>1, <2>4, <3>1, WithBufFacts
  <2> QED BY <2>1, <2>4, <2>6, <2>7, <2>8 DEF b, g, j
<1> QED BY <1>2, <1>3

\* prepare() that throws has at most moved the window.
LEMMA PrepareThrewFacts ==
  ASSUME NEW i, GoodIo(i), Ok(i.buf), NEW n \in Nat
  PROVE  LET j == [i EXCEPT !.buf = grow_threw(i.buf, n)] IN
         /\ GoodIo(j) /\ SameKind(i.buf, j.buf) /\ j.rd = i.rd
         /\ Keeps(i.buf, 0, j.buf, i.buf.size)
         /\ Ok(j.buf) /\ j.buf.size = i.buf.size /\ j.buf.len = i.buf.len
<1> DEFINE c == grow_threw(i.buf, n)
           j == [i EXCEPT !.buf = c]
<1>1. Good(i.buf) /\ i.rd <= i.buf.size
  BY IoTypes
<1>2. /\ Good(c) /\ SameKind(i.buf, c) /\ Keeps(i.buf, 0, c, i.buf.size)
      /\ Ok(c) /\ c.size = i.buf.size /\ c.len = i.buf.len
  BY <1>1, GrowThrewFacts
<1> HIDE DEF c
<1>3. GoodIo(j) /\ j.buf = c /\ j.rd = i.rd
  BY <1>1, <1>2, WithBufFacts
<1> QED BY <1>2, <1>3 DEF c

\* Storing a part of the stream in the window changes that part only.
LEMMA FilledFacts ==
  ASSUME NEW i, GoodIo(i), NEW at \in Nat, NEW n \in Nat, NEW k \in Nat,
         at + n <= i.buf.size, AreBytes(k, n)
  PROVE  LET j == Filled(i, at, n, k) IN
         /\ GoodIo(j) /\ SameKind(i.buf, j.buf) /\ j.rd = i.rd
         /\ (Ok(j.buf) <=> Ok(i.buf))
         /\ j.buf.beg = i.buf.beg /\ j.buf.size = i.buf.size
         /\ j.buf.len = i.buf.len
         /\ \A c \in Cells(at) :
              j.buf.store[j.buf.beg + c] = i.buf.store[i.buf.beg + c]
         /\ \A c \in Cells(n) : j.buf.store[j.buf.beg + at + c] = k + 1 + c
<1> DEFINE b == i.buf
           d == StreamStored(b, at, n, k)
           j == Filled(i, at, n, k)
<1>1. Good(b) /\ i.rd <= b.size
  BY IoTypes
<1>2. j = [i EXCEPT !.buf = d]
  BY DEF Filled, StreamStored
<1>3. /\ Good(d) /\ SameKind(b, d) /\ (Ok(d) <=> Ok(b))
      /\ d.beg = b.beg /\ d.size = b.size /\ d.len = b.len
      /\ \A c \in Cells(at) : d.store[d.beg + c] = b.store[b.beg + c]
      /\ \A c \in Cells(n) : d.store[d.beg + at + c] = k + 1 + c
  BY <1>1, StreamStoredFacts
<1> HIDE DEF d, j
<1>4. GoodIo(j) /\ j.buf = d /\ j.rd = i.rd
  BY <1>1, <1>2, <1>3, WithBufFacts
<1> QED BY <1>3, <1>4 DEF j

\* commit() of bytes of the write area turns them into bytes of the read area.
LEMMA CommitFacts ==
  ASSUME NEW i, GoodIo(i), NEW n \in Nat, n <= WriteArea(i)
  PROVE  LET j == io_commit(i, n) IN
         GoodIo(j) /\ j.buf = i.buf /\ j.rd = i.rd + n
<1>1. i.rd + n \in Nat /\ i.rd + n <= i.buf.size
  BY IoTypes
<1>2. io_commit(i, n) = [i EXCEPT !.rd = i.rd + n]
  BY DEF io_commit
<1> QED BY <1>1, <1>2, WithRdFacts

\* consume() drops bytes from the front of the read area.  The window of a
\* shifting buffer keeps its place unless nothing is left of it.
LEMMA ConsumeIoFacts ==
  ASSUME NEW i, GoodIo(i), Ok(i.buf), Consumable(i.buf),
         NEW n \in Nat, n <= i.rd
  PROVE  LET j == io_consume(i, n) IN
         /\ GoodIo(j) /\ SameKind(i.buf, j.buf) /\ j.rd = i.rd - n
         /\ Keeps(i.buf, n, j.buf, i.buf.size - n)
         /\ Ok(j.buf) /\ j.buf.size = i.buf.size - n
         /\ Shifts(i.buf) /\ j.buf.size > 0 => j.buf.beg = i.buf.beg + n
<1> DEFINE c == consume(i.buf, n)
           r == i.rd - n
           j == [i EXCEPT !.buf = c, !.rd = r]
<1>1. /\ IsBuffer(i.buf) /\ Good(i.buf) /\ i.buf.size \in Nat
      /\ i.buf.beg \in Nat /\ i.rd \in Nat /\ i.rd <= i.buf.size
  BY IoTypes
<1>2. ~Rejects(i.buf, n)
  BY <1>1 DEF Rejects, Consumable
<1>3. /\ Good(c) /\ SameKind(i.buf, c) /\ Keeps(i.buf, n, c, i.buf.size - n)
      /\ Ok(c) /\ c.size = i.buf.size - n
  BY <1>1, <1>2, ConsumeFacts
<1>4. Shifts(i.buf) /\ c.size > 0 => c.beg = i.buf.beg + n
  <2>1. i.buf.size - n \in Nat /\ i.buf.beg + n \in Nat /\ 0 \in Nat
    BY <1>1
  <2> DEFINE lo == i.buf.beg + n
             m == i.buf.size - n
  <2>2. Shifts(i.buf) => c = Narrowed(i.buf, lo, m)
    BY <1>2 DEF consume
  <2>3. lo \in Nat /\ m \in Nat /\ c.size = m
    BY <1>3, <2>1
  <2> HIDE DEF lo, m, c
  <2>4. m # 0 => Narrowed(i.buf, lo, m) = WithWindow(i.buf, lo, m)
    BY DEF Narrowed
  <2>5. WithWindow(i.buf, lo, m).beg = lo
    BY <1>1, <2>3, WithWindowFacts
  <2>6. Shifts(i.buf) /\ m > 0 => c.beg = lo
    BY <2>2, <2>3, <2>4, <2>5
  <2> QED BY <2>3, <2>6 DEF lo
<1>5. io_consume(i, n) = j
  BY DEF io_consume
<1> HIDE DEF c
<1>6. GoodIo(j) /\ j.buf = c /\ j.rd = r
  <2>1. r \in Nat /\ r <= c.size
    BY <1>1, <1>3
  <2> HIDE DEF r
  <2> DEFINE k == [i EXCEPT !.rd = r]
  <2>2. j = [k EXCEPT !.buf = c]
    <3>1. i \in [buf : Buffers(i.buf.len), rd : Nat] /\ c \in Buffers(c.len)
      BY <1>3 DEF GoodIo, Good, IsBuffer
    <3> QED BY <2>1, <3>1, PairFacts
  <2>3. GoodIo(k) /\ k.rd = r
    BY <1>1, <1>3, <2>1, WithRdFacts
  <2> HIDE DEF k, j
  <2> QED BY <1>3, <2>1, <2>2, <2>3, WithBufFacts
<1> HIDE DEF j
<1> QED BY <1>3, <1>4, <1>5, <1>6 DEF c

\* shrink_uncommitted() leaves the read area only.
LEMMA ShrinkUncommittedFacts ==
  ASSUME NEW i, GoodIo(i), Ok(i.buf), Consumable(i.buf)
  PROVE  LET j == io_shrink_uncommitted(i) IN
         /\ GoodIo(j) /\ SameKind(i.buf, j.buf) /\ j.rd = i.rd
         /\ Keeps(i.buf, 0, j.buf, i.rd)
         /\ Ok(j.buf) /\ j.buf.size = i.rd
<1> DEFINE n == i.buf.size - i.rd
           c == shrink(i.buf, n)
           j == [i EXCEPT !.buf = c]
<1>1. /\ Good(i.buf) /\ i.buf.size \in Nat /\ i.rd \in Nat
      /\ i.rd <= i.buf.size /\ n \in Nat /\ i.buf.size - n = i.rd
  BY IoTypes
<1>2. ~Rejects(i.buf, n)
  BY <1>1 DEF Rejects, Consumable
<1>3. io_shrink_uncommitted(i) = j
  BY <1>1 DEF io_shrink_uncommitted, dynbuf_resize
<1> HIDE DEF n
<1>4. /\ Good(c) /\ SameKind(i.buf, c) /\ Keeps(i.buf, 0, c, i.rd)
      /\ Ok(c) /\ c.size = i.rd
  BY <1>1, <1>2, ShrinkFacts
<1> HIDE DEF c
<1>5. GoodIo(j) /\ j.buf = c /\ j.rd = i.rd
  BY <1>1, <1>4, WithBufFacts
<1> QED BY <1>3, <1>4, <1>5

\* clear() leaves nothing.
LEMMA ClearFacts ==
  ASSUME NEW i, GoodIo(i), Ok(i.buf), Consumable(i.buf)
  PROVE  LET j == io_clear(i) IN
         /\ GoodIo(j) /\ SameKind(i.buf, j.buf)
         /\ Ok(j.buf) /\ j.rd = 0 /\ j.buf.size = 0
<1> DEFINE c == shrink(i.buf, i.buf.size)
           r == 0
           j == [i EXCEPT !.buf = c, !.rd = r]
<1>1. Good(i.buf) /\ i.buf.size \in Nat
  BY IoTypes
<1>2. ~Rejects(i.buf, i.buf.size)
  BY <1>1 DEF Rejects, Consumable
<1>3. Good(c) /\ SameKind(i.buf, c) /\ Ok(c) /\ c.size = 0
  BY <1>1, <1>2, ShrinkFacts
<1>4. io_clear(i) = j
  BY DEF io_clear, dynbuf_clear
<1> HIDE DEF c
<1>5. GoodIo(j) /\ j.buf = c /\ j.rd = r
  <2>1. r \in Nat /\ r <= c.size
    BY <1>3
  <2> HIDE DEF r
  <2> DEFINE k == [i EXCEPT !.rd = r]
  <2>2. j = [k EXCEPT !.buf = c]
    <3>1. i \in [buf : Buffers(i.buf.len), rd : Nat] /\ c \in Buffers(c.len)
      BY <1>3 DEF GoodIo, Good, IsBuffer
    <3> QED BY <2>1, <3>1, PairFacts
  <2>3. GoodIo(k) /\ k.rd = r
    BY <1>1, <1>3, <2>1, WithRdFacts
  <2> HIDE DEF k, j
  <2> QED BY <1>3, <2>1, <2>2, <2>3, WithBufFacts
<1> QED BY <1>3, <1>4, <1>5

\* The first n bytes of the window are the n bytes of the stream after the
\* first k
Holds(i, n, k) == \A c \in Cells(n) : i.buf.store[i.buf.beg + c] = k + c + 1

\* The bytes that a call keeps are still those of the stream.
LEMMA HoldsKept ==
  ASSUME NEW i, NEW j, GoodIo(i), GoodIo(j), NEW n \in Nat, NEW m \in Nat,
         NEW k \in Nat, Keeps(i.buf, k, j.buf, m), n <= m,
         NEW t \in Nat, Holds(i, k + n, t)
  PROVE  Holds(j, n, t + k)
<1> SUFFICES ASSUME NEW c \in Cells(n)
             PROVE  j.buf.store[j.buf.beg + c] = t + k + c + 1
  BY DEF Holds
<1>2. i.buf.beg \in Nat /\ j.buf.beg \in Nat
  BY IoTypes
<1>3. c \in Cells(m) /\ k + c \in Cells(k + n)
  BY DEF Cells
<1>4. j.buf.store[j.buf.beg + c] = i.buf.store[i.buf.beg + k + c]
  BY <1>3 DEF Keeps
<1> DEFINE d == k + c
<1>5. i.buf.beg + k + c = i.buf.beg + d /\ t + d + 1 = t + k + c + 1
  BY <1>2 DEF Cells
<1> HIDE DEF d
<1>6. i.buf.store[i.buf.beg + d] = t + d + 1
  BY <1>3 DEF Holds, d
<1> QED BY <1>4, <1>5, <1>6

\* Fewer bytes of the stream are still bytes of the stream.
LEMMA HoldsFewer ==
  ASSUME NEW i, NEW n \in Nat, NEW m \in Nat, m <= n, NEW k \in Nat, Holds(i, n, k)
  PROVE  Holds(i, m, k)
BY DEF Holds, Cells

\* Bytes of the stream stored behind those that are there continue it.
LEMMA FilledHolds ==
  ASSUME NEW i, GoodIo(i), NEW at \in Nat, NEW n \in Nat, at + n <= i.buf.size,
         NEW t \in Nat, AreBytes(t + at, n), Holds(i, at, t)
  PROVE  Holds(Filled(i, at, n, t + at), at + n, t)
<1> DEFINE k == t + at
           j == Filled(i, at, n, k)
<1>1. k \in Nat /\ i.buf.beg \in Nat /\ j = Filled(i, at, n, k) /\ k = t + at
  BY IoTypes
<1>2. AreBytes(k, n)
  OBVIOUS
<1> HIDE DEF j, k
<1>3. /\ j.buf.beg = i.buf.beg
      /\ \A c \in Cells(at) :
           j.buf.store[j.buf.beg + c] = i.buf.store[i.buf.beg + c]
      /\ \A c \in Cells(n) : j.buf.store[j.buf.beg + at + c] = k + 1 + c
  BY <1>1, <1>2, FilledFacts
<1>4. Holds(j, at + n, t)
  <2> SUFFICES ASSUME NEW c \in Cells(at + n)
               PROVE  j.buf.store[j.buf.beg + c] = t + c + 1
    BY DEF Holds
  <2>1. CASE c < at
    BY <1>3, <2>1 DEF Cells, Holds
  <2>2. CASE c >= at
    <3> DEFINE d == c - at
    <3>1. /\ d \in Cells(n) /\ j.buf.beg + at + d = j.buf.beg + c
          /\ k + 1 + d = t + c + 1
      BY <1>1, <1>3, <2>2 DEF Cells
    <3> HIDE DEF d
    <3> QED BY <1>3, <3>1
  <2> QED BY <2>1, <2>2 DEF Cells
<1> QED BY <1>4 DEF j, k

\* A read area that holds the stream is the queue of its bytes.
LEMMA QueueOf ==
  ASSUME NEW i, GoodIo(i), NEW n \in Nat, NEW t \in Nat, Holds(i, i.rd + n, t)
  PROVE  ReadArea(i) = [k \in 1..i.rd |-> t + k]
<1>1. i.rd \in Nat /\ i.buf.beg \in Nat
  BY IoTypes
<1>2. ASSUME NEW k \in 1..i.rd
      PROVE  i.buf.store[i.buf.beg + k - 1] = t + k
  <2> DEFINE c == k - 1
  <2>1. /\ c \in Cells(i.rd + n) /\ i.buf.beg + k - 1 = i.buf.beg + c
        /\ t + k = t + c + 1
    BY <1>1 DEF Cells
  <2> HIDE DEF c
  <2> QED BY <1>1, <2>1 DEF Holds
<1> QED BY <1>2 DEF ReadArea
=============================================================================
