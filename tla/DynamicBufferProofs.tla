------------------------ MODULE DynamicBufferProofs ------------------------
(***************************************************************************)
(* The theorems about DynamicBuffer, for every set of bytes, quantum,      *)
(* max_size() and window.  The inductive invariant adds two bounds to the  *)
(* checked ones: the window's, which the user keeps, and the storage's,    *)
(* which follows from it and keeps the growth by a quantum under           *)
(* max_size().                                                             *)
(***************************************************************************)
EXTENDS DynamicBuffer, DynBufLemmas

IInv ==
  /\ Good(buf)
  /\ buf.max = MaxSize
  /\ buf.size <= MaxWindow
  /\ StorageBounded
  /\ Headroom => NoAssertionFires

\* The sizes are numbers.
LEMMA SizeTypes ==
  /\ MaxSize \in Nat /\ MaxWindow \in Nat /\ MaxWindow <= MaxSize
  /\ Quantum \in Nat /\ Quantum > 0
BY SizesAssumption, QuantumAssumption

\* Every construction satisfies the invariant.
LEMMA InitIInv == Init => IInv
<1> SUFFICES ASSUME Init PROVE IInv
  OBVIOUS
<1>1. PICK kind \in Kinds, n \in 0..MaxWindow :
      \E store \in [Cells(n) -> Byte], size \in 0..n :
        /\ kind[1] = "shifting" \/ size = n
        /\ buf = Constructed(kind[1], kind[2], MaxSize, store, n, size)
  BY DEF Init
<1>2. PICK store \in [Cells(n) -> Byte], size \in 0..n :
        /\ kind[1] = "shifting" \/ size = n
        /\ buf = Constructed(kind[1], kind[2], MaxSize, store, n, size)
  BY <1>1
<1>3. kind[1] \in {"bare", "shifting"} /\ kind[2] \in {"container", "fixed"}
  BY KindsAssumption
<1>4. /\ n \in Nat /\ n <= MaxWindow /\ size \in Nat /\ size <= n
      /\ 0 \in Nat
  BY SizeTypes
<1>5. /\ buf.kind = kind[1] /\ buf.storage = kind[2] /\ buf.max = MaxSize
      /\ buf.store = store /\ buf.len = n /\ buf.beg = 0 /\ buf.size = size
      /\ buf.status = "running"
  BY <1>2 DEF Constructed
<1>6. buf \in Buffers(n)
  BY <1>2, <1>3, <1>4, SizeTypes DEF Buffers, Constructed
<1>7. IsBuffer(buf)
  BY <1>4, <1>5, <1>6 DEF IsBuffer
<1>8. Good(buf)
  BY <1>2, <1>4, <1>5, <1>7, SizeTypes DEF Good, max_size, Shifts, Fixed
<1> QED BY <1>4, <1>5, <1>8, SizeTypes
           DEF IInv, StorageBounded, NoAssertionFires, Ok

-----------------------------------------------------------------------------
(* What each call does to the invariant and to the window *)

\* A growth within the contract
LEMMA GrowStep ==
  ASSUME IInv, Ok(buf), NEW n \in Nat, MayGrow(n), buf' = grow(buf, n)
  PROVE  IInv' /\ Grew(buf, buf', n)
<1>1. /\ Good(buf) /\ buf.size \in Nat /\ buf.len \in Nat /\ buf.max = MaxSize
      /\ buf.size <= MaxWindow /\ buf.len <= MaxWindow + Quantum
  BY FieldTypes DEF IInv, Good, StorageBounded
<1>2. /\ Grew(buf, buf', n)
      /\ \/ buf.size + n + Quantum <= max_size(buf)
         \/ ~(Shifts(buf) /\ ~Fixed(buf)) /\ n <= max_size(buf) - buf.size
         => Ok(buf')
  BY <1>1, GrowFacts
<1>3. buf.size + n <= MaxWindow /\ n <= max_size(buf) - buf.size
  BY DEF MayGrow
<1>4. /\ Good(buf') /\ buf'.max = MaxSize /\ buf'.size <= MaxWindow
      /\ buf'.len \in Nat
  BY <1>1, <1>2, <1>3, FieldTypes DEF Grew, SameKind, Good
<1>5. buf'.len <= MaxWindow + Quantum
  BY <1>1, <1>2, <1>3, <1>4, SizeTypes DEF Grew, Larger
<1>6. Headroom => Ok(buf')
  BY <1>1, <1>2, <1>3, SizeTypes DEF Headroom, max_size
<1> QED BY <1>2, <1>4, <1>5, <1>6
           DEF IInv, StorageBounded, NoAssertionFires

\* A call that keeps, or takes from, what the buffer holds
LEMMA OtherStep ==
  ASSUME IInv, Ok(buf), Good(buf'), SameKind(buf, buf'), Ok(buf'),
         buf'.size <= buf.size, buf'.len <= buf.len
  PROVE  IInv'
<1>1. /\ buf.size \in Nat /\ buf.len \in Nat /\ buf'.size \in Nat
      /\ buf'.len \in Nat /\ buf.size <= MaxWindow
      /\ buf.len <= MaxWindow + Quantum
  BY FieldTypes DEF IInv, Good, StorageBounded
<1>2. buf'.size <= MaxWindow /\ buf'.len <= MaxWindow + Quantum
  BY <1>1, SizeTypes
<1> QED BY <1>2 DEF IInv, SameKind, StorageBounded, NoAssertionFires

\* What a step does to the bytes of the window
WindowStep ==
  \/ buf'.size >= buf.size /\ Keeps(buf, 0, buf', buf.size)
  \/ \E n \in 0..buf.size :
       /\ buf'.size = buf.size - n
       /\ Keeps(buf, 0, buf', buf.size - n) \/ Keeps(buf, n, buf', buf.size - n)
  \/ \E i \in Cells(buf.size), v \in Byte : Ok(buf) /\ buf' = Poked(buf, i, v)

GrowthStep == buf'.len > buf.len => buf'.size > buf.len

\* grow(), with memory and without
LEMMA GrowAction ==
  ASSUME IInv, Ok(buf), NEW n \in Nat, MayGrow(n), buf' = grow(buf, n)
  PROVE  IInv' /\ WindowStep /\ GrowthStep
<1>1. IInv' /\ Grew(buf, buf', n)
  BY GrowStep
<1>2. buf.size \in Nat
  BY FieldTypes DEF IInv, Good
<1>3. buf'.size >= buf.size
  BY <1>1, <1>2 DEF Grew
<1> QED BY <1>1, <1>3 DEF Grew, WindowStep, GrowthStep

\* shrink()
LEMMA ShrinkAction ==
  ASSUME IInv, Ok(buf), NEW n \in Nat, ~Rejects(buf, n), buf' = shrink(buf, n)
  PROVE  IInv' /\ WindowStep /\ GrowthStep
<1>1. /\ Good(buf) /\ buf.size \in Nat /\ buf.len \in Nat /\ n <= buf.size
  BY FieldTypes DEF IInv, Good, Rejects
<1>2. /\ Good(buf') /\ SameKind(buf, buf') /\ Ok(buf')
      /\ Keeps(buf, 0, buf', buf.size - n)
      /\ buf'.size = buf.size - n /\ buf'.len <= buf.len
  BY <1>1, ShrinkFacts
<1>3. n \in 0..buf.size /\ buf'.size <= buf.size /\ buf'.len \in Nat
  BY <1>1, <1>2, FieldTypes DEF Good
<1>4. IInv'
  BY <1>2, <1>3, OtherStep
<1>5. WindowStep
  BY <1>2, <1>3 DEF WindowStep
<1>6. GrowthStep
  BY <1>1, <1>2, <1>3 DEF GrowthStep
<1> QED BY <1>4, <1>5, <1>6

\* consume()
LEMMA ConsumeAction ==
  ASSUME IInv, Ok(buf), NEW n \in Nat, ~Rejects(buf, n), buf' = consume(buf, n)
  PROVE  IInv' /\ WindowStep /\ GrowthStep
<1>1. /\ Good(buf) /\ buf.size \in Nat /\ buf.len \in Nat /\ n <= buf.size
  BY FieldTypes DEF IInv, Good, Rejects
<1>2. /\ Good(buf') /\ SameKind(buf, buf') /\ Ok(buf')
      /\ Keeps(buf, n, buf', buf.size - n)
      /\ buf'.size = buf.size - n /\ buf'.len <= buf.len
  BY <1>1, ConsumeFacts
<1>3. n \in 0..buf.size /\ buf'.size <= buf.size /\ buf'.len \in Nat
  BY <1>1, <1>2, FieldTypes DEF Good
<1>4. IInv'
  BY <1>2, <1>3, OtherStep
<1>5. WindowStep
  BY <1>2, <1>3 DEF WindowStep
<1>6. GrowthStep
  BY <1>1, <1>2, <1>3 DEF GrowthStep
<1> QED BY <1>4, <1>5, <1>6

\* Every step preserves the invariant, shows as a step of the window, and
\* grows the storage only for a window that did not fit.
LEMMA NextAction ==
  ASSUME IInv, Next
  PROVE  IInv' /\ WindowStep /\ GrowthStep
<1>1. /\ Good(buf) /\ buf.size \in Nat /\ buf.len \in Nat /\ buf.beg \in Nat
      /\ max_size(buf) \in Nat /\ buf.size <= max_size(buf)
      /\ Fixed(buf) /\ ~Shifts(buf) => buf.size = max_size(buf)
  BY FieldTypes DEF IInv, Good, max_size
<1>2. ASSUME NEW n \in 0..MaxWindow, Grow(n) PROVE IInv' /\ WindowStep /\ GrowthStep
  BY <1>2, GrowAction, SizeTypes DEF Grow
<1>3. ASSUME NEW n \in 0..MaxWindow, GrowThrows(n)
      PROVE  IInv' /\ WindowStep /\ GrowthStep
  <2>1. Ok(buf) /\ n \in Nat /\ buf' = grow_threw(buf, n)
    BY <1>3, SizeTypes DEF GrowThrows
  <2>2. /\ Good(buf') /\ SameKind(buf, buf') /\ Keeps(buf, 0, buf', buf.size)
        /\ Ok(buf') /\ buf'.size = buf.size /\ buf'.len = buf.len
    BY <1>1, <2>1, GrowThrewFacts
  <2>3. IInv'
    BY <1>1, <2>1, <2>2, OtherStep
  <2> QED BY <1>1, <2>2, <2>3 DEF WindowStep, GrowthStep
<1>4. ASSUME NEW n \in 0..(MaxSize + 1), SafeGrow(n)
      PROVE  IInv' /\ WindowStep /\ GrowthStep
  <2> DEFINE m == dynbuf_safe_grow_size(buf, n)
  <2>1. /\ m \in Nat /\ m <= max_size(buf) - buf.size
    BY <1>1, SizeTypes DEF dynbuf_safe_grow_size, Smaller
  <2>2. /\ Ok(buf) /\ buf.size + m <= MaxWindow
        /\ buf' = grow(buf, m)
    BY <1>4 DEF SafeGrow, dynbuf_safe_grow
  <2> HIDE DEF m
  <2>3. MayGrow(m)
    BY <2>1, <2>2 DEF MayGrow
  <2> QED BY <2>1, <2>2, <2>3, GrowAction
<1>5. ASSUME NEW n \in 0..buf.size, Shrink(n)
      PROVE  IInv' /\ WindowStep /\ GrowthStep
  BY <1>1, <1>5, ShrinkAction DEF Shrink, Resizable, Rejects
<1>6. ASSUME NEW n \in 0..buf.size, Consume(n)
      PROVE  IInv' /\ WindowStep /\ GrowthStep
  BY <1>1, <1>6, ConsumeAction DEF Consume, Resizable, Rejects
<1>7. CASE Clear
  BY <1>1, <1>7, ShrinkAction DEF Clear, dynbuf_clear, Resizable, Rejects
<1>8. ASSUME NEW n \in 0..MaxWindow, Resize(n)
      PROVE  IInv' /\ WindowStep /\ GrowthStep
  <2>1. CASE buf.size < n
    <3>1. /\ n - buf.size \in Nat /\ MayGrow(n - buf.size) /\ Ok(buf)
          /\ buf' = grow(buf, n - buf.size)
      BY <1>1, <1>8, <2>1, SizeTypes DEF Resize, dynbuf_resize
    <3> QED BY <3>1, GrowAction
  <2>2. CASE ~(buf.size < n)
    <3> DEFINE m == buf.size - n
    <3>1. /\ m \in Nat /\ m <= buf.size /\ Ok(buf) /\ buf' = shrink(buf, m)
          /\ m = 0 \/ Shifts(buf) \/ ~Fixed(buf)
      BY <1>1, <1>8, <2>2, SizeTypes DEF Resize, dynbuf_resize, Resizable
    <3>2. ~Rejects(buf, m)
      BY <1>1, <3>1 DEF Rejects
    <3> QED BY <3>1, <3>2, ShrinkAction
  <2> QED BY <2>1, <2>2
<1>9. ASSUME NEW i \in Cells(buf.size), NEW v \in Byte, Poke(i, v)
      PROVE  IInv' /\ WindowStep /\ GrowthStep
  <2>1. Ok(buf) /\ buf' = Poked(buf, i, v)
    BY <1>9 DEF Poke
  <2>2. /\ Good(buf') /\ SameKind(buf, buf') /\ Ok(buf')
        /\ buf'.size = buf.size /\ buf'.len = buf.len
    BY <1>1, <2>1, PokedFacts
  <2>3. IInv'
    BY <1>1, <2>1, <2>2, OtherStep
  <2> QED BY <1>1, <2>1, <2>2, <2>3 DEF WindowStep, GrowthStep
<1> QED BY <1>2, <1>3, <1>4, <1>5, <1>6, <1>7, <1>8, <1>9 DEF Next

-----------------------------------------------------------------------------
(* The theorems *)

\* The strengthened invariant holds in every reachable state.
THEOREM Invariance == Spec => []IInv
<1>1. IInv /\ UNCHANGED buf => IInv'
  BY DEF IInv, StorageBounded, NoAssertionFires
<1>2. IInv /\ [Next]_buf => IInv'
  BY <1>1, NextAction
<1> QED BY InitIInv, <1>2, PTL DEF Spec

\* The buffer has its type (as_dynamic_buffer.hpp, fixed_dynamic_buffer.hpp,
\* shifting_dynamic_buffer.hpp).
THEOREM TypeCorrect == Spec => []TypeOK
<1>1. IInv => TypeOK
  BY DEF IInv, Good, TypeOK
<1> QED BY <1>1, Invariance, PTL

\* No call leaves a window that reaches outside the storage.
THEOREM WindowSafe == Spec => []WindowInStore
<1>1. IInv => WindowInStore
  BY DEF IInv, Good, WindowInStore
<1> QED BY <1>1, Invariance, PTL

\* The storage stays within a quantum of the largest window, forever.
THEOREM StorageSafe == Spec => []StorageBounded
<1>1. IInv => StorageBounded
  BY DEF IInv
<1> QED BY <1>1, Invariance, PTL

\* With a quantum of headroom under max_size(), no assertion of the library
\* ever fires for a user who keeps the contract.
THEOREM AssertionSafe ==
  ASSUME Headroom
  PROVE  Spec => []NoAssertionFires
<1>1. IInv => NoAssertionFires
  BY DEF IInv
<1> QED BY <1>1, Invariance, PTL

\* The storage grows only for a window that did not fit in it.
THEOREM GrowthLazy == Spec => StorageGrowsOnlyWhenFull
<1>1. IInv /\ [Next]_buf => [buf'.len > buf.len => buf'.size > buf.len]_buf
  BY NextAction DEF GrowthStep
<1> QED BY <1>1, Invariance, PTL DEF Spec, StorageGrowsOnlyWhenFull

-----------------------------------------------------------------------------
(* The refinement *)

\* The window of a buffer is a sequence of bytes, cell by cell.
LEMMA WindowSeq ==
  ASSUME NEW b, Good(b)
  PROVE  /\ Window(b) \in Seq(Byte) /\ Len(Window(b)) = b.size
         /\ b.size \in Nat
         /\ Window(b) = [i \in 1..b.size |-> b.store[b.beg + i - 1]]
<1>1. /\ b.len \in Nat /\ b.beg \in Nat /\ b.size \in Nat
      /\ b.store \in [Cells(b.len) -> Byte] /\ b.beg + b.size <= b.len
  BY FieldTypes DEF Good
<1>2. \A i \in 1..b.size : b.store[b.beg + i - 1] \in Byte
  BY SMTT(30), <1>1 DEF Cells
<1> QED BY <1>1, <1>2 DEF Window

\* Keeps, told of the windows as sequences.
LEMMA KeepsWindow ==
  ASSUME NEW b, NEW c, Good(b), Good(c), NEW n \in Nat, NEW m \in Nat,
         m <= c.size, m + n <= b.size, Keeps(b, n, c, m)
  PROVE  \A i \in 1..m : Window(c)[i] = Window(b)[i + n]
<1>1. TAKE i \in 1..m
<1> DEFINE k == i - 1
<1>2. /\ b.beg \in Nat /\ c.beg \in Nat /\ b.size \in Nat /\ c.size \in Nat
  BY FieldTypes DEF Good
<1>3. /\ k \in Cells(m) /\ i \in 1..c.size /\ i + n \in 1..b.size
      /\ c.beg + i - 1 = c.beg + k /\ b.beg + (i + n) - 1 = b.beg + n + k
  BY <1>2 DEF Cells
<1> HIDE DEF k
<1>4. c.store[c.beg + k] = b.store[b.beg + n + k]
  BY <1>3 DEF Keeps
<1> QED BY <1>3, <1>4 DEF Window

\* A window that keeps all of another extends it.
LEMMA ExtendedWindow ==
  ASSUME NEW b, NEW c, Good(b), Good(c), c.size >= b.size,
         Keeps(b, 0, c, b.size)
  PROVE  /\ Window(c) \in Seq(Byte) /\ Len(Window(c)) >= Len(Window(b))
         /\ \A i \in 1..Len(Window(b)) : Window(c)[i] = Window(b)[i]
<1>1. /\ Window(c) \in Seq(Byte) /\ Len(Window(c)) = c.size
      /\ Len(Window(b)) = b.size /\ b.size \in Nat
  BY WindowSeq
<1>2. b.size <= c.size /\ b.size + 0 <= b.size /\ 0 \in Nat
  BY <1>1, WindowSeq
<1>3. \A i \in 1..b.size : Window(c)[i] = Window(b)[i + 0]
  BY <1>1, <1>2, KeepsWindow
<1>4. \A i \in 1..b.size : i + 0 = i
  BY <1>1
<1>5. \A i \in 1..b.size : Window(c)[i] = Window(b)[i]
  BY <1>3, <1>4
<1> QED BY <1>1, <1>2, <1>5

\* A window that keeps all but n bytes of another, from offset k on.
LEMMA NarrowedWindow ==
  ASSUME NEW b, NEW c, Good(b), Good(c), NEW n \in Nat, n <= b.size,
         c.size = b.size - n, NEW k \in Nat, k <= n, Keeps(b, k, c, b.size - n)
  PROVE  Window(c) = [i \in 1..(Len(Window(b)) - n) |-> Window(b)[i + k]]
<1> DEFINE m == b.size - n
<1>1. /\ Len(Window(b)) = b.size /\ b.size \in Nat
      /\ Window(c) = [i \in 1..c.size |-> c.store[c.beg + i - 1]]
  BY WindowSeq
<1>2. m \in Nat /\ m <= c.size /\ m + k <= b.size /\ c.size = m
  BY <1>1
<1> HIDE DEF m
<1>3. Keeps(b, k, c, m)
  BY DEF m
<1>4. \A i \in 1..m : Window(c)[i] = Window(b)[i + k]
  BY <1>2, <1>3, KeepsWindow
<1>5. Len(Window(b)) - n = m
  BY <1>1 DEF m
<1>6. Window(c) = [i \in 1..m |-> Window(c)[i]]
  BY <1>1, <1>2
<1>7. [i \in 1..m |-> Window(c)[i]] = [i \in 1..m |-> Window(b)[i + k]]
  BY <1>4
<1> QED BY <1>5, <1>6, <1>7

\* Storing a byte in the window.
LEMMA PokedWindow ==
  ASSUME NEW b, Good(b), Ok(b), NEW i \in Cells(b.size), NEW x \in Byte
  PROVE  /\ i + 1 \in 1..Len(Window(b))
         /\ Window(Poked(b, i, x)) = [Window(b) EXCEPT ![i + 1] = x]
<1> DEFINE c == Poked(b, i, x)
<1>1. /\ b.len \in Nat /\ b.beg \in Nat /\ b.size \in Nat
      /\ b.store \in [Cells(b.len) -> Byte] /\ b.beg + b.size <= b.len
      /\ Len(Window(b)) = b.size
      /\ Window(b) = [j \in 1..b.size |-> b.store[b.beg + j - 1]]
  BY FieldTypes, WindowSeq DEF Good
<1>2. /\ c.beg = b.beg /\ c.size = b.size
      /\ c.store = [b.store EXCEPT ![b.beg + i] = x]
  BY PokedFacts
<1> HIDE DEF c
<1>3. Window(c) = [j \in 1..b.size |-> c.store[b.beg + j - 1]]
  BY <1>2 DEF Window
<1>4. ASSUME NEW j \in 1..b.size
      PROVE  c.store[b.beg + j - 1]
             = IF j = i + 1 THEN x ELSE b.store[b.beg + j - 1]
  <2>1. b.beg + j - 1 \in Cells(b.len)
    BY SMTT(30), <1>1 DEF Cells
  <2>2. b.beg + j - 1 = b.beg + i <=> j = i + 1
    BY <1>1 DEF Cells
  <2> QED BY <1>1, <1>2, <2>1, <2>2
<1>5. i + 1 \in 1..b.size
  BY <1>1 DEF Cells
<1>6. Window(c) = [Window(b) EXCEPT ![i + 1] = x]
  BY <1>1, <1>3, <1>4, <1>5
<1> QED BY <1>1, <1>5, <1>6 DEF c

\* A step of the buffer is a step of its window.
LEMMA StepRefines ==
  ASSUME IInv, IInv', WindowStep
  PROVE  AbstractWindow!Next
<1>1. Good(buf) /\ Good(buf') /\ buf.size \in Nat
  BY FieldTypes DEF IInv, Good
<1>2. CASE buf'.size >= buf.size /\ Keeps(buf, 0, buf', buf.size)
  <2>1. AbstractWindow!Extend(Len(Window(buf')) - Len(Window(buf)))
    BY <1>1, <1>2, ExtendedWindow DEF AbstractWindow!Extend
  <2> QED BY <2>1 DEF AbstractWindow!Next
<1>3. ASSUME NEW n \in 0..buf.size, buf'.size = buf.size - n,
             Keeps(buf, 0, buf', buf.size - n)
      PROVE  \E m \in 0..Len(Window(buf)) : AbstractWindow!DropBack(m)
  <2>1. n \in Nat /\ n <= buf.size /\ 0 <= n /\ Len(Window(buf)) = buf.size
    BY <1>1, WindowSeq
  <2>2. Window(buf') = [i \in 1..(Len(Window(buf)) - n) |-> Window(buf)[i + 0]]
    BY <1>1, <1>3, <2>1, NarrowedWindow
  <2>3. \A i \in 1..(Len(Window(buf)) - n) : i + 0 = i
    BY <1>1, <2>1
  <2>4. Window(buf') = [i \in 1..(Len(Window(buf)) - n) |-> Window(buf)[i]]
    BY <2>2, <2>3
  <2> QED BY <2>1, <2>4 DEF AbstractWindow!DropBack
<1>4. ASSUME NEW n \in 0..buf.size, buf'.size = buf.size - n,
             Keeps(buf, n, buf', buf.size - n)
      PROVE  \E m \in 0..Len(Window(buf)) : AbstractWindow!DropFront(m)
  <2>1. n \in Nat /\ n <= buf.size /\ n <= n /\ Len(Window(buf)) = buf.size
    BY <1>1, WindowSeq
  <2>2. Window(buf') = [i \in 1..(Len(Window(buf)) - n) |-> Window(buf)[i + n]]
    BY <1>1, <1>4, <2>1, NarrowedWindow
  <2> QED BY <2>1, <2>2 DEF AbstractWindow!DropFront
<1>5. ASSUME NEW i \in Cells(buf.size), NEW x \in Byte, Ok(buf),
             buf' = Poked(buf, i, x)
      PROVE  \E j \in 1..Len(Window(buf)) : AbstractWindow!Write(j, x)
  <2>1. /\ i + 1 \in 1..Len(Window(buf))
        /\ Window(buf') = [Window(buf) EXCEPT ![i + 1] = x]
    BY <1>1, <1>5, PokedWindow
  <2> QED BY <2>1 DEF AbstractWindow!Write
<1> QED BY <1>2, <1>3, <1>4, <1>5 DEF WindowStep, AbstractWindow!Next

\* A dynamic buffer of any class implements the byte window: growing,
\* compacting and throwing lose, move and invent no byte of it.
THEOREM Refinement == Spec => ImplementsByteWindow
<1>1. Init => AbstractWindow!Init
  BY InitIInv, WindowSeq DEF IInv, AbstractWindow!Init
<1>2. IInv /\ IInv' /\ [Next]_buf => [AbstractWindow!Next]_(Window(buf))
  BY NextAction, StepRefines
<1> QED BY <1>1, <1>2, Invariance, PTL
        DEF Spec, ImplementsByteWindow, AbstractWindow!Spec

\* grow() appends as many bytes as it was told to.
LEMMA GrowShows ==
  ASSUME IInv, Ok(buf), Ok(buf'), NEW n \in Nat, MayGrow(n), buf' = grow(buf, n)
  PROVE  AbstractWindow!Extend(n)
<1>1. /\ IInv' /\ Grew(buf, buf', n) /\ Good(buf) /\ Good(buf')
  BY GrowStep DEF IInv
<1>2. /\ buf'.size = buf.size + n /\ Keeps(buf, 0, buf', buf.size)
      /\ buf.size \in Nat
  BY <1>1, FieldTypes DEF Grew, Good
<1>3. /\ Len(Window(buf)) = buf.size /\ Len(Window(buf')) = buf'.size
      /\ buf'.size >= buf.size
  BY <1>1, <1>2, WindowSeq
<1>4. /\ Window(buf') \in Seq(Byte)
      /\ \A i \in 1..Len(Window(buf)) : Window(buf')[i] = Window(buf)[i]
  BY <1>1, <1>2, <1>3, ExtendedWindow
<1> QED BY <1>2, <1>3, <1>4 DEF AbstractWindow!Extend

\* shrink() drops as many bytes from the back as it was told to.
LEMMA ShrinkShows ==
  ASSUME IInv, Ok(buf), NEW n \in Nat, ~Rejects(buf, n), buf' = shrink(buf, n)
  PROVE  AbstractWindow!DropBack(n)
<1>1. /\ Good(buf) /\ buf.size \in Nat /\ n <= buf.size /\ Len(Window(buf)) = buf.size
  BY FieldTypes, WindowSeq DEF IInv, Good, Rejects
<1>2. /\ Good(buf') /\ Keeps(buf, 0, buf', buf.size - n) /\ buf'.size = buf.size - n
  BY <1>1, ShrinkFacts
<1>3. Window(buf') = [i \in 1..(Len(Window(buf)) - n) |-> Window(buf)[i + 0]]
  BY <1>1, <1>2, NarrowedWindow
<1>4. \A i \in 1..(Len(Window(buf)) - n) : i + 0 = i
  BY <1>1
<1>5. Window(buf') = [i \in 1..(Len(Window(buf)) - n) |-> Window(buf)[i]]
  BY <1>3, <1>4
<1> QED BY <1>1, <1>5 DEF AbstractWindow!DropBack

\* consume() drops as many bytes from the front as it was told to.
LEMMA ConsumeShows ==
  ASSUME IInv, Ok(buf), NEW n \in Nat, ~Rejects(buf, n), buf' = consume(buf, n)
  PROVE  AbstractWindow!DropFront(n)
<1>1. /\ Good(buf) /\ buf.size \in Nat /\ n <= buf.size /\ Len(Window(buf)) = buf.size
  BY FieldTypes, WindowSeq DEF IInv, Good, Rejects
<1>2. /\ Good(buf') /\ Keeps(buf, n, buf', buf.size - n) /\ buf'.size = buf.size - n
  BY <1>1, ConsumeFacts
<1>3. Window(buf') = [i \in 1..(Len(Window(buf)) - n) |-> Window(buf)[i + n]]
  BY <1>1, <1>2, NarrowedWindow
<1> QED BY <1>1, <1>3 DEF AbstractWindow!DropFront

\* A growth that throws shows nothing.
LEMMA GrowThrewShows ==
  ASSUME IInv, Ok(buf), NEW n \in Nat, buf' = grow_threw(buf, n)
  PROVE  UNCHANGED Window(buf)
<1>1. /\ Good(buf) /\ buf.size \in Nat /\ 0 \in Nat /\ 0 <= buf.size /\ 0 <= 0
      /\ buf.size - 0 = buf.size
  BY FieldTypes DEF IInv, Good
<1>2. Good(buf') /\ Keeps(buf, 0, buf', buf.size - 0) /\ buf'.size = buf.size - 0
  BY <1>1, GrowThrewFacts
<1>3. Window(buf') = [i \in 1..(Len(Window(buf)) - 0) |-> Window(buf)[i + 0]]
  BY <1>1, <1>2, NarrowedWindow
<1>4. /\ Len(Window(buf)) = buf.size /\ Window(buf) \in Seq(Byte)
      /\ \A i \in 1..buf.size : i + 0 = i
  BY <1>1, WindowSeq
<1> QED BY <1>1, <1>3, <1>4

\* Every call takes its step of the window, by the number of bytes it is called
\* with: growing adds no byte more, shrinking and consuming drop none more
\* (as_dynamic_buffer.hpp:91-133, shifting_dynamic_buffer.hpp:66-115).
THEOREM CallsAreExact == Spec => CallsStepTheWindow
<1> DEFINE Calls ==
      Ok(buf') =>
        /\ \A n \in 0..MaxWindow :
             /\ Grow(n) => AbstractWindow!Extend(n)
             /\ GrowThrows(n) => UNCHANGED Window(buf)
             /\ Resize(n) => \/ AbstractWindow!Extend(n - buf.size)
                             \/ AbstractWindow!DropBack(buf.size - n)
        /\ \A n \in 0..(MaxSize + 1) :
             SafeGrow(n) => AbstractWindow!Extend(Smaller(n, max_size(buf) - buf.size))
        /\ \A n \in 0..buf.size :
             /\ Shrink(n) => AbstractWindow!DropBack(n)
             /\ Consume(n) => AbstractWindow!DropFront(n)
        /\ Clear => Window(buf') = << >>
        /\ \A i \in Cells(buf.size), v \in Byte :
             Poke(i, v) => AbstractWindow!Write(i + 1, v)
<1>1. IInv => Calls
  <2> SUFFICES ASSUME IInv, Ok(buf') PROVE Calls
    OBVIOUS
  <2>1. /\ Good(buf) /\ buf.size \in Nat /\ max_size(buf) \in Nat
        /\ buf.size <= max_size(buf) /\ Len(Window(buf)) = buf.size
        /\ Fixed(buf) /\ ~Shifts(buf) => buf.size = max_size(buf)
    BY FieldTypes, WindowSeq DEF IInv, Good, max_size
  <2>2. ASSUME NEW n \in 0..MaxWindow, Grow(n) PROVE AbstractWindow!Extend(n)
    BY <2>2, GrowShows, SizeTypes DEF Grow
  <2>3. ASSUME NEW n \in 0..MaxWindow, GrowThrows(n) PROVE UNCHANGED Window(buf)
    BY <2>3, GrowThrewShows, SizeTypes DEF GrowThrows
  <2>4. ASSUME NEW n \in 0..MaxWindow, Resize(n)
        PROVE  \/ AbstractWindow!Extend(n - buf.size)
               \/ AbstractWindow!DropBack(buf.size - n)
    <3>1. CASE buf.size < n
      <4>1. /\ n - buf.size \in Nat /\ MayGrow(n - buf.size) /\ Ok(buf)
            /\ buf' = grow(buf, n - buf.size)
        BY <2>1, <2>4, <3>1, SizeTypes DEF Resize, dynbuf_resize
      <4> QED BY <4>1, GrowShows
    <3>2. CASE ~(buf.size < n)
      <4> DEFINE m == buf.size - n
      <4>1. /\ m \in Nat /\ m <= buf.size /\ Ok(buf) /\ buf' = shrink(buf, m)
            /\ m = 0 \/ Shifts(buf) \/ ~Fixed(buf)
        BY <2>1, <2>4, <3>2, SizeTypes DEF Resize, dynbuf_resize, Resizable
      <4>2. ~Rejects(buf, m)
        BY <2>1, <4>1 DEF Rejects
      <4> QED BY <4>1, <4>2, ShrinkShows
    <3> QED BY <3>1, <3>2
  <2>5. ASSUME NEW n \in 0..(MaxSize + 1), SafeGrow(n)
        PROVE  AbstractWindow!Extend(Smaller(n, max_size(buf) - buf.size))
    <3> DEFINE m == Smaller(n, max_size(buf) - buf.size)
    <3>1. m \in Nat /\ m <= max_size(buf) - buf.size
      BY <2>1, SizeTypes DEF Smaller
    <3>2. Ok(buf) /\ buf.size + m <= MaxWindow /\ buf' = grow(buf, m)
      BY <2>5 DEF SafeGrow, dynbuf_safe_grow, dynbuf_safe_grow_size
    <3> HIDE DEF m
    <3>3. MayGrow(m)
      BY <3>1, <3>2 DEF MayGrow
    <3>4. AbstractWindow!Extend(m)
      BY <3>1, <3>2, <3>3, GrowShows
    <3> QED BY <3>4 DEF m
  <2>6. ASSUME NEW n \in 0..buf.size, Shrink(n) PROVE AbstractWindow!DropBack(n)
    BY <2>1, <2>6, ShrinkShows DEF Shrink, Resizable, Rejects
  <2>7. ASSUME NEW n \in 0..buf.size, Consume(n) PROVE AbstractWindow!DropFront(n)
    BY <2>1, <2>7, ConsumeShows DEF Consume, Resizable, Rejects
  <2>8. ASSUME Clear PROVE Window(buf') = << >>
    <3>1. AbstractWindow!DropBack(buf.size)
      BY <2>1, <2>8, ShrinkShows DEF Clear, dynbuf_clear, Resizable, Rejects
    <3> QED BY <2>1, <3>1 DEF AbstractWindow!DropBack
  <2>9. ASSUME NEW i \in Cells(buf.size), NEW v \in Byte, Poke(i, v)
        PROVE  AbstractWindow!Write(i + 1, v)
    BY <2>1, <2>9, PokedWindow DEF Poke, AbstractWindow!Write
  <2> QED BY <2>2, <2>3, <2>4, <2>5, <2>6, <2>7, <2>8, <2>9
<1>2. IInv /\ [Next]_buf => [Calls]_buf
  BY <1>1
<1> HIDE DEF Calls
<1>3. [][Calls]_buf <=> CallsStepTheWindow
  BY DEF Calls, CallsStepTheWindow
<1> QED BY <1>2, <1>3, Invariance, PTL DEF Spec
=============================================================================
