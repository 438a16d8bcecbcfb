--------------------------- MODULE DynamicBuffer ---------------------------
(***************************************************************************)
(* One dynamic buffer and the user who calls it.  The user keeps the       *)
(* contract the assertions of the classes state (no growth past max_size,  *)
(* nothing dropped that is not there, a bare fixed buffer is never         *)
(* resized); an assertion that still fires comes from inside the library.  *)
(***************************************************************************)
EXTENDS DynBufOps, Sequences

CONSTANTS Kinds,      \* the pairs <<kind, storage>> to start from
          MaxSize,    \* max_size() of a container
          MaxWindow   \* bound: the largest window the user asks for

ASSUME KindsAssumption ==
  Kinds \subseteq {"bare", "shifting"} \X {"container", "fixed"}
ASSUME SizesAssumption == MaxSize \in Nat /\ MaxWindow \in 0..MaxSize

\* A container's max_size() leaves room for one quantum of growth above the
\* windows in use: true of std::string, whose max_size() is near 2^63
Headroom == MaxWindow + Quantum <= MaxSize

VARIABLE buf

\* Only a shifting buffer can be constructed with a window smaller than its
\* storage
Init ==
  \E kind \in Kinds, n \in 0..MaxWindow :
  \E store \in [Cells(n) -> Byte], size \in 0..n :
    /\ kind[1] = "shifting" \/ size = n
    /\ buf = Constructed(kind[1], kind[2], MaxSize, store, n, size)

\* A fixed buffer that does not shift accepts no change of its size
Resizable(n) == n = 0 \/ Shifts(buf) \/ ~Fixed(buf)

\* The growth stays under max_size() and under the bound of the model
MayGrow(n) == n <= max_size(buf) - buf.size /\ buf.size + n <= MaxWindow

Grow(n) ==
  /\ Ok(buf) /\ MayGrow(n)
  /\ buf' = grow(buf, n)

GrowThrows(n) ==
  /\ Ok(buf) /\ MayGrow(n)
  /\ NeedsMemory(buf, n)
  /\ buf' = grow_threw(buf, n)

\* The user may ask for more than the buffer can ever hold
SafeGrow(n) ==
  /\ Ok(buf)
  /\ buf.size + dynbuf_safe_grow_size(buf, n) <= MaxWindow
  /\ buf' = dynbuf_safe_grow(buf, n)

Shrink(n) ==
  /\ Ok(buf) /\ n <= buf.size /\ Resizable(n)
  /\ buf' = shrink(buf, n)

Consume(n) ==
  /\ Ok(buf) /\ n <= buf.size /\ Resizable(n)
  /\ buf' = consume(buf, n)

Clear ==
  /\ Ok(buf) /\ Resizable(buf.size)
  /\ buf' = dynbuf_clear(buf)

Resize(n) ==
  /\ Ok(buf) /\ Resizable(n - buf.size)
  /\ buf.size < n => MayGrow(n - buf.size)
  /\ buf' = dynbuf_resize(buf, n)

Poke(i, v) ==
  /\ Ok(buf) /\ i < buf.size
  /\ buf' = Poked(buf, i, v)

\* dynbuf_safe_grow is asked for up to one byte past every container
Next ==
  \/ \E n \in 0..MaxWindow : Grow(n) \/ GrowThrows(n) \/ Resize(n)
  \/ \E n \in 0..(MaxSize + 1) : SafeGrow(n)
  \/ \E n \in 0..buf.size : Shrink(n) \/ Consume(n)
  \/ Clear
  \/ \E i \in Cells(buf.size), v \in Byte : Poke(i, v)

Spec == Init /\ [][Next]_buf

-----------------------------------------------------------------------------
(* Properties *)

\* The buffer is a record of its type.
TypeOK == IsBuffer(buf)

\* The window lies inside the storage, the storage inside max_size(): no
\* data() call of a user's range leaves the container (as_dynamic_buffer.hpp,
\* shifting_dynamic_buffer.hpp).
WindowInStore ==
  /\ buf.beg + buf.size <= buf.len
  /\ buf.len <= max_size(buf)
  /\ ~Shifts(buf) => buf.beg = 0 /\ buf.size = buf.len

\* No assertion fires inside the library while the user keeps the contract.
NoAssertionFires == Ok(buf)

\* Whatever is grown, consumed and compacted, the storage of a shifting buffer
\* never exceeds the largest window asked for by more than one quantum: a
\* long-lived buffer does not leak the room it consumed.
StorageBounded == buf.len <= MaxWindow + Quantum

\* The storage grows only for a window that would not have fit in the old
\* storage: the room in front of the window is always used first.
StorageGrowsOnlyWhenFull == [][buf'.len > buf.len => buf'.size > buf.len]_buf

\* dynbuf_safe_grow grows by what it was asked for, and where that is too much
\* up to max_size() (dynamic_buffer.hpp:55-59).
SafeGrowGrows ==
  [][\A n \in 0..(MaxSize + 1) :
       SafeGrow(n) => buf'.size = Smaller(buf.size + n, max_size(buf))]_buf

\* Growing, shifting, throwing and dropping show only as the steps of a byte
\* window: no byte of the window is lost, moved or invented.
AbstractWindow == INSTANCE ByteWindow WITH win <- Window(buf)
ImplementsByteWindow == AbstractWindow!Spec

\* Each call takes the step of the window that it is named for, by the number of
\* bytes it was called with: whatever was consumed, compacted or thrown before,
\* grow() adds those and no more, and shrink() and consume() drop those and no
\* more (as_dynamic_buffer.hpp:91-133, shifting_dynamic_buffer.hpp:66-115,
\* dynamic_buffer.hpp:47-81).
CallsStepTheWindow ==
  [][Ok(buf') =>
       /\ \A n \in 0..MaxWindow :
            /\ Grow(n) => AbstractWindow!Extend(n)
            /\ GrowThrows(n) => UNCHANGED Window(buf)
            /\ Resize(n) => \/ AbstractWindow!Extend(n - buf.size)
                            \/ AbstractWindow!DropBack(buf.size - n)
       /\ \A n \in 0..(MaxSize + 1) :
            SafeGrow(n) => AbstractWindow!Extend(Smaller(n, max_size(buf) - buf.size))
       /\ \A n \in 0..buf.size :
            /\ Shrink(n) => AbstractWindow!DropBack(n)
            /\ Consume(n) => AbstractWindow!DropFront(n)
       /\ Clear => Window(buf') = << >>
       /\ \A i \in Cells(buf.size), v \in Byte :
            Poke(i, v) => AbstractWindow!Write(i + 1, v)]_buf
=============================================================================
