----------------------------- MODULE DynBufOps -----------------------------
(***************************************************************************)
(* The dynamic buffers of the library as values.  A buffer is a record,    *)
(* and an operation of the C++ class is an operator from the buffer before *)
(* the call to the buffer after it.  The machines of this project          *)
(* (DynamicBuffer, DynbufIO, IostreamSink, ...) hold such records in their *)
(* variables and compose the operators the way the code composes calls.    *)
(*                                                                         *)
(* Four classes share the record:                                          *)
(*   kind       storage                                                    *)
(*   "bare"     "container" dynamic_buffer_byte_container_adaptor          *)
(*   "bare"     "fixed"     fixed_dynamic_buffer                           *)
(*   "shifting" "container" shifting_dynamic_buffer over the adaptor       *)
(*   "shifting" "fixed"     shifting_dynamic_buffer over a fixed buffer    *)
(* store and len are the backing container and its size, max the           *)
(* container's max_size(); beg and size are _beg_idx and _size (a buffer   *)
(* that does not shift has beg = 0 and size = len).  A neo_assert that     *)
(* fires ends the program: status becomes "aborted" and nothing else       *)
(* changes.                                                                *)
(***************************************************************************)
EXTENDS ByteStore

CONSTANTS Byte,     \* the values a cell of a buffer can hold
          Blank,    \* the byte that container.resize() appends
          Quantum   \* the least growth of a shifting buffer's storage (1024)

ASSUME BlankAssumption == Blank \in Byte
ASSUME QuantumAssumption == Quantum \in Nat \ {0}

\* The buffers whose storage has n bytes
Buffers(n) ==
  [kind : {"bare", "shifting"}, storage : {"container", "fixed"}, max : Nat,
   store : [Cells(n) -> Byte], len : {n}, beg : Nat, size : Nat,
   status : {"running", "aborted"}]

IsBuffer(b) == b.len \in Nat /\ b \in Buffers(b.len)

\* A buffer constructed around storage that already holds bytes: the window
\* is the whole storage, or its first bytes with the second constructor of
\* shifting_dynamic_buffer
Constructed(kind, storage, max, store, len, size) ==
  [kind |-> kind, storage |-> storage, max |-> max, store |-> store,
   len |-> len, beg |-> 0, size |-> size, status |-> "running"]

-----------------------------------------------------------------------------
(* Queries *)

Shifts(b) == b.kind = "shifting"
Fixed(b)  == b.storage = "fixed"
Ok(b)     == b.status = "running"

max_size(b) == IF Fixed(b) THEN b.len ELSE b.max

\* avail_room of shifting_dynamic_buffer::grow
TailRoom(b) == b.len - (b.beg + b.size)

\* data(0, size()) as a sequence: what the users of the buffer see
Window(b) == [i \in 1..b.size |-> b.store[b.beg + i - 1]]

dynbuf_safe_grow_size(b, want) == Smaller(want, max_size(b) - b.size)

-----------------------------------------------------------------------------
(* The storage *)

Asserted(b) == [b EXCEPT !.status = "aborted"]

WithStorage(b, store, len) == [b EXCEPT !.store = store, !.len = len]

WithWindow(b, beg, size) == [b EXCEPT !.beg = beg, !.size = size]

\* container.resize(n): cells past the old length are zero-filled
Resized(store, len, n) ==
  [i \in Cells(n) |-> IF i < len THEN store[i] ELSE Blank]

\* buffer_copy of the n cells from .. from + n - 1 to the front of the storage
CopiedDown(store, len, from, n) == Moved(store, len, 0, from, n)

\* Mutant of StorageGrown: reserve() in place of resize()
StorageReserved(b, n) ==
  IF n <= max_size(b) - b.len THEN WithStorage(b, b.store, b.len + n)
  ELSE Asserted(b)

\* grow(n) of the storage: the adaptor's, or the fixed buffer's, which
\* accepts only n = 0
StorageGrown(b, n) ==
  IF n <= max_size(b) - b.len
  THEN WithStorage(b, Resized(b.store, b.len, b.len + n), b.len + n)
  ELSE Asserted(b)

-----------------------------------------------------------------------------
(* Growing *)

\* _size += more, once the storage holds the cells
Extended(b, more) == IF Ok(b) THEN WithWindow(b, b.beg, b.size + more) ELSE b

\* Mutant of Compacted: the window is moved and its bytes are not
CompactedNoCopy(b) == WithWindow(b, 0, b.size)

\* The window moved to the front of the storage
Compacted(b) ==
  WithWindow(WithStorage(b, CopiedDown(b.store, b.len, b.beg, b.size), b.len),
             0, b.size)

\* Mutant of GrowthSize: the least growth whatever is missing
GrowthSizeFixed(b, more) == Quantum

\* What a growing shifting buffer asks of its storage when compaction left
\* too little room
GrowthSize(b, more) == Larger(Quantum, more - TailRoom(b))

\* Mutant of GrownInStorage: off by one when the window just fits
GrownInStorageEager(b, more) ==
  Extended(IF TailRoom(b) > more THEN b
           ELSE StorageGrown(b, GrowthSize(b, more)), more)

\* Mutant of GrownInStorage: the window takes all that the storage grew by
GrownInStorageWhole(b, more) ==
  IF TailRoom(b) >= more THEN Extended(b, more)
  ELSE Extended(StorageGrown(b, GrowthSize(b, more)), TailRoom(b) + GrowthSize(b, more))

GrownInStorage(b, more) ==
  Extended(IF TailRoom(b) >= more THEN b
           ELSE StorageGrown(b, GrowthSize(b, more)), more)

\* Mutant of grow: no compaction
growNoShift(b, more) ==
  IF ~Shifts(b) THEN Extended(StorageGrown(b, more), more)
  ELSE GrownInStorage(b, more)

grow(b, more) ==
  IF ~Shifts(b) THEN Extended(StorageGrown(b, more), more)
  ELSE IF TailRoom(b) < more /\ b.beg # 0
       THEN GrownInStorage(Compacted(b), more)
       ELSE GrownInStorage(b, more)

\* The growth needs memory: container.resize() may throw
NeedsMemory(b, more) ==
  /\ ~Fixed(b)
  /\ IF Shifts(b) THEN b.len - b.size < more ELSE more > 0

\* grow(more) when resize() throws: a shifting buffer has compacted by then
grow_threw(b, more) ==
  IF Shifts(b) /\ b.beg # 0 THEN Compacted(b) ELSE b

dynbuf_safe_grow(b, want) == grow(b, dynbuf_safe_grow_size(b, want))

-----------------------------------------------------------------------------
(* Dropping bytes from the ends of the window *)

\* The window of a shifting buffer; _beg_idx = 0 when nothing is left of it
Narrowed(b, beg, size) == WithWindow(b, IF size = 0 THEN 0 ELSE beg, size)

\* The adaptor's container cut to its first n bytes
Truncated(b, store, n) ==
  WithWindow(WithStorage(b, Resized(store, b.len, n), n), 0, n)

\* fixed_dynamic_buffer accepts no change of its size
Rejects(b, n) == n > b.size \/ (Fixed(b) /\ ~Shifts(b) /\ n # 0)

shrink(b, n) ==
  IF Rejects(b, n) THEN Asserted(b)
  ELSE IF Shifts(b) THEN Narrowed(b, b.beg, b.size - n)
  ELSE Truncated(b, b.store, b.len - n)

consume(b, n) ==
  IF Rejects(b, n) THEN Asserted(b)
  ELSE IF Shifts(b) THEN Narrowed(b, b.beg + n, b.size - n)
  ELSE Truncated(b, CopiedDown(b.store, b.len, n, b.len - n), b.len - n)

dynbuf_clear(b) == shrink(b, b.size)

\* Mutant of dynbuf_resize: grows by the new size, not up to it
dynbuf_resizeByWhole(b, n) ==
  IF b.size < n THEN grow(b, n) ELSE shrink(b, b.size - n)

dynbuf_resize(b, n) ==
  IF b.size < n THEN grow(b, n - b.size) ELSE shrink(b, b.size - n)

\* The caller stores byte v through data(i, 1)
Poked(b, i, v) == WithStorage(b, [b.store EXCEPT ![b.beg + i] = v], b.len)
=============================================================================
