------------------------------ MODULE DynbufIO ------------------------------
(***************************************************************************)
(* A dynbuf_io between a producer, who prepares an area, stores bytes      *)
(* through the pointer it got and commits them, and a consumer, who reads  *)
(* and consumes.  The bytes stored are the positions 1, 2, 3, ... of one   *)
(* stream, so a byte out of place is a byte of the wrong number.           *)
(*                                                                         *)
(* The producer keeps writing through the area it was given: view is that  *)
(* area, as a range of the storage, and not recomputed from the buffer.    *)
(* Or the producer is buffer_copy, which prepares, stores and commits one  *)
(* part of its source after the other.                                     *)
(***************************************************************************)
EXTENDS DynbufIoOps, Sequences

CONSTANTS Kinds,      \* the triples <<kind, storage, max_size()>> to start from
          MaxAsked,   \* bound: the most prepare() and buffer_copy are asked for
          MaxWindow,  \* bound: the largest window
          MaxBytes    \* bound: the length of the stream

ASSUME IoKindsAssumption ==
  Kinds \subseteq {"bare", "shifting"} \X {"container", "fixed"} \X Nat
ASSUME IoSizesAssumption ==
  /\ MaxAsked \in Nat /\ MaxWindow \in Nat /\ MaxBytes \in Nat
  /\ \A kind \in Kinds : MaxWindow <= kind[3]
\* Stream positions are bytes
ASSUME StreamAssumption == 1..MaxBytes \subseteq Byte

VARIABLES io,        \* the dynbuf_io
          view,      \* the area the producer holds: its first cell and size
          filled,    \* how many of its first bytes the producer has stored
          taken,     \* how many bytes the consumer has consumed or cleared
          remaining  \* what a buffer_copy that runs has left to copy, else 0

vars == <<io, view, filled, taken, remaining>>

NoView == [from |-> 0, size |-> 0]

\* Where the write area starts in the storage
WriteStart(i) == i.buf.beg + i.rd

\* A dynbuf_io over a buffer that already holds the stream's first rd bytes.
\* A fixed buffer that does not shift can not be consumed from, so it is of
\* no use here (the tests wrap it in a shifting buffer).
Init ==
  /\ \E kind \in {k \in Kinds : k[1] = "bare" => k[2] # "fixed"}, n \in 0..MaxWindow :
     \E size \in 0..n : \E rd \in 0..Smaller(size, MaxBytes) :
       /\ kind[1] = "shifting" \/ size = n
       /\ io = [buf |-> Constructed(kind[1], kind[2], kind[3],
                          [i \in Cells(n) |-> IF i < rd THEN i + 1 ELSE Blank],
                          n, size),
                rd  |-> rd]
  /\ view = NoView /\ filled = 0 /\ taken = 0 /\ remaining = 0

Running == Ok(io.buf)

\* No call is being made
Idle == Running /\ remaining = 0

Prepare(n) ==
  /\ Idle
  /\ io.buf.size + PrepareGrowth(io, n) <= MaxWindow
  /\ io' = io_prepare(io, n)
  /\ view' = [from |-> WriteStart(io'), size |-> PreparedSize(io', n)]
  /\ filled' = 0
  /\ UNCHANGED <<taken, remaining>>

\* resize() throws out of prepare(): the producer is left without an area
PrepareThrows(n) ==
  /\ Idle
  /\ io.buf.size + PrepareGrowth(io, n) <= MaxWindow
  /\ NeedsMemory(io.buf, PrepareGrowth(io, n))
  /\ io' = [io EXCEPT !.buf = grow_threw(io.buf, PrepareGrowth(io, n))]
  /\ view' = NoView /\ filled' = 0
  /\ UNCHANGED <<taken, remaining>>

\* The producer stores the stream's next byte through its pointer
Fill ==
  /\ Idle /\ filled < view.size
  /\ taken + io.rd + filled < MaxBytes
  /\ io' = [io EXCEPT !.buf.store[view.from + filled] = taken + io.rd + filled + 1]
  /\ filled' = filled + 1
  /\ UNCHANGED <<view, taken, remaining>>

\* The producer commits bytes it has stored
Commit(n) ==
  /\ Idle /\ n <= filled
  /\ io' = io_commit(io, n)
  /\ view' = [from |-> view.from + n, size |-> view.size - n]
  /\ filled' = filled - n
  /\ UNCHANGED <<taken, remaining>>

\* The consumer may consume while the producer holds an area.  The bytes of a
\* bare container move down under the area: the producer may commit what it
\* has stored but store nothing more.  A shifting buffer's bytes stay.
Consume(n) ==
  /\ Idle /\ n <= io.rd
  /\ io' = io_consume(io, n)
  /\ view' = IF Shifts(io.buf) THEN view
             ELSE [from |-> WriteStart(io'), size |-> filled]
  /\ taken' = taken + n
  /\ UNCHANGED <<filled, remaining>>

ShrinkUncommitted ==
  /\ Idle
  /\ io' = io_shrink_uncommitted(io)
  /\ view' = NoView /\ filled' = 0
  /\ UNCHANGED <<taken, remaining>>

Clear ==
  /\ Idle
  /\ io' = io_clear(io)
  /\ view' = NoView /\ filled' = 0
  /\ taken' = taken + io.rd
  /\ UNCHANGED remaining

\* buffer_copy from a source of n bytes
Copy(n) ==
  /\ Idle /\ n > 0
  /\ LET most == Smaller(io.rd + n, max_size(io.buf)) IN
     most <= MaxWindow /\ taken + most <= MaxBytes
  /\ remaining' = n /\ view' = NoView /\ filled' = 0
  /\ UNCHANGED <<io, taken>>

Copying == Running /\ remaining > 0

\* Mutant of LeftAfter: a round that copies less than its part ends the copy
LeftAfterShort(part, n_copied) == IF n_copied < part THEN 0 ELSE remaining - n_copied

\* The loop breaks when nothing could be copied
LeftAfter(part, n_copied) == IF n_copied = 0 THEN 0 ELSE remaining - n_copied

\* One round, over a part of any size that the source hands out
CopyRound(part) ==
  /\ Copying
  /\ LET prepared == io_prepare(io, part)
         n_copied == PreparedSize(prepared, part)
     IN /\ io' = io_commit(Filled(prepared, io.rd, n_copied, taken + io.rd), n_copied)
        /\ remaining' = LeftAfter(part, n_copied)
  /\ UNCHANGED <<view, filled, taken>>

\* resize() throws out of prepare(), and out of buffer_copy
CopyThrows(part) ==
  /\ Copying /\ NeedsMemory(io.buf, PrepareGrowth(io, part))
  /\ io' = [io EXCEPT !.buf = grow_threw(io.buf, PrepareGrowth(io, part))]
  /\ remaining' = 0
  /\ UNCHANGED <<view, filled, taken>>

\* The producer may ask for more than the buffer can hold
Next ==
  \/ \E n \in 0..MaxAsked : Prepare(n) \/ PrepareThrows(n)
  \/ Fill
  \/ \E n \in 0..filled : Commit(n)
  \/ \E n \in 0..io.rd : Consume(n)
  \/ ShrinkUncommitted
  \/ Clear
  \/ \E n \in 1..MaxAsked : Copy(n)
  \/ \E part \in 1..remaining : CopyRound(part) \/ CopyThrows(part)

Spec == Init /\ [][Next]_vars

-----------------------------------------------------------------------------
(* Properties *)

\* The read area and the stored bytes behind it hold consecutive bytes of the
\* stream: growing, compacting, shrinking and consuming in any order put no
\* byte out of place (dynbuf_io.hpp:41-88).
StreamIntact ==
  \A i \in Cells(io.rd + filled) :
    io.buf.store[io.buf.beg + i] = taken + i + 1

\* The area the producer holds is where the next commit() will look: consuming
\* from a shifting buffer does not move it, and the read area never outgrows
\* the window (dynbuf_io.hpp:19-22, 46-82).
ViewIsWriteArea ==
  /\ view.size <= WriteArea(io)
  /\ view.size > 0 => view.from = WriteStart(io)

\* No assertion fires for a producer and a consumer who keep the contract.
NoAssertionFires == Running

\* prepare() gives all it is asked for, or as much as max_size() and the
\* allocation cap leave: room given up by consume() is always found again.
PrepareYields ==
  [][\A n \in 0..MaxAsked :
       Prepare(n) =>
         view'.size = Smaller(n, Smaller(max_size(io.buf) - io.rd,
                                         WriteArea(io) + MaxAlloc))]_vars

\* buffer_copy into a dynbuf_io copies all there is or fills the buffer, however
\* little a prepare() gives at a time; only an exception ends it before
\* (copy.hpp:123-133, dynbuf_io.hpp:64-71).
CopyFills ==
  [][Copying /\ remaining' = 0 =>
       \/ io'.rd = io.rd + remaining
       \/ io'.rd = max_size(io.buf)
       \/ \E part \in 1..remaining : CopyThrows(part)]_vars

\* The read area is a queue of the stream's bytes.
Queue == INSTANCE ByteQueue WITH queue <- ReadArea(io)
ImplementsByteQueue == Queue!Spec
=============================================================================
