----------------------------- MODULE BasicBytes -----------------------------
(***************************************************************************)
(* Objects of basic_bytes over one heap.  An object owns the block its     *)
(* pointer points at; the heap knows of every block which allocator it     *)
(* came from and what it holds.  Allocators compare unequal, and memory    *)
(* must go back to the allocator it came from, with its size.              *)
(***************************************************************************)
EXTENDS FiniteSetsExt, BufferSizes

CONSTANTS Objects,  \* the objects a program has
          Allocs,   \* its allocators
          Byte, Garbage, Gone,
          AnyMove,  \* whether objects also move under allocators that can not free them
          MaxSize,  \* bound: the largest array
          MaxBufs   \* bound: buffers in a sequence that is copied

ASSUME BytesAssumption ==
  0 \in Byte /\ Garbage \notin Byte /\ AnyMove \in BOOLEAN /\ MaxSize \in Nat /\ MaxBufs \in Nat
\* An object outside its lifetime is not an array
ASSUME GoneAssumption == Gone \notin Seq(Byte \cup {Garbage})

\* An object is moved only under an allocator that can free its memory: the user
\* sees to it, or the allocators are all the same, as std::allocator's are
SoundMoves == AnyMove => \A alloc, other \in Allocs : alloc = other

VARIABLES objs,     \* the objects that live: _bytes_ptr, _size, _alloc
          heap,     \* the blocks that are allocated
          misfreed  \* memory has been given back that was not allocated so

vars == <<objs, heap, misfreed>>

Null == 0

Live == DOMAIN objs

Shorter(m, n) == IF m < n THEN m ELSE n

\* Where the next block is allocated
Fresh(h) == Min(1..(Cardinality(DOMAIN h) + 1) \ DOMAIN h)

Without(f, x) == [y \in DOMAIN f \ {x} |-> f[y]]
With(f, x, v) == [y \in DOMAIN f \cup {x} |-> IF y = x THEN v ELSE f[y]]

\* Calls are built from operators on one object b and the heap h around it
State(b, h, wrong) == [b |-> b, h |-> h, wrong |-> wrong]
Empty(alloc) == [ptr |-> Null, size |-> 0, alloc |-> alloc]

Contents(b, h) == IF b.ptr = Null THEN << >> ELSE h[b.ptr].data

\* alloc_traits::deallocate(_alloc, ptr, size); a null pointer is let through,
\* as operator delete does
Deallocated(s, ptr, size) ==
  State(s.b, Without(s.h, ptr),
        \/ s.wrong
        \/ ptr # Null /\ ~(/\ ptr \in DOMAIN s.h /\ s.h[ptr].alloc = s.b.alloc
                           /\ Len(s.h[ptr].data) = size))

_clear(s) ==
  LET freed == Deallocated(s, s.b.ptr, s.b.size)
  IN State(Empty(s.b.alloc), freed.h, freed.wrong)

\* A new block always, even of no bytes; the old one is freed afterwards
_resize_uninit(s, n) ==
  LET new == Fresh(s.h)
      data == [i \in 1..n |-> IF i <= s.b.size THEN s.h[s.b.ptr].data[i] ELSE Garbage]
      moved == State([ptr |-> new, size |-> n, alloc |-> s.b.alloc],
                     With(s.h, new, [alloc |-> s.b.alloc, data |-> data]), s.wrong)
  IN Deallocated(moved, s.b.ptr, s.b.size)

\* s with some bytes replaced, by a function of their indices
Overwritten(s, bytes) ==
  LET block == s.h[s.b.ptr]
      data == [i \in 1..Len(block.data) |->
                 IF i \in DOMAIN bytes THEN bytes[i] ELSE block.data[i]]
  IN State(s.b, With(s.h, s.b.ptr, [alloc |-> block.alloc, data |-> data]), s.wrong)

\* Mutant of resize: the tail starts at the old size, though it was cut
resizeFromOld(s, n, pattern) ==
  Overwritten(_resize_uninit(s, n), [i \in s.b.size..n |-> pattern])

resize(s, n, pattern) ==
  Overwritten(_resize_uninit(s, n), [i \in (Shorter(n, s.b.size) + 1)..n |-> pattern])

\* An array of the size of other data, filled by a loop over it
CopyOf(s, data) == Overwritten(_resize_uninit(s, Len(data)), data)

-----------------------------------------------------------------------------
(* The calls *)

Init == objs = << >> /\ heap = << >> /\ misfreed = FALSE

\* o is left as s has it
Leaves(o, s) ==
  objs' = With(objs, o, s.b) /\ heap' = s.h /\ misfreed' = s.wrong

On(o) == State(objs[o], heap, misfreed)
New(alloc) == State(Empty(alloc), heap, misfreed)

\* The constructors: empty, or of a size and a pattern or uninitialized
Construct(o, alloc) ==
  /\ o \notin Live
  /\ \/ Leaves(o, New(alloc))
     \/ \E n \in 0..MaxSize :
          \/ Leaves(o, _resize_uninit(New(alloc), n))
          \/ \E pattern \in Byte : Leaves(o, resize(New(alloc), n, pattern))

\* How much buffer_copy copies of a sequence: what is in front of its first
\* empty buffer
CopiedOf(bufs) ==
  IF 0 \in Range(bufs)
  THEN Before(bufs, SelectInSeq(bufs, LAMBDA size : size = 0) - 1)
  ELSE buffer_size(bufs)

\* copy(bufs): an array of the size of the sequence, into which it is copied
Copy(o, alloc) ==
  /\ o \notin Live
  /\ \E bufs \in BoundedSeq(0..MaxSize, MaxBufs), n \in 0..MaxSize : \E n_copied \in 0..n :
       /\ n = buffer_size(bufs) /\ n_copied = CopiedOf(bufs)
       /\ \E bytes \in [1..n_copied -> Byte] :
            Leaves(o, Overwritten(_resize_uninit(New(alloc), n), bytes))

Destroy(o) ==
  /\ o \in Live
  /\ LET s == _clear(On(o)) IN
     objs' = Without(objs, o) /\ heap' = s.h /\ misfreed' = s.wrong

\* Copy-construction, with the allocator of the other or another
CopyConstruct(o, from, alloc) ==
  /\ o \notin Live /\ from \in Live
  /\ Leaves(o, CopyOf(New(alloc), Contents(objs[from], heap)))

\* Mutant of MovedFrom: the object moved from is left as it is
MovedFromKept(b) == b

\* What is left of an object that was moved from
MovedFrom(b) == Empty(b.alloc)

\* The constructor that takes an allocator keeps the other's memory under it
MovedUnder(b, alloc) == [b EXCEPT !.alloc = alloc]

\* The memory of b can be given back to alloc
CanFree(b, alloc) == b.ptr = Null \/ alloc = b.alloc

\* Move-construction, with the allocator of the other or another.  The code asks
\* nothing of that allocator; without AnyMove the user passes one that can free
\* the memory.
MoveConstruct(o, from, alloc) ==
  /\ o \notin Live /\ from \in Live
  /\ AnyMove \/ CanFree(objs[from], alloc)
  /\ objs' = With([objs EXCEPT ![from] = MovedFrom(@)], o, MovedUnder(objs[from], alloc))
  /\ UNCHANGED <<heap, misfreed>>

\* Copy-assignment.  What is left of an object that is assigned to itself is
\* copied when it has been cleared.
CopyAssign(o, from) ==
  /\ o \in Live /\ from \in Live
  /\ LET s == _clear(On(o))
         cleared == State(Empty(objs[from].alloc), s.h, s.wrong)
         other == IF from = o THEN cleared.b ELSE objs[from]
     IN Leaves(o, CopyOf(cleared, Contents(other, heap)))

Resize(o, n) ==
  /\ o \in Live
  /\ \/ Leaves(o, _resize_uninit(On(o), n))
     \/ \E pattern \in Byte : Leaves(o, resize(On(o), n, pattern))

Clear(o) == o \in Live /\ Leaves(o, _clear(On(o)))

Fill(o, pattern) ==
  /\ o \in Live /\ objs[o].size > 0
  /\ Leaves(o, Overwritten(On(o), [i \in 1..objs[o].size |-> pattern]))

\* The user stores a byte through data()
Store(o, byte) ==
  /\ o \in Live
  /\ \E k \in 1..objs[o].size : Leaves(o, Overwritten(On(o), [i \in {k} |-> byte]))

Next ==
  \E o \in Objects :
    \/ \E alloc \in Allocs :
         \/ Construct(o, alloc)
         \/ Copy(o, alloc)
         \/ \E from \in Objects : CopyConstruct(o, from, alloc) \/ MoveConstruct(o, from, alloc)
    \/ Destroy(o)
    \/ \E from \in Objects : CopyAssign(o, from)
    \/ \E n \in 0..MaxSize : Resize(o, n)
    \/ Clear(o)
    \/ \E byte \in Byte : Fill(o, byte) \/ Store(o, byte)

Spec == Init /\ [][Next]_vars

-----------------------------------------------------------------------------
(* Properties *)

\* Every block is owned by one object, which knows its size and can free it,
\* and nothing was ever freed twice or in the wrong way: across copies, moves,
\* assignments and resizes nothing leaks (bytes.hpp:52-91,183-218).  It needs a
\* user who moves objects only where CanFree holds.
OwnedOnce ==
  /\ ~misfreed
  /\ \A p \in DOMAIN heap :
       Cardinality({o \in Live : objs[o].ptr = p}) = 1
  /\ \A o \in Live :
       IF objs[o].ptr = Null THEN objs[o].size = 0
       ELSE /\ objs[o].ptr \in DOMAIN heap
            /\ heap[objs[o].ptr].alloc = objs[o].alloc
            /\ Len(heap[objs[o].ptr].data) = objs[o].size

\* Each object is an array of bytes of its own (ByteArrays).
Arrays == INSTANCE ByteArrays
  WITH array <- [o \in Objects |-> IF o \in Live THEN Contents(objs[o], heap) ELSE Gone]
ImplementsByteArrays == Arrays!Spec
=============================================================================
