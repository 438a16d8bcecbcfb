-------------------------- MODULE BasicBytesProofs --------------------------
(***************************************************************************)
(* The theorems about BasicBytes, for every set of objects, allocators and *)
(* bytes and every bound.  A call is a step from the object it is made on, *)
(* in its heap, to the same object: Frame says that such a step leaves     *)
(* every other block alone and takes none of them.  The inductive          *)
(* invariant is that the objects and the blocks are in one-to-one          *)
(* correspondence, each object one that can free its block; SoundMoves     *)
(* says when moves keep that.                                              *)
(***************************************************************************)
EXTENDS BasicBytes, TLAPS, FiniteSetTheorems, WellFoundedInduction

Cell == Byte \cup {Garbage}
Block == [alloc : Allocs, data : Seq(Cell)]
Object == [ptr : Nat, size : Nat, alloc : Allocs]

\* A heap of finitely many blocks, none of them at the null pointer
IsHeap(h) ==
  /\ h \in [DOMAIN h -> Block]
  /\ IsFiniteSet(DOMAIN h)
  /\ DOMAIN h \subseteq Nat \ {Null}

\* b knows the size of its block and can give it back
Owns(b, h) ==
  IF b.ptr = Null THEN b.size = 0
  ELSE b.ptr \in DOMAIN h /\ h[b.ptr].alloc = b.alloc /\ Len(h[b.ptr].data) = b.size

\* An object in its heap, and nothing that was given back in a wrong way
GoodState(s) ==
  s.b \in Object /\ IsHeap(s.h) /\ Owns(s.b, s.h) /\ s.wrong = FALSE

\* From s to t nothing but the block of the object is freed, allocated or written
Frame(s, t) ==
  /\ DOMAIN t.h \ {t.b.ptr} = DOMAIN s.h \ {s.b.ptr}
  /\ \A p \in DOMAIN s.h \ {s.b.ptr} : t.h[p] = s.h[p]

-----------------------------------------------------------------------------
(* Heaps *)

\* A set of naturals has a least element.
LEMMA LeastElement ==
  ASSUME NEW S \in SUBSET Nat, S # {}
  PROVE  \E x \in S : \A y \in S : x <= y
<1> DEFINE R == OpToRel(<, Nat)
<1>1. IsWellFoundedOn(R, Nat)
  BY NatLessThanWellFounded
<1>2. \A x, y \in Nat : y < x => <<y, x>> \in R
  BY DEF OpToRel
<1> HIDE DEF R
<1>3. PICK x \in S : \A y \in S : <<y, x>> \notin R
  BY <1>1, WFMin
<1>4. ASSUME NEW y \in S PROVE x <= y
  <2>1. x \in Nat /\ y \in Nat /\ ~(y < x)
    BY <1>2, <1>3
  <2> QED BY <2>1
<1> QED BY <1>4

\* There is always a place for a new block, and it is not taken.
LEMMA FreshFacts ==
  ASSUME NEW h, IsHeap(h)
  PROVE  Fresh(h) \in Nat \ {Null} /\ Fresh(h) \notin DOMAIN h
<1> DEFINE n == Cardinality(DOMAIN h)
           free == 1..(n + 1) \ DOMAIN h
<1>1. n \in Nat
  BY FS_CardinalityType DEF IsHeap
<1>2. IsFiniteSet(1..(n + 1)) /\ Cardinality(1..(n + 1)) = n + 1
  BY <1>1, FS_Interval
<1>3. ~(1..(n + 1) \subseteq DOMAIN h)
  <2> SUFFICES ASSUME 1..(n + 1) \subseteq DOMAIN h PROVE FALSE
    OBVIOUS
  <2>1. Cardinality(1..(n + 1)) <= n
    BY FS_Subset DEF IsHeap
  <2> QED BY <1>1, <1>2, <2>1
<1>4. free \in SUBSET Nat /\ free # {}
  BY <1>1, <1>3
<1>5. \E x \in free : \A y \in free : x <= y
  BY <1>4, LeastElement
<1>6. Min(free) \in free
  BY <1>5 DEF Min
<1> QED BY <1>1, <1>6 DEF Fresh, Null

\* Freeing a block, or nothing, leaves a heap.
LEMMA WithoutFacts ==
  ASSUME NEW h, IsHeap(h), NEW p
  PROVE  LET g == Without(h, p) IN
         /\ IsHeap(g) /\ DOMAIN g = DOMAIN h \ {p}
         /\ \A q \in DOMAIN h \ {p} : g[q] = h[q]
<1>1. IsFiniteSet(DOMAIN h \ {p})
  BY FS_RemoveElement DEF IsHeap
<1> QED BY <1>1 DEF Without, IsHeap

\* Allocating or overwriting a block leaves a heap.
LEMMA WithFacts ==
  ASSUME NEW h, IsHeap(h), NEW p \in Nat \ {Null}, NEW block \in Block
  PROVE  LET g == With(h, p, block) IN
         /\ IsHeap(g) /\ DOMAIN g = DOMAIN h \cup {p} /\ g[p] = block
         /\ \A q \in DOMAIN h \ {p} : g[q] = h[q]
<1>1. IsFiniteSet(DOMAIN h \cup {p})
  BY FS_AddElement DEF IsHeap
<1> QED BY <1>1 DEF With, IsHeap

\* What lies in the fields of a state is what was put there.
LEMMA StateFields ==
  ASSUME NEW b, NEW h, NEW wrong
  PROVE  State(b, h, wrong).b = b /\ State(b, h, wrong).h = h
         /\ State(b, h, wrong).wrong = wrong
BY DEF State

\* The contents of an object that owns its block: an array of its size.
LEMMA ContentsFacts ==
  ASSUME NEW b \in Object, NEW h, IsHeap(h), Owns(b, h)
  PROVE  /\ Contents(b, h) \in Seq(Cell) /\ Len(Contents(b, h)) = b.size
         /\ b.ptr # Null => Contents(b, h) = h[b.ptr].data
<1>1. CASE b.ptr = Null
  BY <1>1 DEF Contents, Owns
<1>2. CASE b.ptr # Null
  <2>1. h[b.ptr] \in Block
    BY <1>2 DEF IsHeap, Owns
  <2> QED BY <1>2, <2>1 DEF Contents, Owns, Block
<1> QED BY <1>1, <1>2

-----------------------------------------------------------------------------
(* The calls, on an object in its heap *)

\* Freeing the block of the object gives it back where it came from.
LEMMA ClearFacts ==
  ASSUME NEW s, GoodState(s)
  PROVE  LET t == _clear(s) IN
         GoodState(t) /\ Frame(s, t) /\ t.b = Empty(s.b.alloc)
<1> DEFINE g == Without(s.h, s.b.ptr)
           t == _clear(s)
<1>1. /\ s.b.ptr \in Nat /\ s.b.alloc \in Allocs /\ s.b.size \in Nat
      /\ IsHeap(s.h) /\ Owns(s.b, s.h) /\ s.wrong = FALSE
  BY DEF GoodState, Object
<1>2. /\ IsHeap(g) /\ DOMAIN g = DOMAIN s.h \ {s.b.ptr}
      /\ \A q \in DOMAIN s.h \ {s.b.ptr} : g[q] = s.h[q]
  BY <1>1, WithoutFacts
<1>3. t.b = Empty(s.b.alloc) /\ t.h = g /\ t.wrong = FALSE
  BY <1>1 DEF _clear, Deallocated, State, Owns
<1> HIDE DEF t, g
<1>4. GoodState(t)
  BY <1>1, <1>2, <1>3 DEF GoodState, Object, Empty, Owns, Null
<1>5. Frame(s, t)
  <2>1. t.b.ptr = Null /\ Null \notin DOMAIN s.h
    BY <1>1, <1>3 DEF Empty, IsHeap
  <2> QED BY <1>2, <1>3, <2>1 DEF Frame
<1> QED BY <1>3, <1>4, <1>5 DEF t

\* A resized array has a block of its own and the front of what it held.
LEMMA ResizeUninitFacts ==
  ASSUME NEW s, GoodState(s), NEW n \in Nat
  PROVE  LET t == _resize_uninit(s, n) IN
         /\ GoodState(t) /\ Frame(s, t)
         /\ t.b.ptr # Null /\ t.b.size = n /\ t.b.alloc = s.b.alloc
         /\ Contents(t.b, t.h) =
              [i \in 1..n |-> IF i <= s.b.size THEN Contents(s.b, s.h)[i] ELSE Garbage]
<1> DEFINE new == Fresh(s.h)
           data == [i \in 1..n |-> IF i <= s.b.size THEN s.h[s.b.ptr].data[i] ELSE Garbage]
           block == [alloc |-> s.b.alloc, data |-> data]
           b == [ptr |-> new, size |-> n, alloc |-> s.b.alloc]
           h == With(s.h, new, block)
           g == Without(h, s.b.ptr)
           t == _resize_uninit(s, n)
<1>1. /\ s.b \in Object /\ s.b.ptr \in Nat /\ s.b.alloc \in Allocs /\ s.b.size \in Nat
      /\ IsHeap(s.h) /\ Owns(s.b, s.h) /\ s.wrong = FALSE
  BY DEF GoodState, Object
<1>2. new \in Nat \ {Null} /\ new \notin DOMAIN s.h
  BY <1>1, FreshFacts
<1> HIDE DEF new
<1>3. /\ Contents(s.b, s.h) \in Seq(Cell) /\ Len(Contents(s.b, s.h)) = s.b.size
      /\ s.b.ptr # Null => Contents(s.b, s.h) = s.h[s.b.ptr].data
  BY <1>1, ContentsFacts
<1>4. /\ data = [i \in 1..n |-> IF i <= s.b.size THEN Contents(s.b, s.h)[i] ELSE Garbage]
      /\ data \in Seq(Cell) /\ Len(data) = n
  <2>1. \A i \in 1..n : i <= s.b.size =>
          /\ s.b.ptr # Null
          /\ Contents(s.b, s.h)[i] \in Cell
    BY <1>1, <1>3 DEF Owns
  <2>2. data = [i \in 1..n |-> IF i <= s.b.size THEN Contents(s.b, s.h)[i] ELSE Garbage]
    BY <1>3, <2>1
  <2>3. data \in [1..n -> Cell]
    BY <2>1, <2>2 DEF Cell
  <2> HIDE DEF data
  <2> QED BY <2>2, <2>3
<1> HIDE DEF data
<1>5. block \in Block /\ block.data = data /\ block.alloc = s.b.alloc
  BY <1>1, <1>4 DEF Block
<1>6. t.b = b /\ t.h = g
  BY DEF _resize_uninit, Deallocated, State, data, new
<1>7. t.wrong = FALSE
  <2>1. s.b.ptr # Null =>
          /\ s.b.ptr \in DOMAIN h
          /\ h[s.b.ptr].alloc = s.b.alloc /\ Len(h[s.b.ptr].data) = s.b.size
    BY <1>1, <1>2 DEF With, Owns
  <2>2. t.wrong = \/ s.wrong
                  \/ s.b.ptr # Null /\ ~(/\ s.b.ptr \in DOMAIN h
                                         /\ h[s.b.ptr].alloc = s.b.alloc
                                         /\ Len(h[s.b.ptr].data) = s.b.size)
    BY DEF _resize_uninit, Deallocated, State, data, new
  <2> QED BY <1>1, <2>1, <2>2
<1> HIDE DEF block, t
<1>8. /\ IsHeap(h) /\ DOMAIN h = DOMAIN s.h \cup {new} /\ h[new] = block
      /\ \A q \in DOMAIN s.h \ {new} : h[q] = s.h[q]
  <2>1. IsHeap(s.h) /\ new \in Nat \ {Null} /\ block \in Block
    BY <1>1, <1>2, <1>5
  <2> QED BY ZenonT(60), <2>1, WithFacts
<1> HIDE DEF h
<1>9. /\ IsHeap(g) /\ DOMAIN g = DOMAIN h \ {s.b.ptr}
      /\ \A q \in DOMAIN h \ {s.b.ptr} : g[q] = h[q]
  BY <1>8, WithoutFacts
<1> HIDE DEF g
<1>10. new # s.b.ptr
  BY <1>1, <1>2 DEF Owns
<1>11. new \in DOMAIN g /\ g[new] = block
  BY <1>8, <1>9, <1>10
<1>12. GoodState(t)
  BY <1>1, <1>2, <1>4, <1>5, <1>6, <1>7, <1>9, <1>11 DEF GoodState, Object, Owns
<1>13. Frame(s, t)
  BY <1>2, <1>6, <1>8, <1>9 DEF Frame
<1>14. Contents(t.b, t.h) = data
  BY <1>2, <1>5, <1>6, <1>11 DEF Contents
<1> QED BY <1>2, <1>4, <1>6, <1>12, <1>13, <1>14 DEF t

\* Writing into an array changes what is written and nothing else.
LEMMA OverwrittenFacts ==
  ASSUME NEW s, GoodState(s), s.b.ptr # Null,
         NEW bytes, \A i \in DOMAIN bytes : bytes[i] \in Cell
  PROVE  LET t == Overwritten(s, bytes) IN
         /\ GoodState(t) /\ Frame(s, t) /\ t.b = s.b
         /\ Contents(t.b, t.h) =
              [i \in 1..s.b.size |->
                 IF i \in DOMAIN bytes THEN bytes[i] ELSE Contents(s.b, s.h)[i]]
<1> DEFINE old == s.h[s.b.ptr]
           data == [i \in 1..Len(old.data) |->
                      IF i \in DOMAIN bytes THEN bytes[i] ELSE old.data[i]]
           block == [alloc |-> old.alloc, data |-> data]
           h == With(s.h, s.b.ptr, block)
           t == Overwritten(s, bytes)
<1>1. /\ s.b \in Object /\ s.b.ptr \in Nat \ {Null} /\ s.b.size \in Nat
      /\ IsHeap(s.h) /\ Owns(s.b, s.h) /\ s.wrong = FALSE
  BY DEF GoodState, Object
<1>2. old \in Block /\ old.alloc = s.b.alloc /\ Len(old.data) = s.b.size
      /\ s.b.ptr \in DOMAIN s.h
  BY <1>1 DEF IsHeap, Owns
<1>3. old.data \in Seq(Cell) /\ old.alloc \in Allocs /\ Contents(s.b, s.h) = old.data
  BY <1>1, <1>2 DEF Block, Contents
<1> HIDE DEF old
<1>4. data \in [1..s.b.size -> Cell]
  BY <1>2, <1>3 DEF Cell
<1>5. data = [i \in 1..s.b.size |->
                 IF i \in DOMAIN bytes THEN bytes[i] ELSE Contents(s.b, s.h)[i]]
  BY <1>2, <1>3
<1>6. t.b = s.b /\ t.h = h /\ t.wrong = FALSE
  BY <1>1 DEF Overwritten, State, old
<1> HIDE DEF data, t
<1>7. data \in Seq(Cell) /\ Len(data) = s.b.size
  BY <1>1, <1>4
<1>8. block \in Block /\ block.data = data /\ block.alloc = s.b.alloc
  BY <1>2, <1>3, <1>7 DEF Block
<1> HIDE DEF block
<1>9. /\ IsHeap(h) /\ DOMAIN h = DOMAIN s.h \cup {s.b.ptr} /\ h[s.b.ptr] = block
      /\ \A q \in DOMAIN s.h \ {s.b.ptr} : h[q] = s.h[q]
  BY <1>1, <1>8, WithFacts
<1> HIDE DEF h
<1>10. GoodState(t)
  BY <1>1, <1>6, <1>7, <1>8, <1>9 DEF GoodState, Owns
<1>11. Frame(s, t)
  BY <1>6, <1>9 DEF Frame
<1>12. Contents(t.b, t.h) = data
  BY <1>1, <1>6, <1>8, <1>9 DEF Contents
<1> QED BY <1>5, <1>6, <1>10, <1>11, <1>12 DEF t

\* A call made of calls leaves the other blocks alone if they do.
LEMMA FrameTransitive ==
  ASSUME NEW s, NEW t, NEW u, Frame(s, t), Frame(t, u)
  PROVE  Frame(s, u)
BY DEF Frame

\* resize() keeps a prefix and fills the new tail with the pattern.
LEMMA ResizeFacts ==
  ASSUME NEW s, GoodState(s), NEW n \in Nat, NEW pattern \in Byte
  PROVE  LET t == resize(s, n, pattern) IN
         /\ GoodState(t) /\ Frame(s, t)
         /\ Contents(t.b, t.h) =
              [i \in 1..n |-> IF i <= s.b.size THEN Contents(s.b, s.h)[i] ELSE pattern]
<1> DEFINE u == _resize_uninit(s, n)
           bytes == [i \in (Shorter(n, s.b.size) + 1)..n |-> pattern]
           t == resize(s, n, pattern)
<1>1. s.b.size \in Nat /\ t = Overwritten(u, bytes)
  BY DEF GoodState, Object, resize
<1>2. /\ GoodState(u) /\ Frame(s, u) /\ u.b.ptr # Null /\ u.b.size = n
      /\ Contents(u.b, u.h) =
           [i \in 1..n |-> IF i <= s.b.size THEN Contents(s.b, s.h)[i] ELSE Garbage]
  BY ResizeUninitFacts
<1>3. \A i \in DOMAIN bytes : bytes[i] \in Cell
  BY DEF Cell
<1>4. \A i \in 1..n : /\ i \in DOMAIN bytes <=> ~(i <= s.b.size)
                      /\ i \in DOMAIN bytes => bytes[i] = pattern
  BY <1>1 DEF Shorter
<1> HIDE DEF u, bytes, t
<1>5. /\ GoodState(t) /\ Frame(u, t)
      /\ Contents(t.b, t.h) =
           [i \in 1..n |-> IF i \in DOMAIN bytes THEN bytes[i] ELSE Contents(u.b, u.h)[i]]
  BY <1>1, <1>2, <1>3, OverwrittenFacts
<1>6. Frame(s, t)
  BY <1>2, <1>5, FrameTransitive
<1> QED BY <1>2, <1>4, <1>5, <1>6 DEF t

\* An array into which other data is copied is that data.
LEMMA CopyOfFacts ==
  ASSUME NEW s, GoodState(s), NEW data \in Seq(Cell)
  PROVE  LET t == CopyOf(s, data) IN
         GoodState(t) /\ Frame(s, t) /\ Contents(t.b, t.h) = data
<1> DEFINE n == Len(data)
           u == _resize_uninit(s, n)
           t == CopyOf(s, data)
<1>1. n \in Nat /\ t = Overwritten(u, data)
  BY DEF CopyOf
<1>2. /\ GoodState(u) /\ Frame(s, u) /\ u.b.ptr # Null /\ u.b.size = n
  BY <1>1, ResizeUninitFacts
<1>3. \A i \in DOMAIN data : data[i] \in Cell
  OBVIOUS
<1>4. DOMAIN data = 1..n
  OBVIOUS
<1> HIDE DEF u, t, n
<1>5. /\ GoodState(t) /\ Frame(u, t)
      /\ Contents(t.b, t.h) =
           [i \in 1..n |-> IF i \in DOMAIN data THEN data[i] ELSE Contents(u.b, u.h)[i]]
  BY <1>1, <1>2, <1>3, OverwrittenFacts
<1>6. Contents(t.b, t.h) = [i \in 1..n |-> data[i]]
  BY <1>4, <1>5
<1>7. Frame(s, t)
  BY <1>2, <1>5, FrameTransitive
<1> QED BY <1>4, <1>5, <1>6, <1>7 DEF t

-----------------------------------------------------------------------------
(* The objects and their blocks *)

\* Two objects never share a block, and every block is some object's
OneToOne ==
  /\ \A o \in Live : Owns(objs[o], heap)
  /\ \A o, q \in Live : objs[o].ptr # Null /\ objs[o].ptr = objs[q].ptr => o = q
  /\ \A p \in DOMAIN heap : \E o \in Live : objs[o].ptr = p

IInv ==
  /\ objs \in [Live -> Object] /\ IsHeap(heap) /\ misfreed = FALSE
  /\ OneToOne

\* What the objects hold, as ByteArrays sees it
Held == [o \in Objects |-> IF o \in Live THEN Contents(objs[o], heap) ELSE Gone]

\* The state a call on o starts from
LEMMA StartFacts ==
  ASSUME IInv
  PROVE  /\ \A o \in Live : GoodState(On(o))
         /\ \A alloc \in Allocs : GoodState(New(alloc))
<1>1. ASSUME NEW o \in Live PROVE GoodState(On(o))
  BY StateFields DEF IInv, OneToOne, On, GoodState
<1>2. ASSUME NEW alloc \in Allocs PROVE GoodState(New(alloc))
  BY StateFields DEF IInv, New, GoodState, Empty, Object, Owns, Null
<1> QED BY <1>1, <1>2

\* The object of s is o, or one that is about to live
IsOf(o, s) ==
  s.h = heap /\ IF o \in Live THEN s.b = objs[o] ELSE s.b.ptr = Null

\* A call on a living object starts from it, one that makes an object from
\* nothing.
LEMMA StartsOf ==
  /\ \A o \in Live : IsOf(o, On(o))
  /\ \A o, alloc : o \notin Live => IsOf(o, New(alloc))
BY DEF IsOf, On, New, State, Empty

\* A call on one object leaves the block of every other to it.
LEMMA OthersKept ==
  ASSUME IInv, NEW o, NEW s, NEW t, IsOf(o, s), Frame(s, t), NEW x \in Live, x # o
  PROVE  /\ Owns(objs[x], t.h) /\ Contents(objs[x], t.h) = Contents(objs[x], heap)
         /\ objs[x].ptr # Null => objs[x].ptr # t.b.ptr
<1> DEFINE p == objs[x].ptr
<1>1. Owns(objs[x], heap)
  BY DEF IInv, OneToOne
<1>2. CASE p = Null
  BY <1>1, <1>2 DEF Owns, Contents
<1>3. CASE p # Null
  <2>1. p \in DOMAIN heap /\ heap[p].alloc = objs[x].alloc
        /\ Len(heap[p].data) = objs[x].size
    BY <1>1, <1>3 DEF Owns
  <2>2. p # s.b.ptr
    BY <1>3 DEF IsOf, IInv, OneToOne
  <2>3. p \in DOMAIN t.h /\ p # t.b.ptr /\ t.h[p] = heap[p]
    BY <2>1, <2>2 DEF Frame, IsOf
  <2> QED BY <1>3, <2>1, <2>3 DEF Owns, Contents
<1> QED BY <1>2, <1>3

\* Every block is still owned after a call, if the object of the call is kept.
LEMMA BlocksOwned ==
  ASSUME IInv, NEW o, NEW s, NEW t, IsOf(o, s), Frame(s, t),
         NEW p \in DOMAIN t.h, p # t.b.ptr
  PROVE  \E x \in Live : x # o /\ objs[x].ptr = p
<1>1. p \in DOMAIN heap /\ p # s.b.ptr
  BY DEF Frame, IsOf
<1>2. PICK x \in Live : objs[x].ptr = p
  BY <1>1 DEF IInv, OneToOne
<1> QED BY <1>1, <1>2 DEF IsOf

\* A call that leaves its object as t has it.
LEMMA LeavesStep ==
  ASSUME IInv, NEW o \in Objects, NEW s, NEW t,
         IsOf(o, s), GoodState(t), Frame(s, t), Leaves(o, t)
  PROVE  IInv' /\ Held' = [Held EXCEPT ![o] = Contents(t.b, t.h)]
<1>1. /\ Live' = Live \cup {o} /\ objs'[o] = t.b
      /\ \A x \in Live : x # o => objs'[x] = objs[x]
      /\ objs' = [x \in Live' |-> objs'[x]]
      /\ heap' = t.h /\ misfreed' = FALSE
  BY DEF Leaves, With, GoodState, Live
<1>2. objs' \in [Live' -> Object]
  <2>1. \A x \in Live' : objs'[x] \in Object
    BY <1>1 DEF IInv, GoodState
  <2> QED BY <1>1, <2>1
<1>3. IsHeap(heap') /\ Owns(t.b, heap')
  BY <1>1 DEF GoodState
<1>4. \A x \in Live' : Owns(objs'[x], heap')
  BY <1>1, <1>3, OthersKept
<1>5. ASSUME NEW x \in Live', NEW y \in Live',
             objs'[x].ptr # Null, objs'[x].ptr = objs'[y].ptr
      PROVE  x = y
  <2>1. \A z \in Live : z # o /\ objs[z].ptr # Null => objs[z].ptr # t.b.ptr
    BY OthersKept
  <2> QED BY <1>1, <1>5, <2>1 DEF IInv, OneToOne
<1>6. ASSUME NEW p \in DOMAIN heap' PROVE \E x \in Live' : objs'[x].ptr = p
  <2>1. CASE p = t.b.ptr
    BY <1>1, <2>1
  <2>2. CASE p # t.b.ptr
    <3>1. \E x \in Live : x # o /\ objs[x].ptr = p
      BY <1>1, <1>6, <2>2, BlocksOwned
    <3> QED BY <1>1, <3>1
  <2> QED BY <2>1, <2>2
<1>7. IInv'
  BY <1>1, <1>2, <1>3, <1>4, <1>5, <1>6 DEF IInv, OneToOne
<1>8. Held' = [Held EXCEPT ![o] = Contents(t.b, t.h)]
  <2>1. \A x \in Live : x # o => Contents(objs'[x], heap') = Contents(objs[x], heap)
    BY <1>1, OthersKept
  <2> QED BY <1>1, <2>1 DEF Held
<1> QED BY <1>7, <1>8

\* What objects hold are arrays of their size, and no array is Gone.
LEMMA HeldFacts ==
  ASSUME IInv
  PROVE  \A o \in Live :
           /\ Contents(objs[o], heap) \in Seq(Cell)
           /\ Len(Contents(objs[o], heap)) = objs[o].size
           /\ objs[o].size \in Nat
           /\ o \in Objects => Held[o] = Contents(objs[o], heap) /\ Held[o] # Gone
<1> SUFFICES ASSUME NEW o \in Live
             PROVE  /\ Contents(objs[o], heap) \in Seq(Cell)
                    /\ Len(Contents(objs[o], heap)) = objs[o].size
                    /\ objs[o].size \in Nat
                    /\ o \in Objects => Held[o] = Contents(objs[o], heap) /\ Held[o] # Gone
  OBVIOUS
<1>1. objs[o] \in Object /\ IsHeap(heap) /\ Owns(objs[o], heap)
  BY DEF IInv, OneToOne
<1>2. Contents(objs[o], heap) \in Seq(Cell) /\ Len(Contents(objs[o], heap)) = objs[o].size
  BY <1>1, ContentsFacts
<1>3. Contents(objs[o], heap) # Gone
  BY <1>2, GoneAssumption DEF Cell
<1> QED BY <1>1, <1>2, <1>3 DEF Held, Object

-----------------------------------------------------------------------------
(* Each action keeps the invariant and is a step of ByteArrays *)

\* An array of n bytes that are all alike
Alike(n, pattern) == [i \in 1..n |-> pattern]

\* A constructor whose array is all alike.
LEMMA NewArray ==
  ASSUME IInv, NEW o \in Objects, o \notin Live, NEW alloc \in Allocs, NEW t,
         GoodState(t), Frame(New(alloc), t), Leaves(o, t),
         NEW n \in 0..MaxSize, NEW pattern \in Cell,
         Contents(t.b, t.h) = Alike(n, pattern)
  PROVE  IInv' /\ Arrays!Next
<1>1. IInv' /\ Held' = [Held EXCEPT ![o] = Contents(t.b, t.h)]
  BY StartsOf, LeavesStep
<1>2. Contents(t.b, t.h) = Arrays!Resized(<< >>, n, pattern)
  BY DEF Arrays!Resized, Alike
<1>3. Arrays!Construct(o, n, pattern)
  BY <1>1, <1>2 DEF Arrays!Construct, Arrays!Exists, Held
<1> QED BY <1>1, <1>3 DEF Arrays!Next, Cell

\* A new object
LEMMA ConstructAction ==
  ASSUME IInv, NEW o \in Objects, NEW alloc \in Allocs, Construct(o, alloc)
  PROVE  IInv' /\ Arrays!Next
<1> DEFINE s == New(alloc)
<1>1. o \notin Live /\ GoodState(s) /\ s.b.size = 0 /\ s.b.ptr = Null
  BY StartFacts DEF Construct, New, State, Empty
<1> HIDE DEF s
<1>2. CASE Leaves(o, s)
  <2>1. Contents(s.b, s.h) = Alike(0, Garbage)
    BY <1>1 DEF Contents, Alike
  <2>2. Frame(s, s) /\ 0 \in 0..MaxSize /\ Garbage \in Cell
    BY BytesAssumption DEF Frame, Cell
  <2> QED BY <1>1, <1>2, <2>1, <2>2, NewArray DEF s
<1>3. CASE \E n \in 0..MaxSize : Leaves(o, _resize_uninit(s, n))
  <2>1. PICK n \in 0..MaxSize : Leaves(o, _resize_uninit(s, n))
    BY <1>3
  <2> DEFINE t == _resize_uninit(s, n)
  <2>2. n \in Nat /\ \A i \in 1..n : ~(i <= 0)
    BY BytesAssumption
  <2>3. /\ GoodState(t) /\ Frame(s, t)
        /\ Contents(t.b, t.h) =
             [i \in 1..n |-> IF i <= s.b.size THEN Contents(s.b, s.h)[i] ELSE Garbage]
    BY <1>1, <2>2, ResizeUninitFacts
  <2>4. Leaves(o, t) /\ Garbage \in Cell
    BY <2>1 DEF Cell
  <2> HIDE DEF t
  <2>5. Contents(t.b, t.h) = Alike(n, Garbage)
    BY <1>1, <2>2, <2>3 DEF Alike
  <2> QED BY <1>1, <2>3, <2>4, <2>5, NewArray DEF s
<1>4. CASE \E n \in 0..MaxSize, pattern \in Byte : Leaves(o, resize(s, n, pattern))
  <2>1. PICK n \in 0..MaxSize, pattern \in Byte : Leaves(o, resize(s, n, pattern))
    BY <1>4
  <2> DEFINE t == resize(s, n, pattern)
  <2>2. n \in Nat /\ \A i \in 1..n : ~(i <= 0)
    BY BytesAssumption
  <2>3. /\ GoodState(t) /\ Frame(s, t)
        /\ Contents(t.b, t.h) =
             [i \in 1..n |-> IF i <= s.b.size THEN Contents(s.b, s.h)[i] ELSE pattern]
    BY <1>1, <2>2, ResizeFacts
  <2>4. Leaves(o, t) /\ pattern \in Cell
    BY <2>1 DEF Cell
  <2> HIDE DEF t
  <2>5. Contents(t.b, t.h) = Alike(n, pattern)
    BY <1>1, <2>2, <2>3 DEF Alike
  <2> QED BY <1>1, <2>3, <2>4, <2>5, NewArray DEF s
<1> QED BY <1>2, <1>3, <1>4 DEF Construct, s

\* buffer_copy fills the front of the new array.
LEMMA CopyAction ==
  ASSUME IInv, NEW o \in Objects, NEW alloc \in Allocs, Copy(o, alloc)
  PROVE  IInv' /\ Arrays!Next
<1> DEFINE s == New(alloc)
<1>1. o \notin Live /\ GoodState(s) /\ s.b.size = 0 /\ s.b.ptr = Null
  BY StartFacts DEF Copy, New, State, Empty
<1>2. PICK n \in 0..MaxSize : \E n_copied \in 0..n : \E bytes \in [1..n_copied -> Byte] :
        Leaves(o, Overwritten(_resize_uninit(s, n), bytes))
  BY DEF Copy
<1>3. PICK n_copied \in 0..n : \E bytes \in [1..n_copied -> Byte] :
        Leaves(o, Overwritten(_resize_uninit(s, n), bytes))
  BY <1>2
<1>4. PICK bytes \in [1..n_copied -> Byte] :
        Leaves(o, Overwritten(_resize_uninit(s, n), bytes))
  BY <1>3
<1> DEFINE u == _resize_uninit(s, n)
           t == Overwritten(u, bytes)
<1>5. n \in Nat /\ \A i \in 1..n : ~(i <= 0)
  BY BytesAssumption
<1>6. /\ GoodState(u) /\ Frame(s, u) /\ u.b.ptr # Null /\ u.b.size = n
      /\ Contents(u.b, u.h) =
           [i \in 1..n |-> IF i <= s.b.size THEN Contents(s.b, s.h)[i] ELSE Garbage]
  BY <1>1, <1>5, ResizeUninitFacts
<1>7. Leaves(o, t) /\ \A i \in DOMAIN bytes : bytes[i] \in Cell
  BY <1>4 DEF Cell
<1>8. t = Overwritten(u, bytes)
  OBVIOUS
<1> HIDE DEF u, t
<1>9. /\ GoodState(t) /\ Frame(u, t)
      /\ Contents(t.b, t.h) =
           [i \in 1..n |-> IF i \in DOMAIN bytes THEN bytes[i] ELSE Contents(u.b, u.h)[i]]
  <2>1. GoodState(u) /\ u.b.ptr # Null /\ u.b.size = n
    BY <1>6
  <2> QED BY <1>7, <1>8, <2>1, OverwrittenFacts
<1>10. Contents(t.b, t.h) = Arrays!Resized(bytes, n, Garbage)
  BY <1>1, <1>5, <1>6, <1>9 DEF Arrays!Resized
<1>11. IInv' /\ Held' = [Held EXCEPT ![o] = Contents(t.b, t.h)]
  <2>1. Frame(s, t) /\ IsOf(o, s)
    BY <1>1, <1>6, <1>9, FrameTransitive, StartsOf
  <2> QED BY <1>7, <1>9, <2>1, LeavesStep
<1>12. Arrays!CopyOf(o, n, bytes)
  BY <1>1, <1>10, <1>11 DEF Arrays!CopyOf, Arrays!Exists, Held
<1> QED BY <1>11, <1>12 DEF Arrays!Next

\* The end of an object
LEMMA DestroyAction ==
  ASSUME IInv, NEW o \in Objects, Destroy(o)
  PROVE  IInv' /\ Arrays!Next
<1> DEFINE s == On(o)
           t == _clear(s)
<1>1. /\ o \in Live /\ GoodState(s) /\ IsOf(o, s)
      /\ objs' = Without(objs, o) /\ heap' = t.h /\ misfreed' = t.wrong
  BY StartFacts, StartsOf DEF Destroy
<1> HIDE DEF s
<1>2. GoodState(t) /\ Frame(s, t) /\ t.b.ptr = Null
  <2>1. GoodState(t) /\ Frame(s, t) /\ t.b = Empty(s.b.alloc)
    BY <1>1, ClearFacts
  <2> QED BY <2>1 DEF Empty
<1> HIDE DEF t
<1>3. /\ Live' = Live \ {o} /\ \A x \in Live' : objs'[x] = objs[x]
      /\ objs' = [x \in Live' |-> objs'[x]]
  BY <1>1 DEF Live, Without
<1>4. IsHeap(heap') /\ misfreed' = FALSE /\ objs' \in [Live' -> Object]
  <2>1. IsHeap(heap') /\ misfreed' = FALSE
    BY <1>1, <1>2 DEF GoodState
  <2>2. \A x \in Live' : objs'[x] \in Object
    BY <1>3 DEF IInv
  <2> QED BY <1>3, <2>1, <2>2
<1>5. \A x \in Live' : /\ Owns(objs'[x], heap')
                      /\ Contents(objs'[x], heap') = Contents(objs[x], heap)
  BY <1>1, <1>2, <1>3, OthersKept
<1>6. ASSUME NEW p \in DOMAIN heap' PROVE \E x \in Live' : objs'[x].ptr = p
  <2>1. p \in DOMAIN t.h /\ p # t.b.ptr
    BY <1>1, <1>2, <1>6 DEF GoodState, IsHeap
  <2>2. \E x \in Live : x # o /\ objs[x].ptr = p
    BY <1>1, <1>2, <2>1, BlocksOwned
  <2> QED BY <1>3, <2>2
<1>7. OneToOne'
  BY <1>3, <1>5, <1>6 DEF IInv, OneToOne
<1>8. Held' = [Held EXCEPT ![o] = Gone]
  BY <1>3, <1>5 DEF Held
<1>9. Arrays!Destroy(o)
  BY <1>1, <1>8, HeldFacts DEF Arrays!Destroy, Arrays!Exists, Held
<1> QED BY <1>4, <1>7, <1>9 DEF IInv, Arrays!Next

\* A copy of an object
LEMMA CopyConstructAction ==
  ASSUME IInv, NEW o \in Objects, NEW from \in Objects, NEW alloc \in Allocs,
         CopyConstruct(o, from, alloc)
  PROVE  IInv' /\ Arrays!Next
<1> DEFINE s == New(alloc)
           data == Contents(objs[from], heap)
           t == CopyOf(s, data)
<1>1. o \notin Live /\ from \in Live /\ GoodState(s) /\ IsOf(o, s) /\ Leaves(o, t)
  BY StartFacts, StartsOf DEF CopyConstruct
<1>2. data \in Seq(Cell) /\ Held[from] = data /\ Held[from] # Gone
  BY <1>1, HeldFacts
<1> HIDE DEF s, data
<1>3. GoodState(t) /\ Frame(s, t) /\ Contents(t.b, t.h) = data
  BY <1>1, <1>2, CopyOfFacts
<1> HIDE DEF t
<1>4. IInv' /\ Held' = [Held EXCEPT ![o] = Held[from]]
  BY <1>1, <1>2, <1>3, LeavesStep
<1>5. Arrays!Copy(o, from)
  BY <1>1, <1>2, <1>4 DEF Arrays!Copy, Arrays!Exists, Held
<1> QED BY <1>4, <1>5 DEF Arrays!Next

\* The memory changes hands and is not touched.
LEMMA MoveConstructAction ==
  ASSUME SoundMoves, IInv,
         NEW o \in Objects, NEW from \in Objects, NEW alloc \in Allocs,
         MoveConstruct(o, from, alloc)
  PROVE  IInv' /\ Arrays!Next
<1> DEFINE b == MovedUnder(objs[from], alloc)
           left == MovedFrom(objs[from])
<1>1. /\ o \notin Live /\ from \in Live /\ (AnyMove \/ CanFree(objs[from], alloc))
      /\ objs' = With([objs EXCEPT ![from] = left], o, b)
      /\ heap' = heap /\ misfreed' = misfreed
  BY DEF MoveConstruct
<1>2. objs[from] \in Object /\ Owns(objs[from], heap)
  BY <1>1 DEF IInv, OneToOne
<1>3. CanFree(objs[from], alloc)
  BY <1>1, <1>2 DEF SoundMoves, CanFree, Object
<1>4. /\ left \in Object /\ left.ptr = Null /\ left.size = 0
      /\ b \in Object /\ b.ptr = objs[from].ptr /\ b.size = objs[from].size
      /\ b.alloc = alloc
  BY <1>2 DEF MovedFrom, MovedUnder, Empty, Object, Null
<1> HIDE DEF b, left
<1>5. /\ Live' = Live \cup {o} /\ o # from /\ objs'[o] = b /\ objs'[from] = left
      /\ \A x \in Live : x # from => objs'[x] = objs[x]
      /\ objs' = [x \in Live' |-> objs'[x]]
  BY <1>1 DEF Live, With
<1>6. Owns(b, heap) /\ Contents(b, heap) = Contents(objs[from], heap)
  BY <1>1, <1>2, <1>3, <1>4 DEF Owns, Contents, CanFree
<1>7. Owns(left, heap) /\ Contents(left, heap) = << >>
  BY <1>4 DEF Owns, Contents
<1>8. objs' \in [Live' -> Object]
  <2>1. \A x \in Live' : objs'[x] \in Object
    BY <1>4, <1>5 DEF IInv
  <2> QED BY <1>5, <2>1
<1>9. \A x \in Live' : Owns(objs'[x], heap')
  BY <1>1, <1>5, <1>6, <1>7 DEF IInv, OneToOne
<1>10. ASSUME NEW x \in Live', NEW y \in Live',
             objs'[x].ptr # Null, objs'[x].ptr = objs'[y].ptr
      PROVE  x = y
  <2> DEFINE was(z) == IF z = o THEN from ELSE z
  <2>1. \A z \in Live' : z # from =>
          /\ was(z) \in Live /\ objs'[z].ptr = objs[was(z)].ptr
    BY <1>1, <1>4, <1>5
  <2>2. x # from /\ y # from
    BY <1>4, <1>5, <1>10
  <2>3. was(x) \in Live /\ was(y) \in Live /\ objs[was(x)].ptr # Null
        /\ objs[was(x)].ptr = objs[was(y)].ptr
    BY <1>10, <2>1, <2>2
  <2>4. was(x) = was(y)
    <3> HIDE DEF was
    <3> QED BY <2>3 DEF IInv, OneToOne
  <2> QED BY <2>2, <2>4
<1>11. ASSUME NEW p \in DOMAIN heap' PROVE \E x \in Live' : objs'[x].ptr = p
  <2>1. PICK x \in Live : objs[x].ptr = p
    BY <1>1, <1>11 DEF IInv, OneToOne
  <2>2. CASE x = from
    BY <1>4, <1>5, <2>1, <2>2
  <2>3. CASE x # from
    BY <1>5, <2>1, <2>3
  <2> QED BY <2>2, <2>3
<1>12. IInv'
  BY <1>1, <1>8, <1>9, <1>10, <1>11 DEF IInv, OneToOne
<1>13. Held' = [Held EXCEPT ![o] = Held[from], ![from] = << >>]
  BY <1>1, <1>5, <1>6, <1>7 DEF Held
<1>14. Arrays!Move(o, from)
  BY <1>1, <1>13, HeldFacts DEF Arrays!Move, Arrays!Exists, Held
<1> QED BY <1>12, <1>14 DEF Arrays!Next

\* What a call on a living object starts from and what it may end with.
LEMMA OnLiving ==
  ASSUME IInv, NEW o \in Objects, o \in Live
  PROVE  /\ GoodState(On(o)) /\ On(o).b = objs[o] /\ On(o).h = heap
         /\ objs[o].size \in Nat
         /\ Held[o] = Contents(objs[o], heap) /\ Arrays!Exists(o)
         /\ DOMAIN Held[o] = 1..objs[o].size
         /\ \A t : GoodState(t) /\ Frame(On(o), t) /\ Leaves(o, t) =>
              IInv' /\ Held' = [Held EXCEPT ![o] = Contents(t.b, t.h)]
<1>1. GoodState(On(o)) /\ On(o).b = objs[o] /\ On(o).h = heap /\ IsOf(o, On(o))
  BY StartFacts, StartsOf, StateFields DEF On
<1>2. /\ objs[o].size \in Nat /\ Held[o] = Contents(objs[o], heap) /\ Held[o] # Gone
      /\ DOMAIN Held[o] = 1..objs[o].size
  BY HeldFacts
<1>3. Arrays!Exists(o)
  BY <1>2 DEF Arrays!Exists, Held
<1>4. ASSUME NEW t, GoodState(t), Frame(On(o), t), Leaves(o, t)
      PROVE  IInv' /\ Held' = [Held EXCEPT ![o] = Contents(t.b, t.h)]
  BY <1>1, <1>4, LeavesStep
<1> QED BY <1>1, <1>2, <1>3, <1>4

\* An object that keeps a prefix of its array, with a tail all alike or none.
LEMMA ResizedArray ==
  ASSUME IInv, NEW o \in Objects, o \in Live, NEW n \in 0..MaxSize, NEW pattern \in Cell,
         Held' = [Held EXCEPT ![o] =
           [i \in 1..n |-> IF i <= objs[o].size THEN Held[o][i] ELSE pattern]]
  PROVE  Arrays!Next
<1>1. /\ objs[o].size \in Nat /\ DOMAIN Held[o] = 1..objs[o].size /\ Arrays!Exists(o)
      /\ n \in Nat
  BY OnLiving, BytesAssumption
<1>2. [i \in 1..n |-> IF i <= objs[o].size THEN Held[o][i] ELSE pattern]
        = Arrays!Resized(Held[o], n, pattern)
  BY <1>1 DEF Arrays!Resized
<1>3. Held' = [Held EXCEPT ![o] = Arrays!Resized(Held[o], n, pattern)]
  BY <1>2
<1>4. Arrays!Resize(o, n, pattern)
  BY <1>1, <1>3 DEF Arrays!Resize, Held
<1> QED BY <1>4 DEF Arrays!Next, Cell

\* An object that is cleared.
LEMMA ClearedArray ==
  ASSUME IInv, NEW o \in Objects, o \in Live, Held' = [Held EXCEPT ![o] = << >>]
  PROVE  Arrays!Next
<1>1. 0 \in 0..MaxSize /\ Garbage \in Cell
  BY BytesAssumption DEF Cell
<1>2. << >> = [i \in 1..0 |-> IF i <= objs[o].size THEN Held[o][i] ELSE Garbage]
  OBVIOUS
<1>3. Held' = [Held EXCEPT ![o] =
        [i \in 1..0 |-> IF i <= objs[o].size THEN Held[o][i] ELSE Garbage]]
  BY <1>2
<1> QED BY ZenonT(60), <1>1, <1>3, ResizedArray

\* resize()
LEMMA ResizeAction ==
  ASSUME IInv, NEW o \in Objects, NEW n \in 0..MaxSize, Resize(o, n)
  PROVE  IInv' /\ Arrays!Next
<1> DEFINE s == On(o)
<1>1. /\ o \in Live /\ GoodState(s) /\ s.b = objs[o] /\ s.h = heap /\ n \in Nat
      /\ Contents(s.b, s.h) = Held[o]
  BY OnLiving, BytesAssumption DEF Resize
<1>2. CASE Leaves(o, _resize_uninit(s, n))
  <2> DEFINE t == _resize_uninit(s, n)
  <2>1. /\ GoodState(t) /\ Frame(s, t) /\ Leaves(o, t) /\ Garbage \in Cell
        /\ Contents(t.b, t.h) =
             [i \in 1..n |-> IF i <= s.b.size THEN Contents(s.b, s.h)[i] ELSE Garbage]
    BY <1>1, <1>2, ResizeUninitFacts DEF Cell
  <2> HIDE DEF t
  <2>2. IInv' /\ Held' = [Held EXCEPT ![o] = Contents(t.b, t.h)]
    BY <1>1, <2>1, OnLiving
  <2>3. Held' = [Held EXCEPT ![o] =
          [i \in 1..n |-> IF i <= objs[o].size THEN Held[o][i] ELSE Garbage]]
    BY <1>1, <2>1, <2>2
  <2> QED BY <1>1, <2>1, <2>2, <2>3, ResizedArray
<1>3. CASE \E pattern \in Byte : Leaves(o, resize(s, n, pattern))
  <2>1. PICK pattern \in Byte : Leaves(o, resize(s, n, pattern))
    BY <1>3
  <2> DEFINE t == resize(s, n, pattern)
  <2>2. /\ GoodState(t) /\ Frame(s, t) /\ Leaves(o, t) /\ pattern \in Cell
        /\ Contents(t.b, t.h) =
             [i \in 1..n |-> IF i <= s.b.size THEN Contents(s.b, s.h)[i] ELSE pattern]
    BY <1>1, <2>1, ResizeFacts DEF Cell
  <2> HIDE DEF t
  <2>3. IInv' /\ Held' = [Held EXCEPT ![o] = Contents(t.b, t.h)]
    BY <1>1, <2>2, OnLiving
  <2>4. Held' = [Held EXCEPT ![o] =
          [i \in 1..n |-> IF i <= objs[o].size THEN Held[o][i] ELSE pattern]]
    BY <1>1, <2>2, <2>3
  <2> QED BY <1>1, <2>2, <2>3, <2>4, ResizedArray
<1> QED BY <1>2, <1>3 DEF Resize

\* clear()
LEMMA ClearAction ==
  ASSUME IInv, NEW o \in Objects, Clear(o)
  PROVE  IInv' /\ Arrays!Next
<1> DEFINE t == _clear(On(o))
<1>1. o \in Live /\ GoodState(On(o)) /\ Leaves(o, t)
  BY OnLiving DEF Clear
<1>2. GoodState(t) /\ Frame(On(o), t) /\ t.b = Empty(On(o).b.alloc)
  BY <1>1, ClearFacts
<1> HIDE DEF t
<1>3. IInv' /\ Held' = [Held EXCEPT ![o] = Contents(t.b, t.h)]
  BY <1>1, <1>2, OnLiving
<1>4. Contents(t.b, t.h) = << >>
  BY <1>2 DEF Contents, Empty
<1> QED BY <1>1, <1>3, <1>4, ClearedArray

\* The old block goes back to the old allocator before the new one is taken
\* over, also when an object is assigned to itself.
LEMMA CopyAssignAction ==
  ASSUME IInv, NEW o \in Objects, NEW from \in Objects, CopyAssign(o, from)
  PROVE  IInv' /\ Arrays!Next
<1> DEFINE s == _clear(On(o))
           cleared == State(Empty(objs[from].alloc), s.h, s.wrong)
           other == IF from = o THEN cleared.b ELSE objs[from]
           data == Contents(other, heap)
           t == CopyOf(cleared, data)
<1>1. o \in Live /\ from \in Live /\ GoodState(On(o)) /\ Leaves(o, t)
  BY OnLiving DEF CopyAssign
<1>2. GoodState(s) /\ Frame(On(o), s) /\ s.b = Empty(On(o).b.alloc)
  BY <1>1, ClearFacts
<1>3. objs[from].alloc \in Allocs
  BY <1>1 DEF IInv, Object
<1> HIDE DEF s
<1>4. cleared.b = Empty(objs[from].alloc) /\ cleared.h = s.h /\ cleared.wrong = s.wrong
  BY StateFields
<1> HIDE DEF cleared
<1>5. GoodState(cleared) /\ Frame(On(o), cleared)
  <2>1. IsHeap(s.h) /\ s.wrong = FALSE /\ s.b.ptr = Null
    BY <1>2 DEF GoodState, Empty
  <2>2. cleared.b \in Object /\ cleared.b.ptr = Null /\ cleared.b.size = 0
    BY <1>3, <1>4 DEF Empty, Object, Null
  <2>3. GoodState(cleared)
    BY <1>4, <2>1, <2>2 DEF GoodState, Owns
  <2>4. Frame(On(o), cleared)
    BY <1>2, <1>4, <2>1, <2>2 DEF Frame
  <2> QED BY <2>3, <2>4
<1>6. data = (IF from = o THEN << >> ELSE Held[from]) /\ data \in Seq(Cell)
  BY <1>1, <1>4, HeldFacts DEF Contents, Empty
<1> HIDE DEF data
<1>7. GoodState(t) /\ Frame(cleared, t) /\ Contents(t.b, t.h) = data
  BY <1>5, <1>6, CopyOfFacts
<1> HIDE DEF t
<1>8. Frame(On(o), t)
  BY <1>5, <1>7, FrameTransitive
<1>9. IInv' /\ Held' = [Held EXCEPT ![o] = data]
  BY <1>1, <1>7, <1>8, OnLiving
<1>10. CASE from = o
  BY <1>1, <1>6, <1>9, <1>10, ClearedArray
<1>11. CASE from # o
  <2>1. Held' = [Held EXCEPT ![o] = Held[from]]
    BY <1>6, <1>9, <1>11
  <2>2. Arrays!Copy(o, from)
    BY <1>1, <1>11, <2>1, OnLiving DEF Arrays!Copy, Held
  <2> QED BY <1>9, <2>2 DEF Arrays!Next
<1> QED BY <1>10, <1>11

\* Bytes written through the object.
LEMMA WrittenArray ==
  ASSUME IInv, NEW o \in Objects, o \in Live, objs[o].size > 0,
         NEW bytes, \A i \in DOMAIN bytes : bytes[i] \in Byte,
         Leaves(o, Overwritten(On(o), bytes))
  PROVE  /\ IInv'
         /\ Held' = [Held EXCEPT ![o] =
              [i \in 1..objs[o].size |->
                 IF i \in DOMAIN bytes THEN bytes[i] ELSE Held[o][i]]]
<1> DEFINE t == Overwritten(On(o), bytes)
<1>1. /\ GoodState(On(o)) /\ On(o).b = objs[o] /\ On(o).h = heap
      /\ Held[o] = Contents(objs[o], heap) /\ objs[o].ptr # Null
  <2>1. Owns(objs[o], heap)
    BY DEF IInv, OneToOne
  <2> QED BY <2>1, OnLiving DEF Owns
<1>2. \A i \in DOMAIN bytes : bytes[i] \in Cell
  BY DEF Cell
<1>3. /\ GoodState(t) /\ Frame(On(o), t)
      /\ Contents(t.b, t.h) =
           [i \in 1..objs[o].size |->
              IF i \in DOMAIN bytes THEN bytes[i] ELSE Held[o][i]]
  BY <1>1, <1>2, OverwrittenFacts
<1>4. Leaves(o, t)
  OBVIOUS
<1> HIDE DEF t
<1> QED BY <1>3, <1>4, OnLiving

\* Bytes are stored from outside.
LEMMA FillAction ==
  ASSUME IInv, NEW o \in Objects, NEW pattern \in Byte, Fill(o, pattern)
  PROVE  IInv' /\ Arrays!Next
<1> DEFINE n == objs[o].size
           bytes == [i \in 1..n |-> pattern]
<1>1. /\ o \in Live /\ n > 0 /\ Leaves(o, Overwritten(On(o), bytes))
      /\ Arrays!Exists(o) /\ DOMAIN Held[o] = 1..n
  BY OnLiving DEF Fill
<1>2. \A i \in DOMAIN bytes : bytes[i] \in Byte
  OBVIOUS
<1>3. DOMAIN bytes = 1..n /\ \A i \in 1..n : bytes[i] = pattern
  OBVIOUS
<1> HIDE DEF bytes
<1>4. /\ IInv'
      /\ Held' = [Held EXCEPT ![o] =
           [i \in 1..n |-> IF i \in DOMAIN bytes THEN bytes[i] ELSE Held[o][i]]]
  BY <1>1, <1>2, WrittenArray
<1>5. Held' = [Held EXCEPT ![o] = [i \in DOMAIN Held[o] |-> pattern]]
  BY <1>1, <1>3, <1>4
<1>6. Arrays!Fill(o, pattern)
  BY <1>1, <1>5 DEF Arrays!Fill, Held
<1> QED BY <1>4, <1>6 DEF Arrays!Next

\* One byte is stored from outside.
LEMMA StoreAction ==
  ASSUME IInv, NEW o \in Objects, NEW byte \in Byte, Store(o, byte)
  PROVE  IInv' /\ Arrays!Next
<1> DEFINE n == objs[o].size
<1>1. PICK k \in 1..n : Leaves(o, Overwritten(On(o), [i \in {k} |-> byte]))
  BY DEF Store
<1> DEFINE bytes == [i \in {k} |-> byte]
<1>2. /\ o \in Live /\ n > 0 /\ Leaves(o, Overwritten(On(o), bytes))
      /\ Arrays!Exists(o) /\ DOMAIN Held[o] = 1..n /\ n \in Nat
  <2>1. o \in Live
    BY DEF Store
  <2>2. n \in Nat /\ Arrays!Exists(o) /\ DOMAIN Held[o] = 1..n
    BY <2>1, OnLiving
  <2> QED BY <1>1, <2>1, <2>2
<1>3. DOMAIN bytes = {k} /\ bytes[k] = byte
  OBVIOUS
<1> HIDE DEF bytes
<1>4. \A i \in DOMAIN bytes : bytes[i] \in Byte
  BY <1>3
<1>5. /\ IInv'
      /\ Held' = [Held EXCEPT ![o] =
           [i \in 1..n |-> IF i \in DOMAIN bytes THEN bytes[i] ELSE Held[o][i]]]
  BY <1>2, <1>4, WrittenArray
<1>6. [i \in 1..n |-> IF i \in DOMAIN bytes THEN bytes[i] ELSE Held[o][i]]
        = [Held[o] EXCEPT ![k] = byte]
  BY <1>2, <1>3, HeldFacts
<1>7. Held' = [Held EXCEPT ![o] = [Held[o] EXCEPT ![k] = byte]]
  BY <1>5, <1>6
<1>8. Arrays!Store(o, k, byte) /\ k \in DOMAIN Held[o]
  BY <1>2, <1>7 DEF Arrays!Store, Held
<1> QED BY <1>2, <1>5, <1>8 DEF Arrays!Next, Held

\* Every step keeps the invariant and is one of ByteArrays.
LEMMA NextAction ==
  ASSUME SoundMoves
  PROVE  IInv /\ Next => IInv' /\ Arrays!Next
<1> SUFFICES ASSUME IInv, NEW o \in Objects,
                    \/ \E alloc \in Allocs :
                         \/ Construct(o, alloc)
                         \/ Copy(o, alloc)
                         \/ \E from \in Objects :
                              CopyConstruct(o, from, alloc) \/ MoveConstruct(o, from, alloc)
                    \/ Destroy(o)
                    \/ \E from \in Objects : CopyAssign(o, from)
                    \/ \E n \in 0..MaxSize : Resize(o, n)
                    \/ Clear(o)
                    \/ \E byte \in Byte : Fill(o, byte) \/ Store(o, byte)
             PROVE  IInv' /\ Arrays!Next
  BY DEF Next
<1>1. CASE \E alloc \in Allocs :
             \/ Construct(o, alloc)
             \/ Copy(o, alloc)
             \/ \E from \in Objects :
                  CopyConstruct(o, from, alloc) \/ MoveConstruct(o, from, alloc)
  BY <1>1, ConstructAction, CopyAction, CopyConstructAction, MoveConstructAction
<1>2. CASE Destroy(o)
  BY <1>2, DestroyAction
<1>3. CASE \E from \in Objects : CopyAssign(o, from)
  BY <1>3, CopyAssignAction
<1>4. CASE \E n \in 0..MaxSize : Resize(o, n)
  BY <1>4, ResizeAction
<1>5. CASE Clear(o)
  BY <1>5, ClearAction
<1>6. CASE \E byte \in Byte : Fill(o, byte) \/ Store(o, byte)
  BY <1>6, FillAction, StoreAction
<1> QED BY <1>1, <1>2, <1>3, <1>4, <1>5, <1>6

-----------------------------------------------------------------------------
(* The theorems *)

\* The inductive invariant holds in every state of every execution.
THEOREM Invariance == ASSUME SoundMoves PROVE Spec => []IInv
<1>1. Init => IInv
  <2> SUFFICES ASSUME Init PROVE IInv
    OBVIOUS
  <2>1. /\ DOMAIN objs = {} /\ DOMAIN heap = {} /\ misfreed = FALSE
        /\ objs \in [{} -> Object] /\ heap \in [{} -> Block]
    BY DEF Init
  <2>2. IsFiniteSet({})
    BY FS_EmptySet
  <2> QED BY <2>1, <2>2 DEF IInv, IsHeap, OneToOne, Live
<1>2. IInv /\ UNCHANGED vars => IInv'
  BY DEF vars, IInv, IsHeap, OneToOne, Live, Owns
<1>3. IInv /\ [Next]_vars => IInv'
  BY <1>2, NextAction
<1> QED BY <1>1, <1>3, PTL DEF Spec

\* Every block has one owner, which knows its size and its allocator: nothing
\* leaks, nothing is freed twice and nothing goes back to the wrong allocator,
\* if objects move only under allocators that can free what they hold
\* (bytes.hpp:52-91, 183-218).
THEOREM EveryBlockOwned == ASSUME SoundMoves PROVE Spec => []OwnedOnce
<1>1. IInv => OwnedOnce
  <2> SUFFICES ASSUME IInv PROVE OwnedOnce
    OBVIOUS
  <2>1. ASSUME NEW p \in DOMAIN heap
        PROVE  Cardinality({o \in Live : objs[o].ptr = p}) = 1
    <3>1. PICK o \in Live : objs[o].ptr = p
      BY DEF IInv, OneToOne
    <3>2. {q \in Live : objs[q].ptr = p} = {o}
      BY <3>1 DEF IInv, OneToOne, IsHeap
    <3> QED BY <3>2, FS_Singleton
  <2>2. ASSUME NEW o \in Live
        PROVE  IF objs[o].ptr = Null THEN objs[o].size = 0
               ELSE /\ objs[o].ptr \in DOMAIN heap
                    /\ heap[objs[o].ptr].alloc = objs[o].alloc
                    /\ Len(heap[objs[o].ptr].data) = objs[o].size
    BY DEF IInv, OneToOne, Owns
  <2> QED BY <2>1, <2>2 DEF OwnedOnce, IInv
<1> QED BY <1>1, Invariance, PTL

\* Each object is an array of bytes of its own: what is done to one is not seen
\* in another, whatever blocks they get (bytes.hpp:52-260).  What memory that was
\* given back wrongly holds is not defined, so the moves have to be sound.
THEOREM AreByteArrays == ASSUME SoundMoves PROVE Spec => ImplementsByteArrays
<1>1. Init => Arrays!Init
  BY DEF Init, Arrays!Init, Live
<1>2. IInv /\ [Next]_vars => [Arrays!Next]_Held
  <2>1. UNCHANGED vars => Held' = Held
    BY DEF vars, Held, Live, Contents
  <2> QED BY <2>1, NextAction
<1>3. [Arrays!Next]_Held =>
        [Arrays!Next]_[o \in Objects |-> IF o \in Live THEN Contents(objs[o], heap) ELSE Gone]
  BY DEF Held
<1> QED BY <1>1, <1>2, <1>3, Invariance, PTL DEF Spec, ImplementsByteArrays, Arrays!Spec
=============================================================================
