------------------------- MODULE LowLevelCopyProofs -------------------------
(***************************************************************************)
(* What the byte loops do, for every memory and every two areas.  The      *)
(* invariant says that the bytes already copied are where they belong and  *)
(* that the rest of the memory, which holds the bytes still to be copied,  *)
(* is as the call found it.                                                *)
(***************************************************************************)
EXTENDS LowLevelCopy, TLAPS

\* The loop that starts at the front never moves up, the one that starts at
\* the back never moves down; the pointers are where s says.
Pointers ==
  /\ Areas(call.dest, call.src, call.size)
  /\ loop = "idle" => s = 0
  /\ s <= call.size
  /\ loop = "forward" =>
       /\ call.dest <= call.src
       /\ dest = call.dest + (call.size - s) /\ src = call.src + (call.size - s)
  /\ loop = "backward" =>
       /\ call.dest >= call.src
       /\ dest = call.dest + s /\ src = call.src + s

\* The memory with the copied part of the areas copied
Sofar ==
  IF loop = "forward"
  THEN Moved(call.mem, MemSize, call.dest, call.src, call.size - s)
  ELSE Moved(call.mem, MemSize, call.dest + s, call.src + s, call.size - s)

IInv == TypeOK /\ Pointers /\ mem = Sofar

-----------------------------------------------------------------------------
(* One byte *)

\* Nothing is moved by a copy of no bytes.
LEMMA MovedNothing ==
  ASSUME NEW len \in Nat, NEW m \in [Cells(len) -> Byte],
         NEW d \in Int, NEW r \in Int
  PROVE  Moved(m, len, d, r, 0) = m
<1>1. \A k \in Int : k \notin Cells(0)
  BY DEF Cells
<1>2. \A c \in Cells(len) : c - d \in Int
  BY DEF Cells
<1> QED BY <1>1, <1>2 DEF Moved

\* A loop that runs up, to cells no higher than those it reads, copies one
\* more byte at the end.
LEMMA OneMoreUp ==
  ASSUME NEW len \in Nat, NEW m \in [Cells(len) -> Byte],
         NEW d \in Nat, NEW r \in Nat, NEW k \in Nat,
         d <= r, r + k < len
  PROVE  LET g == Moved(m, len, d, r, k) IN
         [g EXCEPT ![d + k] = g[r + k]] = Moved(m, len, d, r, k + 1)
<1> DEFINE g == Moved(m, len, d, r, k)
           h == Moved(m, len, d, r, k + 1)
<1>1. d + k \in Cells(len) /\ r + k \in Cells(len) /\ (r + k) - d \notin Cells(k)
  BY DEF Cells
<1>2. g[r + k] = m[r + k]
  BY <1>1 DEF Moved
<1>3. ASSUME NEW c \in Cells(len), c # d + k
      PROVE  g[c] = h[c]
  <2>1. c - d \in Cells(k + 1) <=> c - d \in Cells(k)
    BY <1>3 DEF Cells
  <2> QED BY <2>1 DEF Moved
<1>4. h[d + k] = m[r + k]
  <2>1. (d + k) - d = k /\ k \in Cells(k + 1)
    BY DEF Cells
  <2> QED BY <1>1, <2>1 DEF Moved
<1>5. /\ g = [c \in Cells(len) |-> g[c]]
      /\ h = [c \in Cells(len) |-> h[c]]
  BY DEF Moved
<1> HIDE DEF g, h
<1>6. [g EXCEPT ![d + k] = g[r + k]] = h
  BY <1>1, <1>2, <1>3, <1>4, <1>5
<1> QED BY <1>6 DEF g, h

\* A loop that runs down, to cells no lower than those it reads, copies one
\* more byte at the front.
LEMMA OneMoreDown ==
  ASSUME NEW len \in Nat, NEW m \in [Cells(len) -> Byte],
         NEW d \in Nat, NEW r \in Nat, NEW k \in Nat,
         r <= d, d < len
  PROVE  LET g == Moved(m, len, d + 1, r + 1, k) IN
         [g EXCEPT ![d] = g[r]] = Moved(m, len, d, r, k + 1)
<1> DEFINE g == Moved(m, len, d + 1, r + 1, k)
           h == Moved(m, len, d, r, k + 1)
<1>1. d \in Cells(len) /\ r \in Cells(len) /\ r - (d + 1) \notin Cells(k)
  BY DEF Cells
<1>2. g[r] = m[r]
  BY <1>1 DEF Moved
<1>3. ASSUME NEW c \in Cells(len), c # d
      PROVE  g[c] = h[c]
  <2>1. /\ c - d \in Cells(k + 1) <=> c - (d + 1) \in Cells(k)
        /\ (r + 1) + (c - (d + 1)) = r + (c - d)
    BY <1>3 DEF Cells
  <2> QED BY <2>1 DEF Moved
<1>4. h[d] = m[r]
  <2>1. d - d = 0 /\ 0 \in Cells(k + 1) /\ r + 0 = r
    BY DEF Cells
  <2> QED BY <1>1, <2>1 DEF Moved
<1>5. /\ g = [c \in Cells(len) |-> g[c]]
      /\ h = [c \in Cells(len) |-> h[c]]
  BY DEF Moved
<1> HIDE DEF g, h
<1>6. [g EXCEPT ![d] = g[r]] = h
  BY <1>1, <1>2, <1>3, <1>4, <1>5
<1> QED BY <1>6 DEF g, h

-----------------------------------------------------------------------------
(* The invariant *)

\* A copy starts with nothing moved.
LEMMA InitInvariant == Init => IInv
<1> SUFFICES ASSUME Init PROVE IInv
  OBVIOUS
<1>1. TypeOK
  BY MemSizeAssumption DEF Init, TypeOK, Memory
<1>2. Pointers
  BY MemSizeAssumption DEF Init, Pointers, Areas
<1>3. mem = Sofar
  <2>1. mem \in [Cells(MemSize) -> Byte]
    BY DEF Init, Memory
  <2>2. Moved(mem, MemSize, 0 + 0, 0 + 0, 0 - 0) = mem
    BY <2>1, MemSizeAssumption, MovedNothing
  <2> QED BY <2>2 DEF Init, Sofar
<1> QED BY <1>1, <1>2, <1>3 DEF IInv

\* A call finds the invariant true of no byte copied.
LEMMA CalledInvariant ==
  ASSUME IInv, NEW d \in 0..MemSize, NEW r \in 0..MemSize, NEW n \in 0..MemSize,
         \/ d <= r /\ Forward(d, r, n)
         \/ d >= r /\ Backward(d, r, n)
  PROVE  IInv'
<1>1. /\ mem \in [Cells(MemSize) -> Byte] /\ mem' = mem /\ s' = n
      /\ call' = [dest |-> d, src |-> r, size |-> n, mem |-> mem]
      /\ Areas(d, r, n) /\ loop' \in {"forward", "backward"}
  BY DEF IInv, TypeOK, Memory, Forward, Backward, Called
<1>2. TypeOK'
  BY <1>1, MemSizeAssumption DEF TypeOK, Memory, Areas, Forward, Backward
<1>3. Pointers'
  BY <1>1, MemSizeAssumption DEF Pointers, Areas, Forward, Backward
<1>4. (mem = Sofar)'
  <2>1. n - n = 0
    OBVIOUS
  <2>2. \A a, b \in Int : Moved(mem, MemSize, a, b, 0) = mem
    BY <1>1, MemSizeAssumption, MovedNothing
  <2>3. d \in Int /\ r \in Int /\ d + n \in Int /\ r + n \in Int
    BY MemSizeAssumption
  <2>4. /\ call'.mem = mem /\ call'.size - s' = 0 /\ call'.dest = d /\ call'.src = r
        /\ s' = n
    BY <1>1, <2>1
  <2> QED BY <1>1, <2>2, <2>3, <2>4 DEF Sofar
<1> QED BY <1>2, <1>3, <1>4 DEF IInv

\* A step of the copy from the front
LEMMA ForwardStepInvariant == IInv /\ ForwardStep => IInv'
<1> SUFFICES ASSUME IInv, ForwardStep PROVE IInv'
  OBVIOUS
<1> DEFINE k == call.size - s
<1>1. /\ call.dest \in Nat /\ call.src \in Nat /\ k \in Nat /\ s \in Nat /\ s > 0
      /\ call.dest <= call.src /\ call.src + k < MemSize /\ s <= call.size
      /\ call.size \in Nat /\ dest = call.dest + k /\ src = call.src + k
      /\ call.src + call.size <= MemSize /\ call.dest + call.size <= MemSize
  BY MemSizeAssumption DEF IInv, TypeOK, Pointers, Areas, ForwardStep
<1>2. /\ mem \in [Cells(MemSize) -> Byte] /\ call.mem \in [Cells(MemSize) -> Byte]
      /\ loop = "forward" /\ loop' = "forward" /\ call' = call
      /\ dest' = dest + 1 /\ src' = src + 1 /\ s' = s - 1
      /\ mem' = [mem EXCEPT ![dest] = mem[src]]
      /\ mem = Moved(call.mem, MemSize, call.dest, call.src, k)
  BY DEF IInv, TypeOK, Memory, ForwardStep, Sofar
<1>3. k + 1 = call.size - (s - 1)
  BY <1>1
<1> HIDE DEF k
<1>4. TypeOK'
  <2>1. src \in Cells(MemSize)
    BY <1>1, MemSizeAssumption DEF Cells
  <2>2. mem' \in Memory
    BY <1>2, <2>1 DEF Memory
  <2>3. dest' \in 0..MemSize /\ src' \in 0..MemSize /\ s' \in 0..MemSize
    BY <1>1, <1>2, MemSizeAssumption
  <2> QED BY <1>2, <2>2, <2>3 DEF TypeOK, IInv
<1>5. Pointers'
  BY <1>1, <1>2, <1>3 DEF Pointers, Areas
<1>6. mem' = Moved(call.mem, MemSize, call.dest, call.src, k + 1)
  <2> DEFINE g == Moved(call.mem, MemSize, call.dest, call.src, k)
  <2>1. [g EXCEPT ![call.dest + k] = g[call.src + k]]
          = Moved(call.mem, MemSize, call.dest, call.src, k + 1)
    <3>1. /\ MemSize \in Nat /\ call.mem \in [Cells(MemSize) -> Byte]
          /\ call.dest \in Nat /\ call.src \in Nat /\ k \in Nat
          /\ call.dest <= call.src /\ call.src + k < MemSize
      BY <1>1, <1>2, MemSizeAssumption
    <3> HIDE DEF g
    <3>2. g = Moved(call.mem, MemSize, call.dest, call.src, k)
      BY DEF g
    <3> QED BY ONLY <3>1, <3>2, OneMoreUp
  <2> QED BY <1>1, <1>2, <2>1
<1>7. (mem = Sofar)'
  BY <1>2, <1>3, <1>6 DEF Sofar
<1> QED BY <1>4, <1>5, <1>7 DEF IInv

\* A step of the copy from the back
LEMMA BackwardStepInvariant == IInv /\ BackwardStep => IInv'
<1> SUFFICES ASSUME IInv, BackwardStep PROVE IInv'
  OBVIOUS
<1> DEFINE k == call.size - s
           d == dest - 1
           r == src - 1
<1>1. /\ d \in Nat /\ r \in Nat /\ k \in Nat /\ s \in Nat /\ s > 0
      /\ r <= d /\ d < MemSize /\ s <= call.size /\ call.size \in Nat
      /\ call.dest \in Nat /\ call.src \in Nat
      /\ d + 1 = call.dest + s /\ r + 1 = call.src + s
      /\ d = call.dest + (s - 1) /\ r = call.src + (s - 1)
      /\ call.src + call.size <= MemSize /\ call.dest + call.size <= MemSize
      /\ call.dest >= call.src
  BY MemSizeAssumption DEF IInv, TypeOK, Pointers, Areas, BackwardStep
<1>2. /\ mem \in [Cells(MemSize) -> Byte] /\ call.mem \in [Cells(MemSize) -> Byte]
      /\ loop = "backward" /\ loop' = "backward" /\ call' = call
      /\ dest' = d /\ src' = r /\ s' = s - 1
      /\ mem' = [mem EXCEPT ![d] = mem[r]]
      /\ mem = Moved(call.mem, MemSize, call.dest + s, call.src + s, k)
  BY DEF IInv, TypeOK, Memory, BackwardStep, Sofar
<1>3. k + 1 = call.size - (s - 1)
  BY <1>1
<1> HIDE DEF k, d, r
<1>4. TypeOK'
  <2>1. r \in Cells(MemSize) /\ mem[r] \in Byte
    <3>1. r \in Cells(MemSize)
      BY ONLY <1>1, MemSizeAssumption DEF Cells
    <3> QED BY ONLY <1>2, <3>1
  <2>2. mem' \in Memory
    BY <1>2, <2>1 DEF Memory
  <2>3. dest' \in 0..MemSize /\ src' \in 0..MemSize /\ s' \in 0..MemSize
    BY <1>1, <1>2, MemSizeAssumption
  <2> QED BY <1>2, <2>2, <2>3 DEF TypeOK, IInv
<1>5. Pointers'
  BY <1>1, <1>2 DEF Pointers, Areas
<1>6. mem' = Moved(call.mem, MemSize, d, r, k + 1)
  <2> DEFINE g == Moved(call.mem, MemSize, d + 1, r + 1, k)
  <2>1. [g EXCEPT ![d] = g[r]] = Moved(call.mem, MemSize, d, r, k + 1)
    <3>1. /\ MemSize \in Nat /\ call.mem \in [Cells(MemSize) -> Byte]
          /\ d \in Nat /\ r \in Nat /\ k \in Nat /\ r <= d /\ d < MemSize
      BY <1>1, <1>2, MemSizeAssumption
    <3> HIDE DEF g
    <3>2. g = Moved(call.mem, MemSize, d + 1, r + 1, k)
      BY DEF g
    <3> QED BY ONLY <3>1, <3>2, OneMoreDown
  <2>2. mem = g
    BY <1>1, <1>2
  <2> HIDE DEF g
  <2> QED BY <1>2, <2>1, <2>2
<1>7. (mem = Sofar)'
  BY <1>1, <1>2, <1>3, <1>6 DEF Sofar
<1> QED BY <1>4, <1>5, <1>7 DEF IInv

\* When the loop is left the whole of the areas has been copied.
LEMMA ReturnInvariant == IInv /\ Return => IInv'
<1> SUFFICES ASSUME IInv, Return PROVE IInv'
  OBVIOUS
<1>1. /\ s = 0 /\ loop' = "idle" /\ UNCHANGED <<mem, dest, src, s, call>>
      /\ call.dest \in Nat /\ call.src \in Nat
  BY DEF IInv, TypeOK, Return
<1>2. TypeOK' /\ Pointers'
  BY <1>1 DEF IInv, TypeOK, Pointers, Areas
<1>3. call.dest + 0 = call.dest /\ call.src + 0 = call.src
  BY <1>1
<1>4. (mem = Sofar)'
  BY <1>1, <1>3 DEF IInv, Sofar
<1> QED BY <1>2, <1>4 DEF IInv

\* Every step of the copy keeps the invariant.
THEOREM Invariance == Spec => []IInv
<1>1. IInv /\ [Next]_vars => IInv'
  <2> SUFFICES ASSUME IInv, [Next]_vars PROVE IInv'
    OBVIOUS
  <2>1. ASSUME NEW d \in 0..MemSize, NEW r \in 0..MemSize, NEW n \in 0..MemSize,
               CopySafe(d, r, n) \/ CopyDown(d, r, n)
        PROVE  IInv'
    <3>1. \/ d <= r /\ Forward(d, r, n)
          \/ d >= r /\ Backward(d, r, n)
      BY <2>1, MemSizeAssumption DEF CopySafe, CopyDown, TakesForward
    <3> QED BY <3>1, CalledInvariant
  <2>2. CASE UNCHANGED vars
    BY <2>2 DEF vars, IInv, TypeOK, Pointers, Areas, Sofar
  <2> QED BY <2>1, <2>2, ForwardStepInvariant, BackwardStepInvariant,
             ReturnInvariant DEF Next
<1> QED BY <1>1, InitInvariant, PTL DEF Spec

\* The pointers and the counter of the loop stay in the memory
\* (copy.hpp:23-41).
THEOREM TypeCorrect == Spec => []TypeOK
BY Invariance, PTL DEF IInv

\* A finished copy has moved the whole source area, overlapping or not, and
\* changed nothing else (copy.hpp:23-71).
THEOREM CopyCorrect == Spec => []CopiesAsCalled
<1>1. IInv => CopiesAsCalled
  <2> SUFFICES ASSUME IInv, s = 0 PROVE mem = Promised
    BY DEF CopiesAsCalled
  <2>1. /\ call.dest + 0 = call.dest /\ call.src + 0 = call.src
        /\ call.size - 0 = call.size
    BY DEF IInv, TypeOK
  <2> QED BY <2>1 DEF IInv, Sofar, Promised
<1> QED BY <1>1, Invariance, PTL

\* No byte outside the two areas of the call is read or written
\* (copy.hpp:24-41).
THEOREM AreasRespected == Spec => []StaysInAreas
<1>1. IInv => StaysInAreas
  <2> SUFFICES ASSUME IInv PROVE StaysInAreas
    OBVIOUS
  <2> USE DEF IInv, TypeOK, Pointers, Areas, StaysInAreas, Cells
  <2>1. CASE loop = "forward"
    BY <2>1, MemSizeAssumption
  <2>2. CASE loop = "backward"
    BY <2>2, MemSizeAssumption
  <2>3. CASE loop = "idle"
    BY <2>3, MemSizeAssumption
  <2> QED BY <2>1, <2>2, <2>3
<1> QED BY <1>1, Invariance, PTL
=============================================================================
