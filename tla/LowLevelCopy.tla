---------------------------- MODULE LowLevelCopy ----------------------------
(***************************************************************************)
(* The byte loops under buffer_copy, run one byte at a time over a memory  *)
(* in which the two areas may overlap.  ll_buffer_copy_safe picks the      *)
(* direction by comparing the two pointers; the container adaptor's        *)
(* consume() asks for the forward loop itself.                             *)
(***************************************************************************)
EXTENDS ByteStore

CONSTANTS Byte,     \* the values of a cell
          MemSize   \* cells of memory

ASSUME MemSizeAssumption == MemSize \in Nat

VARIABLES mem,   \* the memory
          dest,  \* the pointers of the loop
          src,
          s,     \* how many bytes the loop has left
          loop,  \* "forward", "backward", or "idle" outside a copy
          call   \* history: the call's dest, src, size, and the memory it found

vars == <<mem, dest, src, s, loop, call>>

Memory == [Cells(MemSize) -> Byte]

Init ==
  /\ mem \in Memory
  /\ dest = 0 /\ src = 0 /\ s = 0 /\ loop = "idle"
  /\ call = [dest |-> 0, src |-> 0, size |-> 0, mem |-> mem]

\* Two areas of n bytes in the memory
Areas(d, r, n) == d + n <= MemSize /\ r + n <= MemSize

Called(d, r, n) ==
  /\ loop = "idle" /\ Areas(d, r, n)
  /\ call' = [dest |-> d, src |-> r, size |-> n, mem |-> mem]
  /\ s' = n
  /\ UNCHANGED mem

Forward(d, r, n) ==
  /\ Called(d, r, n)
  /\ loop' = "forward" /\ dest' = d /\ src' = r

\* Mutant of Backward: the pointers stay at the front of the areas
BackwardFromFront(d, r, n) ==
  /\ Called(d, r, n)
  /\ loop' = "backward" /\ dest' = d /\ src' = r

\* The backward loop first moves its pointers past the areas
Backward(d, r, n) ==
  /\ Called(d, r, n)
  /\ loop' = "backward" /\ dest' = d + n /\ src' = r + n

\* Mutant of TakesForward: the comparison is the wrong way around
TakesForwardSwapped(d, r) == d > r

\* The direction ll_buffer_copy_safe takes
TakesForward(d, r) == d < r

CopySafe(d, r, n) ==
  IF TakesForward(d, r) THEN Forward(d, r, n) ELSE Backward(d, r, n)

\* buffer_copy(dest, dest + n_bytes, ll_buffer_copy_forward) of consume()
CopyDown(d, r, n) == d <= r /\ Forward(d, r, n)

ForwardStep ==
  /\ loop = "forward" /\ s > 0
  /\ mem' = [mem EXCEPT ![dest] = mem[src]]
  /\ dest' = dest + 1 /\ src' = src + 1 /\ s' = s - 1
  /\ UNCHANGED <<loop, call>>

BackwardStep ==
  /\ loop = "backward" /\ s > 0
  /\ mem' = [mem EXCEPT ![dest - 1] = mem[src - 1]]
  /\ dest' = dest - 1 /\ src' = src - 1 /\ s' = s - 1
  /\ UNCHANGED <<loop, call>>

Return ==
  /\ loop # "idle" /\ s = 0
  /\ loop' = "idle"
  /\ UNCHANGED <<mem, dest, src, s, call>>

Next ==
  \/ \E d, r \in 0..MemSize, n \in 0..MemSize :
       CopySafe(d, r, n) \/ CopyDown(d, r, n)
  \/ ForwardStep
  \/ BackwardStep
  \/ Return

Spec == Init /\ [][Next]_vars

-----------------------------------------------------------------------------
(* Properties *)

\* Every variable has its type.
TypeOK ==
  /\ mem \in Memory
  /\ dest \in 0..MemSize /\ src \in 0..MemSize /\ s \in 0..MemSize
  /\ loop \in {"idle", "forward", "backward"}
  /\ call \in [dest : 0..MemSize, src : 0..MemSize, size : 0..MemSize, mem : Memory]

\* What the call promises of the memory it found.
Promised == Moved(call.mem, MemSize, call.dest, call.src, call.size)

\* When the loop is done every byte of the source area as it was before the
\* call is in the destination area, however the areas overlap, and no other
\* cell has changed (copy.hpp:23-71).
CopiesAsCalled == s = 0 => mem = Promised

\* The loop stays inside the two areas: each byte it is about to touch belongs
\* to the area it should (copy.hpp:24-41).
StaysInAreas ==
  s > 0 =>
    LET d == IF loop = "forward" THEN dest ELSE dest - 1
        r == IF loop = "forward" THEN src ELSE src - 1
    IN d - call.dest \in Cells(call.size) /\ r - call.src \in Cells(call.size)
=============================================================================
