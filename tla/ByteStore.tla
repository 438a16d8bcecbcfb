----------------------------- MODULE ByteStore -----------------------------
(* Storage as functions from offsets to bytes, and what a copy does to it. *)
EXTENDS Integers

Smaller(a, b) == IF a < b THEN a ELSE b
Larger(a, b)  == IF a > b THEN a ELSE b

\* Offsets of a storage of n bytes
Cells(n) == 0..(n - 1)

\* The storage m of len bytes once n bytes of it, from src on, have been
\* copied to where dest begins: what buffer_copy of one buffer promises, also
\* for areas that overlap.  LowLevelCopy shows that its loop of bytes does it.
Moved(m, len, dest, src, n) ==
  [c \in Cells(len) |-> IF c - dest \in Cells(n) THEN m[src + (c - dest)] ELSE m[c]]
=============================================================================
