----------------------------- MODULE ByteWindow -----------------------------
(***************************************************************************)
(* What a dynamic buffer promises its users: a sequence of bytes that      *)
(* gains bytes at its back, loses bytes at either end, and otherwise only  *)
(* changes where the user writes.  Where the bytes are stored, and when    *)
(* they move, is not visible.                                              *)
(***************************************************************************)
EXTENDS Integers, Sequences

CONSTANT Byte

VARIABLE win

Init == win \in Seq(Byte)

\* n bytes of any value are appended
Extend(n) ==
  /\ win' \in Seq(Byte)
  /\ n \in Nat /\ Len(win') = Len(win) + n
  /\ \A i \in 1..Len(win) : win'[i] = win[i]

DropBack(n) ==
  n \in 0..Len(win) /\ win' = [i \in 1..(Len(win) - n) |-> win[i]]

DropFront(n) ==
  n \in 0..Len(win) /\ win' = [i \in 1..(Len(win) - n) |-> win[i + n]]

Write(i, v) ==
  i \in 1..Len(win) /\ win' = [win EXCEPT ![i] = v]

Next ==
  \/ Extend(Len(win') - Len(win))
  \/ \E n \in 0..Len(win) : DropBack(n) \/ DropFront(n)
  \/ \E i \in 1..Len(win), v \in Byte : Write(i, v)

Spec == Init /\ [][Next]_win
=============================================================================
