----------------------------- MODULE ByteArrays -----------------------------
(***************************************************************************)
(* What a user of basic_bytes may rely on: every object is an array of     *)
(* bytes of its own, and a call changes the object it is made on and, if   *)
(* it moves, the one it moves from.  The bytes of a new tail that is not   *)
(* filled are Garbage.                                                     *)
(***************************************************************************)
EXTENDS Integers, Sequences

CONSTANTS Objects, Byte, Garbage, Gone,
          MaxSize  \* the largest array

VARIABLE array  \* the contents of the objects; Gone outside their lifetime

Exists(o) == array[o] # Gone

\* a resized to n: a prefix stays, and a new tail is all alike
Resized(a, n, pattern) == [i \in 1..n |-> IF i \in DOMAIN a THEN a[i] ELSE pattern]

Init == array = [o \in Objects |-> Gone]

\* A new object, all bytes of it alike
Construct(o, n, pattern) ==
  ~Exists(o) /\ array' = [array EXCEPT ![o] = Resized(<< >>, n, pattern)]

\* A new object that has bytes of elsewhere, if only in front
CopyOf(o, n, bytes) ==
  ~Exists(o) /\ array' = [array EXCEPT ![o] = Resized(bytes, n, Garbage)]

Destroy(o) == Exists(o) /\ array' = [array EXCEPT ![o] = Gone]

\* o becomes a copy of another object, or is made as one.  An object assigned to
\* itself is only Resized, to nothing.
Copy(o, from) == o # from /\ Exists(from) /\ array' = [array EXCEPT ![o] = array[from]]

\* o is made of what from held
Move(o, from) ==
  /\ ~Exists(o) /\ Exists(from)
  /\ array' = [array EXCEPT ![o] = array[from], ![from] = << >>]

Resize(o, n, pattern) ==
  Exists(o) /\ array' = [array EXCEPT ![o] = Resized(@, n, pattern)]

Fill(o, pattern) ==
  Exists(o) /\ array' = [array EXCEPT ![o] = [i \in DOMAIN @ |-> pattern]]

Store(o, i, byte) ==
  Exists(o) /\ i \in DOMAIN array[o] /\ array' = [array EXCEPT ![o][i] = byte]

Next ==
  \E o \in Objects :
    \/ Destroy(o)
    \/ \E from \in Objects : Copy(o, from) \/ Move(o, from)
    \/ \E n \in 0..MaxSize, pattern \in Byte \cup {Garbage} :
         Construct(o, n, pattern) \/ Resize(o, n, pattern)
    \/ \E n \in 0..MaxSize : \E k \in 0..n : \E bytes \in [1..k -> Byte] : CopyOf(o, n, bytes)
    \/ \E byte \in Byte :
         Fill(o, byte) \/ (Exists(o) /\ \E i \in DOMAIN array[o] : Store(o, i, byte))

Spec == Init /\ [][Next]_array
=============================================================================
