----------------------------- MODULE ByteQueue -----------------------------
(***************************************************************************)
(* What dynbuf_io promises: the bytes of a stream, numbered from 1, arrive *)
(* at the back of a queue in their order and leave it at the front.        *)
(***************************************************************************)
EXTENDS Integers, Sequences

VARIABLES queue,  \* the bytes that can be read
          taken   \* how many bytes of the stream have left the queue

Init == taken = 0 /\ queue = [i \in 1..Len(queue) |-> i]

\* The next n bytes of the stream arrive
Put(n) ==
  /\ queue' = [i \in 1..(Len(queue) + n) |-> taken + i]
  /\ UNCHANGED taken

Take(n) ==
  /\ queue' = [i \in 1..(Len(queue) - n) |-> queue[i + n]]
  /\ taken' = taken + n

Next ==
  \/ Len(queue') >= Len(queue) /\ Put(Len(queue') - Len(queue))
  \/ Len(queue') <= Len(queue) /\ Take(Len(queue) - Len(queue'))

Spec == Init /\ [][Next]_<<queue, taken>>
=============================================================================
