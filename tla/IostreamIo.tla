----------------------------- MODULE IostreamIo -----------------------------
(***************************************************************************)
(* One iostream_io used for output and for input, one of them at a time:   *)
(* its user turns to the other side once nothing is buffered.  The one     *)
(* buffer keeps its window and its storage from one side to the other.     *)
(***************************************************************************)
EXTENDS DynbufIoOps, Sequences

CONSTANTS Kinds,      \* the pairs <<kind, storage>> of the DynBuffer
          MaxSize,    \* its max_size()
          MaxWindow,  \* bound: the largest window
          CharSize,   \* sizeof(Char) of the stream
          StreamLen   \* bytes in a stream, whole chars

ASSUME IoStreamAssumption ==
  /\ CharSize \in Nat \ {0} /\ StreamLen \in Nat /\ StreamLen % CharSize = 0
  /\ 1..StreamLen \subseteq Byte
\* A char fits in the buffer and in one allocation
ASSUME IoRoomAssumption == CharSize <= MaxWindow /\ CharSize <= MaxAlloc
ASSUME IoBoundsAssumption ==
  /\ MaxSize \in Nat /\ MaxWindow \in Nat /\ MaxWindow <= MaxSize
\* The buffer starts empty, so it is over a container
ASSUME IoContainersAssumption == Kinds \subseteq {"bare", "shifting"} \X {"container"}

VARIABLES io,   \* the dynbuf_io member
          dir,  \* "out" or "in": what the object is used for
          prepared, sending, written, made, out,               \* IostreamSink
          asked, given, receiving, nread, rdstate, got, taken  \* IostreamSource

sink_vars == <<prepared, sending, written, made, out>>
source_vars == <<asked, given, receiving, nread, rdstate, got, taken>>
vars == <<io, dir, sink_vars, source_vars>>

Sink == INSTANCE IostreamSink WITH part <- sending, MaxBytes <- StreamLen
Source == INSTANCE IostreamSource WITH part <- receiving

Init == Sink!Init /\ Source!Init /\ dir \in {"out", "in"}

Output == dir = "out" /\ Sink!Step /\ UNCHANGED <<dir, source_vars>>

Input == dir = "in" /\ Source!Step /\ UNCHANGED <<dir, sink_vars>>

\* The stream of the other side is a new one
Turn ==
  /\ Sink!Idle /\ Source!Idle /\ io.rd = 0
  /\ dir' = IF dir = "out" THEN "in" ELSE "out"
  /\ prepared' = 0 /\ made' = 0 /\ out' = << >>
  /\ asked' = 0 /\ given' = Source!None /\ rdstate' = "good"
  /\ got' = 0 /\ taken' = 0
  /\ UNCHANGED <<io, sending, written, receiving, nread>>

Next == Output \/ Input \/ Turn

\* sputn() and read() return
CallsProceed ==
  /\ WF_vars(sending # Sink!None /\ Output)
  /\ WF_vars(receiving # Source!None /\ Input)

\* A user of the input side, whatever else it calls in between, goes on
\* asking for at least a char and consuming what it is given
Reading(action) == dir = "in" /\ action /\ UNCHANGED <<dir, sink_vars>>
UserReads ==
  /\ SF_vars(Reading(\E want \in CharSize..MaxWindow : Source!NextReads(want)))
  /\ SF_vars(Reading(\E want \in 1..MaxWindow : Source!NextBuffered(want)))
  /\ SF_vars(Reading(\E n \in 1..given : Source!Consume(n)))

Spec == Init /\ [][Next]_vars /\ CallsProceed /\ UserReads

-----------------------------------------------------------------------------
(* Properties *)

\* The bytes a stream has accepted and those still held are the bytes
\* committed (IostreamSink).
SinkLosesNothing == dir = "out" => Sink!NothingLost

\* The buffer holds the bytes between the stream and the user (IostreamSource).
SourceLosesNothing == dir = "in" => Source!NothingLost

\* No assertion fires for a user who keeps to what prepare() and next() gave;
\* the area read into is never larger than was asked for, whatever an earlier
\* next(), or the other side, left prepared (iostream_io.hpp:92-97).
NoAssertionFires == Ok(io.buf)

\* next() returns nothing only at the end or on an error (IostreamSource).
EmptyOnlyAtEnd == Source!EmptyOnlyAtEnd

\* commit() returns, whatever the stream accepts (iostream_io.hpp:64-72).
CommitReturns == sending # Sink!None ~> sending = Sink!None

\* A user who goes on reading receives every byte of the stream, unless it
\* fails again and again (iostream_io.hpp:74-108,121-152).
StreamDrained ==
  <>(taken = StreamLen) \/ []<>(rdstate = "bad") \/ []<>(dir = "out")
=============================================================================
