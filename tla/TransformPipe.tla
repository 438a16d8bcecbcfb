---------------------------- MODULE TransformPipe ----------------------------
(***************************************************************************)
(* A buffer_transform_sink and a buffer_transform_source at the two ends   *)
(* of a pipe with little room: a sink that its writer fills and a source   *)
(* for its reader.  The bytes of the reader are positions of what went     *)
(* into the pipe, and those of the writer positions of what it committed.  *)
(***************************************************************************)
EXTENDS DynBufOps, TransformOps

CONSTANTS Kinds,       \* the pairs <<kind, storage>> of the two DynBuffers
          MaxSize,     \* their max_size()
          FixedSize,   \* the size of a fixed storage
          Cap,         \* the most one next() grows the buffer by (10 MiB)
          MaxAsked,    \* bound: the most bytes asked for in a call
          MaxBytes,    \* bound: how many bytes the writer commits
          MaxRoom      \* the room of the pipe

ASSUME CapAssumption == Cap \in Nat \ {0}
ASSUME PipeAssumption == MaxBytes \in Nat /\ 0..MaxBytes \subseteq Byte
\* A bare fixed buffer cannot be consumed from
ASSUME PipeKindsAssumption ==
  Kinds \subseteq ({"bare", "shifting"} \X {"container", "fixed"}) \ {<<"bare", "fixed">>}
ASSUME PipeSizesAssumption ==
  MaxSize \in Nat /\ FixedSize \in Nat /\ MaxAsked \in Nat /\ MaxRoom \in Nat

VARIABLES sink_buf, prepared, databuf, fed, sink_tr, made, lost,
          room, out,
          source_buf, avail, given, want, to_read, written, source_tr, got, taken

sink_vars == <<sink_buf, prepared, databuf, fed, sink_tr, made, lost>>
source_vars == <<source_buf, avail, given, want, to_read, written, source_tr, got, taken>>
vars == <<sink_vars, room, out, source_vars>>

Sink == INSTANCE TransformSink
          WITH buf <- sink_buf, tr <- sink_tr, MaxWindow <- MaxAsked

Source == INSTANCE TransformSource
            WITH buf <- source_buf, tr <- source_tr, MaxWant <- MaxAsked,
                 made <- Len(out)

Init == Sink!Init /\ Source!Init /\ room = MaxRoom

\* The calls of the writer and those of the reader are not concurrent
Write ==
  /\ want = Source!None
  /\ Sink!Step
  /\ UNCHANGED source_vars

Read ==
  /\ databuf = Sink!None
  /\ UNCHANGED <<sink_vars, out>>
  /\ Source!Step
  /\ room' = room + (taken' - taken)

Next == Write \/ Read

\* The transformers return
Spec ==
  /\ Init /\ [][Next]_vars
  /\ WF_vars(databuf # Sink!None /\ Write)
  /\ WF_vars(want # Source!None /\ Read)

-----------------------------------------------------------------------------
(* Properties *)

\* Sink and source, in any order of calls, trip no assertion of a buffer.
NoAssertionFires == Ok(sink_buf) /\ Ok(source_buf)

\* Every committed byte is at one place, in order (TransformSink).
EachByteOnce == Sink!EachByteOnce

\* Every byte of the pipe is at one place, in order (TransformSource).
NothingLost == Source!NothingLost

\* The sink loses bytes only when it must (TransformSink).
LosesOnlyWhenStuck == Sink!LosesOnlyWhenStuck

\* The source gives too few bytes only when it must (TransformSource).
ShortOnlyWhenStuck == Source!ShortOnlyWhenStuck

\* Every commit() and every next() returns (transform_io.hpp:52-59,96-120).
CallsReturn ==
  /\ databuf # Sink!None ~> databuf = Sink!None
  /\ want # Source!None ~> want = Source!None
=============================================================================
