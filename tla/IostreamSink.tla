---------------------------- MODULE IostreamSink ----------------------------
(***************************************************************************)
(* iostream_io over an output stream.  A user prepares an area, stores     *)
(* bytes in it and commits them; commit() offers everything committed to   *)
(* the stream buffer, which may accept less, and keeps the rest for the    *)
(* next commit().  The loop of buffer_ios_write is modelled sputn() by     *)
(* sputn().  The bytes are the positions of one stream.  IostreamIo joins  *)
(* this with the input side.                                               *)
(***************************************************************************)
EXTENDS DynbufIoOps, Sequences

CONSTANTS Kinds,      \* the pairs <<kind, storage>> of the DynBuffer
          MaxSize,    \* its max_size()
          MaxWindow,  \* bound: the largest window
          CharSize,   \* sizeof(Char) of the stream
          MaxBytes    \* bound: how many bytes the user commits

VARIABLES io,        \* the dynbuf_io member
          prepared,  \* the size of the area the user holds
          part,      \* bytes the write loop still has to offer; None outside it
          written,   \* n_written of the write loop
          made,      \* how many bytes of the stream the user has committed
          out        \* what the stream buffer has accepted

vars == <<io, prepared, part, written, made, out>>

None == -1

Init ==
  /\ \E kind \in Kinds :
       io = [buf |-> Constructed(kind[1], kind[2], MaxSize, << >>, 0, 0), rd |-> 0]
  /\ prepared = 0 /\ part = None /\ written = 0 /\ made = 0 /\ out = << >>

Idle == Ok(io.buf) /\ part = None

Prepare(n) ==
  /\ Idle
  /\ io.buf.size + PrepareGrowth(io, n) <= MaxWindow
  /\ io' = io_prepare(io, n)
  /\ prepared' = PreparedSize(io', n)
  /\ UNCHANGED <<part, written, made, out>>

\* commit(n) up to the write loop, with the next n bytes of the stream in the
\* write area.  All of the read area is offered, what an earlier commit() did
\* not get rid of included.
Commit(n) ==
  /\ Idle /\ n <= prepared /\ made + n <= MaxBytes
  /\ io' = io_commit(Filled(io, io.rd, n, made), n)
  /\ made' = made + n
  /\ prepared' = 0
  /\ part' = io'.rd /\ written' = 0
  /\ UNCHANGED out

\* Mutant of LastSputn: only a part written out ends the loop
LastSputnWhole(k) == part - k * CharSize = 0

\* The loop ends when nothing was accepted or less than a char is left
LastSputn(k) == k = 0 \/ part - k * CharSize < CharSize

\* Mutant of AfterWriting: the short write is not noticed
AfterWritingAll(n) == io_consume(io, io.rd)

\* commit() consumes what n_written says
AfterWriting(n) == io_consume(io, n)

\* The stream buffer accepts k of the chars it is offered (k = 0 with part = 0
\* stands for the loop that is not entered)
Sputn(k) ==
  LET n == k * CharSize IN
  /\ part # None
  /\ out' = out \o SubSeq(ReadArea(io), written + 1, written + n)
  /\ IF LastSputn(k)
     THEN /\ io' = AfterWriting(written + n)
          /\ part' = None /\ written' = 0
     ELSE /\ part' = part - n /\ written' = written + n
          /\ UNCHANGED io
  /\ UNCHANGED <<prepared, made>>

\* clear_buffer() drops what was not written: the user goes on after the
\* bytes that were
ClearBuffer ==
  /\ Idle
  /\ io' = io_clear(io)
  /\ made' = made - io.rd
  /\ prepared' = 0
  /\ UNCHANGED <<part, written, out>>

WriteLoop == \E k \in 0..(part \div CharSize) : Sputn(k)

Step ==
  \/ \E n \in 0..(MaxSize + 1) : Prepare(n)
  \/ \E n \in 0..prepared : Commit(n)
  \/ WriteLoop
  \/ ClearBuffer

-----------------------------------------------------------------------------
(* Properties *)

\* However the stream cuts writes short, the bytes it has accepted followed by
\* the bytes still held are the bytes committed: none lost, repeated or out of
\* order (iostream_io.hpp:64-72, 158-193).
NothingLost ==
  out \o SubSeq(ReadArea(io), written + 1, io.rd) = [i \in 1..made |-> i]
=============================================================================
