--------------------------- MODULE IostreamSource ---------------------------
(***************************************************************************)
(* iostream_io over an input stream.  A user asks for bytes with next()    *)
(* and takes them with consume(); next() reads from the stream only when   *)
(* nothing is buffered.  The loop of buffer_ios_read is modelled read() by *)
(* read(): a read() falls short at the end of the stream, on an error, and *)
(* whenever the stream is not good.  The bytes of the stream are its       *)
(* positions, 1 to StreamLen.  IostreamIo joins this with the output side. *)
(***************************************************************************)
EXTENDS DynbufIoOps

CONSTANTS Kinds,      \* the pairs <<kind, storage>> of the DynBuffer
          MaxSize,    \* its max_size()
          MaxWindow,  \* bound: the largest window
          CharSize,   \* sizeof(Char) of the stream
          StreamLen   \* bytes in the stream, whole chars

VARIABLES io,       \* the dynbuf_io member
          asked,    \* want_size of the last next()
          given,    \* how many bytes it returned; None when spent
          part,     \* bytes the read loop still has room for; None outside it
          nread,    \* n_read of the read loop
          rdstate,  \* "good", "eof" (eofbit and failbit) or "bad"
          got,      \* how many bytes have left the stream
          taken     \* how many bytes the user has consumed or cleared

vars == <<io, asked, given, part, nread, rdstate, got, taken>>

None == -1

Init ==
  /\ \E kind \in Kinds :
       io = [buf |-> Constructed(kind[1], kind[2], MaxSize, << >>, 0, 0), rd |-> 0]
  /\ asked = 0 /\ given = None /\ part = None /\ nread = 0
  /\ rdstate = "good" /\ got = 0 /\ taken = 0

Idle == Ok(io.buf) /\ part = None

\* next(want) with bytes in the buffer, or asked for none
NextBuffered(want) ==
  /\ Idle /\ (io.rd > 0 \/ want = 0)
  /\ asked' = want /\ given' = NextSize(io, want)
  /\ UNCHANGED <<io, part, nread, rdstate, got, taken>>

\* next(want) with an empty buffer, up to the read loop.  buffer_ios_read
\* expects a stream that is good or at its end.
NextReads(want) ==
  /\ Idle /\ io.rd = 0 /\ want > 0 /\ rdstate # "bad"
  /\ io.buf.size + PrepareGrowth(io, want) <= MaxWindow
  /\ io' = io_prepare(io, want)
  /\ asked' = want /\ given' = None
  /\ part' = PreparedSize(io', want) /\ nread' = 0
  /\ UNCHANGED <<rdstate, got, taken>>

\* The storage has no memory to grow for what next(want) would read
NextThrows(want) ==
  /\ Idle /\ io.rd = 0 /\ want > 0
  /\ io.buf.size + PrepareGrowth(io, want) <= MaxWindow
  /\ NeedsMemory(io.buf, PrepareGrowth(io, want))
  /\ io' = [io EXCEPT !.buf = grow_threw(io.buf, PrepareGrowth(io, want))]
  /\ asked' = want /\ given' = None
  /\ UNCHANGED <<part, nread, rdstate, got, taken>>

\* What in.read(_, n) may do: the pairs of how many chars it reads and of the
\* state it leaves
Reads(n) ==
  LET left == (StreamLen - got) \div CharSize IN
  IF rdstate # "good" THEN {<<0, rdstate>>}
  ELSE {<<Smaller(n, left), IF n <= left THEN "good" ELSE "eof">>}
       \cup {<<k, "bad">> : k \in Cells(Smaller(n, left))}

\* Mutant of LastRead: only a part read in full ends the loop
LastReadWhole(k) == part - k * CharSize = 0

\* The loop ends when nothing was read or less than a char of room is left
LastRead(k) == k = 0 \/ part - k * CharSize < CharSize

\* Mutant of NRead: n_read is set and not added to
NReadLast(n) == n

\* n_read once n more bytes are read
NRead(n) == nread + n

\* next() commits what was read, ensures that it is not more than was asked
\* for, and returns it
Returned(i) ==
  /\ io' = IF i.rd <= asked THEN i ELSE Rejected(i)
  /\ given' = i.rd
  /\ part' = None /\ nread' = 0

Read ==
  /\ Ok(io.buf) /\ part # None
  /\ \E r \in Reads(part \div CharSize) :
       LET n == r[1] * CharSize
           i == Filled(io, io.rd + nread, n, got)
       IN /\ rdstate' = r[2] /\ got' = got + n
          /\ IF LastRead(r[1])
             THEN Returned(io_commit(i, NRead(n)))
             ELSE /\ io' = i
                  /\ part' = part - n /\ nread' = NRead(n)
                  /\ UNCHANGED given
  /\ UNCHANGED <<asked, taken>>

\* The user consumes bytes of what next() returned
Consume(n) ==
  /\ Idle /\ given # None /\ n <= given
  /\ io' = io_consume(io, n)
  /\ given' = None /\ taken' = taken + n
  /\ UNCHANGED <<asked, part, nread, rdstate, got>>

ClearBuffer ==
  /\ Idle
  /\ io' = io_clear(io)
  /\ given' = None /\ taken' = taken + io.rd
  /\ UNCHANGED <<asked, part, nread, rdstate, got>>

\* The user clears the state of the stream, to read again where it failed
ClearState ==
  /\ Idle /\ rdstate # "good"
  /\ rdstate' = "good"
  /\ UNCHANGED <<io, asked, given, part, nread, got, taken>>

Step ==
  \/ \E want \in 0..(MaxSize + 1) : NextBuffered(want) \/ NextReads(want)
                                     \/ NextThrows(want)
  \/ Read
  \/ \E n \in 0..given : Consume(n)
  \/ ClearBuffer
  \/ ClearState

-----------------------------------------------------------------------------
(* Properties *)

\* The buffer holds exactly the bytes that have left the stream and have not
\* reached the user, in order (iostream_io.hpp:74-108, 121-152).
NothingLost ==
  /\ taken + io.rd + nread = got
  /\ \A i \in Cells(io.rd + nread) : io.buf.store[io.buf.beg + i] = taken + i + 1

\* next() returns nothing only at the end of the stream or on an error, for a
\* user who asks for at least a char.
EmptyOnlyAtEnd ==
  [][part # None /\ part' = None /\ given' = 0 /\ asked >= CharSize
       => rdstate' # "good"]_vars
=============================================================================
