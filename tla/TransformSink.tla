---------------------------- MODULE TransformSink ----------------------------
(***************************************************************************)
(* buffer_transform_sink: a user prepares an area of the dynamic buffer,   *)
(* stores bytes in it and commits them, and commit() runs the loop of      *)
(* buffer_transform over them into the sink behind it.  That sink is any   *)
(* buffer_sink: all that is known of it is how much room it has.  The      *)
(* bytes are the positions of the stream the user commits.  TransformPipe  *)
(* puts a reader behind it.                                                *)
(***************************************************************************)
EXTENDS DynBufOps, TransformOps, Functions

CONSTANTS Kinds,      \* the pairs <<kind, storage>> of the DynBuffer
          MaxSize,    \* its max_size()
          FixedSize,  \* the size of a fixed storage
          MaxWindow,  \* bound: the largest window asked for
          MaxBytes,   \* bound: how many bytes the user commits
          MaxRoom     \* bound: the room of the sink behind

VARIABLES buf,       \* _buffer
          prepared,  \* the size of the area the user holds
          databuf,   \* the size of the buffer being transformed; None outside commit()
          fed,       \* how much of it the transformer has read
          tr,        \* _transformer
          room,      \* how many bytes the sink behind can take
          out,       \* what that sink has got
          made,      \* how many bytes the user has committed
          lost       \* those the transformer never read

vars == <<buf, prepared, databuf, fed, tr, room, out, made, lost>>

None == -1

\* A fixed storage is handed over with its size, or as empty
Init ==
  /\ \E kind \in Kinds :
       LET len == IF kind[2] = "fixed" THEN FixedSize ELSE 0
           store == [c \in Cells(len) |-> Blank]
       IN \E size \in {0, len} :
            buf = Constructed(kind[1], kind[2], MaxSize, store, len, size)
  /\ prepared = 0 /\ databuf = None /\ fed = 0
  /\ tr = FreshTransformer
  /\ room \in 0..MaxRoom
  /\ out = << >> /\ made = 0 /\ lost = {}

Idle == Ok(buf) /\ databuf = None

\* How much prepare(n) asks of the buffer
SinkGrowth(n) ==
  IF buf.size >= n THEN 0 ELSE dynbuf_safe_grow_size(buf, n - buf.size)

Prepare(n) ==
  /\ Idle /\ n <= MaxWindow
  /\ buf' = IF buf.size >= n THEN buf ELSE grow(buf, SinkGrowth(n))
  /\ prepared' = Smaller(n, buf'.size)
  /\ UNCHANGED <<databuf, fed, tr, room, out, made, lost>>

\* The storage has no memory to grow; the area held before is void
PrepareThrows(n) ==
  /\ Idle /\ n <= MaxWindow
  /\ buf.size < n /\ NeedsMemory(buf, SinkGrowth(n))
  /\ buf' = grow_threw(buf, SinkGrowth(n))
  /\ prepared' = 0
  /\ UNCHANGED <<databuf, fed, tr, room, out, made, lost>>

\* b with the next n bytes of the stream stored at the front of its window
Filled(b, n) ==
  [b EXCEPT !.store =
     [c \in Cells(b.len) |-> IF c - b.beg \in Cells(n) THEN made + 1 + (c - b.beg)
                             ELSE b.store[c]]]

\* commit(n) up to the loop
Commit(n) ==
  /\ Idle /\ n <= prepared /\ made + n <= MaxBytes
  /\ buf' = Filled(buf, n)
  /\ databuf' = n /\ fed' = 0
  /\ made' = made + n /\ prepared' = 0
  /\ UNCHANGED <<tr, room, out, lost>>

\* The bytes of databuf that the transformer has not read
Pending == SubSeq(Window(buf), fed + 1, databuf)

\* What next() of the consumer of databuf shows
InPart == SubSeq(Pending, 1, Smaller(Hint, databuf - fed))

\* What prepare() of the sink behind may return: a buffer that is empty only
\* if it has no room
OutParts == IF room = 0 THEN {0} ELSE 1..Smaller(Hint, room)

\* Mutant of RoundResult: consume() and commit() are swapped
RoundResultSwapped(res) ==
  /\ out' = out \o Written(tr, res, InPart)
  /\ room' = room - res.bytes_written
  /\ tr' = Transformed(tr, res, InPart)
  /\ fed' = fed + res.bytes_written

RoundResult(res) ==
  /\ out' = out \o Written(tr, res, InPart)
  /\ room' = room - res.bytes_written
  /\ tr' = Transformed(tr, res, InPart)
  /\ fed' = fed + res.bytes_read

\* One round of the loop.  After the last, commit() consumes all of databuf,
\* whatever was read of it.
Round ==
  /\ databuf # None
  /\ \E out_part \in OutParts : \E res \in Results(tr, Len(InPart), out_part) :
       /\ RoundResult(res)
       /\ IF LastRound(res, res)
          THEN /\ lost' = lost \cup Range(SubSeq(Window(buf), fed' + 1, databuf))
               /\ buf' = consume(buf, databuf) /\ databuf' = None
          ELSE UNCHANGED <<buf, databuf, lost>>
  /\ UNCHANGED <<prepared, made>>

Step ==
  \/ \E n \in 0..MaxWindow : Prepare(n) \/ PrepareThrows(n) \/ Commit(n)
  \/ Round

-----------------------------------------------------------------------------
(* Properties *)

\* What has got through so far, and what is on its way
Kept == out \o tr.held \o (IF databuf = None THEN << >> ELSE Pending)

\* Every committed byte is at one place, in the order of the stream: in the
\* sink behind, with the transformer, still to be read, or lost
\* (transform_io.hpp:52-59).
EachByteOnce ==
  /\ \A i, j \in DOMAIN Kept : i < j => Kept[i] < Kept[j]
  /\ Range(Kept) = (1..made) \ lost

\* commit() loses bytes only to a transformer that is done or a sink that is
\* full: it ignores how much buffer_transform read (transform_io.hpp:57).
LosesOnlyWhenStuck ==
  [][lost' # lost => room' = 0 \/ (tr'.read = EndAt /\ tr'.held = << >>)]_vars
=============================================================================
