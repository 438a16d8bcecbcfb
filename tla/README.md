# neo-buffer in TLA+

neo-buffer is a header-only C++20 library for moving bytes: views of memory,
buffers that grow, sources and sinks, and algorithms that copy and transform
between them. This directory models the parts of it that keep state, checks
them with TLC on small instances, and proves the central ones with TLAPS for
every value of the constants.

The library is sequential. It has no threads, no persistence and no messages;
what is hard about it is what a long sequence of legal calls does to offsets and
sizes that must stay in step: windows that move inside storage, areas a caller
holds across calls, loops over sequences whose parts never line up, streams that
take or give less than they are asked for, and allocations that throw half-way.

## The system

All paths are under `src/src/neo/`.

| Component | State | Operations | Interacts with |
|---|---|---|---|
| byte container adaptor (`as_dynamic_buffer.hpp`) | the container | `grow`, `shrink`, `consume`, `data` | the container's `resize`, which may throw; `buffer_copy` |
| `fixed_dynamic_buffer` | the view | the same, accepting only 0 | |
| `shifting_dynamic_buffer` | storage, `_beg_idx`, `_size` | the same, plus compaction inside `grow` | any of the two above as storage |
| `dynamic_buffer.hpp` | none | `dynbuf_safe_grow`, `dynbuf_clear`, `dynbuf_resize` | any dynamic buffer |
| `dynbuf_io` | a dynamic buffer, `_read_area_size` | `prepare`, `commit`, `next`, `consume`, `shrink_uncommitted`, `clear` | callers keep the area `prepare` gave them |
| `iostream_io` | a stream, a `dynbuf_io` | `prepare`/`commit` (sink), `next`/`consume` (source), `clear_buffer` | `std::istream::read`, `std::streambuf::sputn` |
| `buffers_consumer`, `buffers_vec_consumer` | iterator, offset into the buffer, clamp | `next`, `prepare`, `consume`, `commit` | walks any sequence of buffers |
| `buffer_copy` (`buffer_algorithm/copy.hpp`) | loop variables | one copy; copies between sources and sinks | two consumers; the low-level byte loops |
| `buffer_transform` | loop variables, a transformer | one transformation | two consumers; the transformer, which may keep bytes back |
| `buffer_transform_sink`, `buffer_transform_source` (`transform_io.hpp`) | a dynamic buffer, a transformer; `_avail` | `prepare`/`commit`, `next`/`consume` | `buffer_transform`; the sink or source behind |
| `buffer_encode`, `buffer_decode` | loop variables, a codec with state | one item, a range of items | one consumer; the codec |
| `bytewise_iterator` | buffer, position in it, absolute position | `advance`, `increment`, `decrement` | walks any sequence of buffers |
| `buffer_bits` | a `bytewise_iterator`, `_bit_pos` | `peek`, `set`, `skip`, `read`, `write` | moves the iterator |
| `basic_bytes` | pointer, size, allocator | `resize`, `fill`, `clear`, copy, move | the allocator, which gets blocks back |
| `buffers_cat` | a tuple of ranges; an iterator into one of them | joins operands by their types; `begin`, increment, dereference | the iterators of its operands, which may be concatenations |
| `string_io` | a `dynbuf_io` over a string | those of `dynbuf_io`, and a view of its read area | |

The rest (views, concepts, adaptors, `counting_buffers`, `byte_array`) hold no
state of their own. Their bounds appear as sizes and offsets in the models.

## What makes each part correct

- **Dynamic buffers.** Whatever is grown, consumed, compacted or thrown half-way,
  the bytes in the window are those the user put there; each call adds or drops
  as many as it was told to, at its own end; the window stays in the storage; the room in front of the window is found again instead of leaking.
- **`dynbuf_io`.** The read area is a first-in first-out queue. An area given out
  by `prepare` is where `commit` looks for the bytes, also after the consumer has
  consumed in between. `buffer_copy` into one copies all there is or fills it,
  however little room it gives at a time.
- **`iostream_io`.** However short reads and writes fall, no byte is lost,
  repeated or reordered; no loop spins on half a char.
- **Low-level copies.** Overlapping areas are moved as if read first.
- **`buffers_cat`.** However its operands are folded, nested and joined, and
  whichever of them are empty, walking the result yields their bytes in order.
- **`buffers_consumer`.** Consuming in any steps is consuming the sum at once.
- **Algorithms.** A prefix is passed in order, both sides are consumed by what was
  passed, the totals returned are right, and only a buffer that is used up, or
  empty, ends a loop early.
- **Transform sinks and sources.** The bytes a transformer keeps back, and those
  in a buffer that is compacted meanwhile, come out once and in order; bytes are
  lost or withheld only when nothing else is possible.
- **Cursors.** After any moves, forward and back, across bytes and buffers, a
  cursor is where the moves add up to; `end()` is the end from the front of a
  buffer, and only from there.
- **`basic_bytes`.** Every block has one owner, who can free it; objects are
  arrays of their own, also after an assignment to themselves. This needs a user
  who moves an object only under an allocator that can free its memory: the
  constructor does not ask.

## Modules

| Module | Models | Kind |
|---|---|---|
| `ByteStore` | offsets, and what a copy does to storage | operators |
| `DynBufOps` | the dynamic buffers as records, each call an operator from the buffer before to the buffer after | operators |
| `ByteWindow` | a window of bytes that is extended, cut at either end and written | abstract specification |
| `DynamicBuffer` | one dynamic buffer and the user who calls it | machine |
| `DynBufLemmas`, `DynamicBufferProofs` | what the operators of `DynBufOps` and `DynbufIoOps` do to a window and a read area; the theorems about `DynamicBuffer` | proofs |
| `DynbufIoOps` | `dynbuf_io` and the `string_io` types as a record over `DynBufOps` | operators |
| `ByteQueue` | a queue of bytes | abstract specification |
| `DynbufIO` | a `dynbuf_io` between a producer, who may be `buffer_copy`, and a consumer | machine |
| `DynbufIOProofs` | the theorems about `DynbufIO` | proofs |
| `IostreamSink`, `IostreamSource` | `iostream_io` in either direction, its loops one stream call at a time | components |
| `IostreamIo` | one `iostream_io` that is used in one direction, then in the other | composition |
| `IostreamIoProofs` | the theorems about it | proofs |
| `LowLevelCopy`, `LowLevelCopyProofs` | the byte loops, byte by byte | machine, proofs |
| `BufferSizes`, `BufferSequences` | sequences of buffers by their sizes, and those the machines start from | operators |
| `BufferViews` | a buffer as where its bytes start and how many there are; the bytes of a sequence of them | operators |
| `BufferRanges` | ranges of buffers of every kind with their iterators, and `buffers_cat` of them | operators |
| `ConsumerOps` | `buffers_consumer` over a flat sequence, as a record | operators |
| `BuffersConsumer` | `buffers_consumer` and `buffers_vec_consumer` over any range, walked by its iterator, `consume()` run as the loop it is; `BufferRanges` gives the ranges it is run on | machine |
| `BufferAlgorithm` | the two consumers and the output the algorithms share | variables, operators |
| `BufferCopy`, `BufferTransform`, `BufferCodec` | the loops of `buffer_copy`, `buffer_transform`, `buffer_encode` and `buffer_decode` | components |
| `BufferAlgorithms` | one call of any of them, and what is expected of each | composition |
| `TransformOps` | a user's transformer, and the results of `transform.hpp` | operators |
| `TransformSink`, `TransformSource` | the two adaptors over `DynBufOps`, round by round | components |
| `TransformPipe` | one of each at the ends of a pipe with little room | composition |
| `TransformPipeProofs` | the theorems about it | proofs |
| `BytewiseIterator` | moves over a sequence, call by call of `_advance` and `_rewind`, moves over one buffer, `end()` | component |
| `BufferBits` | the bit cursor on it | composition |
| `SequenceProofs` | the theorems about `BufferAlgorithms`, `BufferBits` and `BuffersConsumer` | proofs |
| `ByteArrays` | objects that are arrays of bytes | abstract specification |
| `BasicBytes` | `basic_bytes` objects over one heap | machine |
| `BasicBytesProofs` | the theorems about it | proofs |
| `MC*` | the instances that TLC checks | |

**Layers.** The library is built by composition, and so are the models: the
operators of `DynBufOps` are used by `DynamicBuffer`, by `DynbufIoOps` and
through it by `DynbufIO` and the two streams. What one layer assumes of the one
below is checked there: `DynBufOps` takes `buffer_copy` to be `Moved`, which
`LowLevelCopy` shows (and `LowLevelCopyProofs` proves) the byte loops to
compute; the algorithms take a sequence of buffers to be flat and `consume` to be
that of `ConsumerOps`, and `BuffersConsumer` shows (and `SequenceProofs` proves) the
loop to compute it over any range (`ConsumesAsOne`); `BufferBits` reads and writes bytes by their number,
which `MovesAddUp` shows the iterator to point at. A component module has `Init`
and `Step` and leaves the rest of the system open; the composition instantiates
it, adds the other side and the fairness, and states what holds of both.

**State.** A buffer is a record: `store` and `len` are the container and its
`size()`, `max` its `max_size()`, `beg` and `size` are `_beg_idx` and `_size`.
A `neo_assert` that fires sets `status` to `"aborted"` and changes nothing else;
every call needs a running buffer, and `NoAssertionFires` says that callers who
keep the contracts never get there. `dynbuf_io` adds `rd` (`_read_area_size`).
The consumer has `it`, `off` and `rem` for `_seq_it`, `_cur_elem_offset` and
`_remaining`; an iterator of a concatenation is the number of a range and an
iterator of it, as in the variant of the code. The local variables of an algorithm are the fields of `call`.

**Bytes.** Where order matters, a byte is its position in a stream, so a byte
lost, repeated or misplaced is a byte of the wrong number. Bits are told apart in
the same way: a shift or a mask moves or drops positions, and needs no arithmetic.

**Users' code.** Transformers and codecs are parameters of the library. The
transformer of `TransformOps` may read and write any amounts the assertions of
`buffer_transform` let through, keep up to `HoldMax` bytes back and be done at
`EndAt`; the codec of `BufferCodec` has items of a fixed size, keeps its offset in
one between calls, and its decoder may report an error. Streams, the pipe and the
allocator are external too, and as unhelpful as their contracts allow.

**Mutants.** Definitions commented "Mutant of ..." are plausible mistakes in the
definition that follows; nothing uses them. Each property is known to fail when
the mutant takes the definition's place.

## Runs

| Run | Instance | Shows |
|---|---|---|
| `dynamic_buffer` | two byte values, windows to 5, quantum 2, all four kinds of buffer | type, window in storage, no assertion, bounded storage, lazy growth, refinement of `ByteWindow`, each call its own step of it |
| `safe_grow_full` | shifting over a container without headroom | **violation**, see below |
| `dynbuf_io` | buffers that grow and buffers that reach `max_size()`, stream of 6, windows to 4, allocation cap 2, copies of up to 6 in any parts | read area intact, areas do not move under their holder, `prepare` yields what it can, a copy fills the buffer or copies everything, no assertion, refinement of `ByteQueue` |
| `iostream_io` | two-byte chars, streams of six bytes, windows to 4, any short write, end or error in any read, no memory in any `next()`, any number of turns | nothing lost either way, never reads too much, empty only at the end, `commit` returns, a reader drains the stream |
| `low_level_copy` | every pair of areas in four cells | moved as promised, in bounds |
| `buffers_consumer` | up to three operands: buffers, arrays and vectors of up to two buffers, byte ranges, concatenations, by value or by reference, most of them also empty; every clamp to 7; a vector of two | the bytes of the operands in order, steps add up, the vector is filled, no assertion |
| `buffer_algorithms` | up to three buffers of 0, 1 or 3 bytes on either side, every `max_copy` to 6, up to two bytes kept back, items of two bytes | in order, items decoded right, totals right with both, early ends only when stuck, returns |
| `bytes_copy` | the same | **violation**, see below |
| `transform_pipe` | growing and fixed buffers, four bytes through a pipe with room for two, one byte kept back, done after three | each byte once and in order on both sides, lost or withheld only when stuck, no assertion, calls return |
| `buffer_bits` | up to three buffers of 0 to 2 bytes of three bits, integers of nine bits | iterator (over a sequence or one buffer) and cursor are where their moves add up to, `end()` is right where it is asked for, `peek` yields the next bits, `set` is right where it is sound and only there |
| `bits_write` | up to two such buffers, every write | **violation**, see below |
| `basic_bytes` | two objects, two unequal allocators, arrays to 3, copies of up to three buffers | one owner per block, freed once and rightly by users whose moves are sound, refinement of `ByteArrays` |

**Bounds.** The code branches on comparisons of sizes (room behind the window
against what is asked, the gap in front of it, the quantum, the cap, the maximum),
so an instance is large enough when every comparison goes both ways in every
order. A quantum of 2 with windows up to 5 has growth below, at and above the
quantum, with and without a gap in front of the window, before and after
compaction. The allocation cap (16 MiB in the code) is 2 or 3, the vector of
sixteen buffers holds 2, a char has two bytes so that half a char exists. Three
buffers give a first, an inner and a last one on either side, of sizes below and
above the part the loops ask for (1024 in the code, 2 here), and empty ones at
every place. A byte of three bits has a first, an inner and a last bit; nine bits
reach the first byte, a whole byte and a rest (64 bits of eight in the code). Two
objects are all that any call of `basic_bytes` involves. The streams end at
`MaxBytes` or `StreamLen`; the actions that would pass `MaxWindow`, `MaxBytes`,
`MaxAsked`, `MaxClamp` or `MaxWrites` are disabled, and nothing else depends on these bounds.
The symmetry of `basic_bytes` exchanges objects and allocators, which the model
does not tell apart; its properties are safety properties.

**Fairness.** The loops of the library are fair because they are loops of one
thread: a running `commit()`, `next()` or algorithm takes its next
step. The streams return from `read()` and `sputn()`, transformers and codecs
from their call, and return normally: what an exception of theirs would skip is
listed under "Not modelled". `StreamDrained` also needs a user who goes on asking and
consuming; that user may do anything else in between (clear the buffer, ask for
nothing, be refused memory), so the fairness is strong; it says too that memory is
not refused in every one of the calls to come. The other machines have safety properties
only and no fairness.

**Deadlock** is checked except where the system really stops: the algorithms, of
which one call is modelled, the pipe, whose users have a bounded stream, and the
violation run of the cursor.

## Where the code and its comments part

- `safe_grow_full`: `dynbuf_safe_grow` is documented to grow up to `max_size()`.
  A shifting buffer rounds the growth of its storage up to 1024 bytes without
  looking at `max_size()`, so within 1024 bytes of the maximum the storage's
  assertion fires for a growth that would fit. `AssertionSafe` proves that with
  that much headroom it never does.
- `bytes_copy`: `bytes::copy` is documented to copy the contents of a sequence. It
  stops at the first empty buffer of the sequence, because `buffer_copy` takes a
  part of no bytes for the end. `dynbuf_concat`, which copies a concatenation in
  the same way, inherits this.
- `bits_write`: `buffer_bits::write` is documented to set the low `count` bits at
  the cursor. A write that fits in the rest of the current byte lands at the front
  of the byte. `SetsWhereSound` says exactly where `set` is right: at the front of
  a byte, or from inside it to its end and less than a byte further, and never up
  to the last bit of the buffers, where it reads the byte behind it.

Not a run, because no text of the repository promises otherwise: `basic_bytes`
assigned to itself keeps its allocator and loses its bytes; its move constructor
that takes "a different allocator" (`bytes.hpp:193-202`) keeps the memory of the
old one, whatever the two are, so a program that uses it between unequal
allocators gives memory back to the wrong one (with `AnyMove = TRUE` in
`BasicBytes.cfg` TLC finds `OwnedOnce` violated by a construction and such a move,
hence the hypothesis `SoundMoves` of the theorems); `bytewise_iterator::end()` of an
iterator inside a buffer lies past the end; and an iterator of a concatenation
does stop at empty buffers inside a range, though it skips empty ranges.

## Proofs

`DynamicBufferProofs` proves for every set of bytes, every quantum, every
maximum and every window: the type invariant, `WindowInStore`, `StorageBounded`,
`StorageGrowsOnlyWhenFull`, the refinement `Spec => ImplementsByteWindow`,
`CallsStepTheWindow`, and, with a quantum of headroom, `NoAssertionFires`. The inductive invariant `IInv`
says that the buffer is well formed (`Good` of `DynBufLemmas`: window in storage,
storage under the maximum, a bare buffer all window), that its storage and window
keep their bounds, and that an aborted buffer is one that lacked headroom.
The argument is made once per operator in `DynBufLemmas`: each lemma says that an
operator keeps a buffer `Good` and which bytes of the window it `Keeps` where;
the steps of the machine then only pick the lemma. The refinement says that what is
seen of a call is some step of a window; `CallsStepTheWindow` says which, and by how
many bytes: `grow()` may not add one too many, `consume()` not drop from the back.

`LowLevelCopyProofs` proves for every memory and every two areas that a finished
copy equals `Moved`, overlapping or not, and that no byte outside the areas is
touched. Its invariant describes the memory in mid-loop: the bytes already copied
are in place and the rest is as the call found it; the two lemmas about one more
byte are where the direction of the loop matters.

`DynbufIOProofs` proves for every stream, cap, bound and set of buffers
`StreamIntact`, `ViewIsWriteArea` and the refinement `Spec => ImplementsByteQueue`,
and, with headroom, `NoAssertionFires`, `PrepareYields` and `CopyFills`. The first
two are not inductive alone: the invariant adds that the read area lies in the
window, that a buffer in use can be consumed from, that what the producer has
stored lies in the area given to it, and that a `buffer_copy` in progress has room
in the stream and the window for the rest. The second part of `DynBufLemmas` says of
each operator of `dynbuf_io` which bytes it leaves in front, behind the read area and
in the area handed out.

`IostreamIoProofs` proves `SinkLosesNothing`, `SourceLosesNothing` and, with
headroom, `NoAssertionFires` and `EmptyOnlyAtEnd`. Its invariant counts positions
of the stream: behind the bytes that have got out come those of the read area,
some of which the write loop has offered; behind the bytes taken come the read
area and what the read loop has put into the write area. It also says which loop
may run, because one io buffer serves both sides and a side left in mid-call
would be met by the other. For `EmptyOnlyAtEnd` the read loop needs room for a
whole char, which follows from the headroom and from the buffer being empty.

`TransformPipeProofs` proves `EachByteOnce`, `NothingLost`, `LosesOnlyWhenStuck`,
`ShortOnlyWhenStuck` and, with headroom, `NoAssertionFires`, for every transformer
that `TransformOps` allows, every hint, cap and pipe. The properties speak of
sequences and the buffers of indices; the invariant says that a window shows a
run of positions (`Shows`), and that what is through, kept back and unread is, in
a row, everything made but for the lost (`AllBut`). The lemmas carry the argument:
a round splits the concatenation of what the transformer had kept and its input
in two without losing or reordering any of it (`PassedOn`), cutting the end off
an increasing sequence removes just those positions (`CutAllBut`), and storing,
growing or consuming moves the positions shown as it should.

`SequenceProofs` has the theorems about the machines that walk over a sequence of
buffers. Of the algorithms it proves `PassedInOrder`, `ItemsDecoded` and
`EndsDoneOrStuck` for every two sequences of buffers, every transformer, every size
of an item and of its parts. The invariant sees a consumer by its position in the
whole sequence. The lemmas about consumers carry the weight: `consume()` moves the
position by what it was told to, whatever buffers those bytes are in
(`ConsumeFacts`), and `next()` is empty only at an empty buffer or where nothing is
left (`NextSizeFacts`). They rest on sums over a sequence, which need induction;
it is done by the least element of a set (`UpTo`), since the library's induction
theorems are out of the provers' reach. What an encoder promises is subtler than
what a copy does: it may leave an item in the middle when room runs out, and its
loop then steps over that item, so the invariant ties the output to the item only
while there is room. A decoder's slots from its iterator on are untouched, which is
what keeps the decoded items in order.

Of the cursors `SequenceProofs` proves `SkipsAddUp`, `PeeksNext` and
`SetsWhereSound`, and, where the user writes only where `set()` is sound
(`AnyWrite = FALSE`, as in the run), `MovesAddUp` and what `write()` is documented
to do (`WritesLowBits`), for every sequence of buffers, number of bits in a byte
and width of the integers that is a multiple of it. `MovesAddUp` is not inductive:
the invariant (`IteratorInv`) holds in the middle of a move too, where the distance
left makes up for what is missing, and where an iterator that moves back stands
behind the last byte of a buffer, which one that moves forward never does. From it
follows that no assertion fires, since a move goes on only where the sum says that
there are bytes. `BitsInv` adds what `skip()` has yet to skip, and that no bit of
the sequence comes from a write to come, which `SetsWhereSound` needs to tell a
wrong write from a right one: to say where `set()` is *not* sound, a proof has to
show a bit that differs (`LongWrite`, `ShortWrite`). The loops of `peek()` and
`set()` are recursive functions of the byte; the lemmas about them
(`WholeBytesFlat`, `WholeBytesPut`) give each a closed form, by `UpTo` again.

Of the consumer `SequenceProofs` proves `ConsumesAsOne`, `OperandsAhead` and
`VectorFilled`. The module takes the range as a parameter, as the class template
does: its iterators, what `++` and `*` do with them, and the concatenations there
are. All it asks is `RangesAssumption`: a loop from `begin()` meets no iterator twice
and gets to `end()`. TLC evaluates that for the concatenations of `BufferRanges`,
whose recursive operators the proofs never see. The invariant (`ConsumerInv`) says at
which buffer the consumer is, by what is consumed and what a running `consume()` has
left to do; two things make it inductive. Inside the loop the consumer may stand
behind an empty buffer, but when the loop ends it does not: it leaves a buffer only
while there is something to consume. So it ends at the one place that is inside a
buffer or behind one with bytes, where a single `consume()` of the sum ends too
(`ConsumedAtOnce`). And what is left to do never exceeds what the range has, so that
neither assertion fires. The properties about bytes rest on where each byte of a
sequence of views is (`BytesFacts`, `PlaceOfByte`, `SuffixBytes`), and the loop that
fills the vector is an induction over its steps (`FillsOneMore`). `OperandsAhead` is
proved from `OperandsKept`, that a concatenation has the bytes of its operands; this
is what `buffers_cat` does by recursion over the types of its operands, so it is
shown by TLC, in the initial states of the run `buffers_consumer`, where nothing is
consumed yet and `OperandsAhead` says just that.

`BasicBytesProofs` proves `OwnedOnce` and the refinement `Spec => ImplementsByteArrays`
for any set of objects, allocators and bytes, from the hypothesis `SoundMoves`: the
user moves objects only under allocators that can free what they hold
(`AnyMove = FALSE`, as in the run), or there is only one allocator to move them
under. The code has no such condition, and without it neither holds. A call
goes from a state of its object and the heap to another; `Frame` says that it
leaves every other block alone and takes none of them, and the invariant is that
objects and blocks correspond one to one.

**Assumptions.** The theorems use the named assumptions of the modules on their
constants, which TLC evaluates in the runs, and some of them restrict what is
modelled and not only its numbers: the `dynbuf_io` of an `iostream_io` sits over
a container (a fixed buffer could not take what a stream gives), and a char fits
in its windows and under its allocation cap; the buffer of a transform sink or source
is none that rejects `consume` (a bare `fixed_dynamic_buffer`, whose assertion
fires at the first byte consumed). The marks `Garbage` and `Gone` of `BasicBytes`
are not a byte and not an array.
The theorems that say no assertion fires, and `PrepareYields`, `CopyFills` and
`EmptyOnlyAtEnd`, have the hypothesis `Headroom`: wherever shifting buffers over
containers are in use, the largest window stays a quantum (1024 bytes) below
`max_size()`. The run `safe_grow_full` shows that it cannot be dropped. The runs
satisfy all of these.

**Only model-checked.** That the ranges of `BufferRanges` are ranges
(`RangesAssumption`) and that `buffers_cat` keeps the bytes of its operands
(`OperandsKept`), for the operands of the run: both are recursion over nested
concatenations, and the SMT backend does not work in a module that reaches a
recursive operator. `CopiesContents`, which a run refutes, and `WritesLowBits` for a
user who writes anywhere, which another does. Every liveness property (`CommitReturns`,
`StreamDrained`, `CallsReturn`, `Returns`): fairness and `ENABLED` are outside what
the provers can do.

## Not modelled

- Exceptions out of users' code. Growth that throws is modelled wherever the code can
  go on after it (an `iostream_io::prepare` cannot, it is `noexcept`). The streams,
  transformers, codecs, and the sources and sinks behind, are taken to return. In the
  code an exception of theirs skips what follows in the call:
  - `read()`, of an istream with `exceptions()` set (`iostream_io.hpp:135`), skips
    `buf.commit` (`:91`): the bytes read are gone for the user;
  - `sputn()` (`iostream_io.hpp:178`) skips `buf.consume` (`:71`): the bytes it
    accepted earlier in the loop are offered to the stream again;
  - the transformer or the sink behind, in `commit()`, skips `buf.consume(n)`
    (`transform_io.hpp:57-58`): bytes already read stay at the front of the buffer,
    and the next `commit()` reads them again;
  - the transformer or the source behind, in `next()`, skips
    `_avail += res.bytes_written` (`transform_io.hpp:116-117`): bytes already written
    are not counted and are written over by the next call.

  `SinkLosesNothing`, `SourceLosesNothing`, `EachByteOnce`, `NothingLost` and
  `LosesOnlyWhenStuck` are about users' code that does not throw.
- `basic_bytes`: move-assignment does not compile (`other._size()` calls a
  number). Its calls are `noexcept`, so an allocator that throws ends the program.
- `end()` of a `bytewise_iterator` inside a buffer: `MovesAddUp` says what it is,
  and the model's user does not move there.
- `dynbuf_concat`: a `grow`, a `buffers_cat` and a `buffer_copy` in a row, each
  modelled where it belongs.
- `counting_buffers`: forwards every call and reports its size to the user.
- Ranges whose end is a sentinel, moves backwards over adaptors, reading past the
  end of a concatenation (an assertion of the code that no model's user meets).
- Pointers and concepts (`byte_pointer`, `trivial_range`, `bit_cast`, the
  conversions of `as_buffer`, `first`, `last` and `split` of a view): values
  without state, whose bounds the other models carry. Formatting of assertion
  messages, `constexpr` evaluation and `noexcept` computation.

## Plan

1. The core (done): dynamic buffers with proofs, low-level copies with proofs,
   `dynbuf_io`, the streams, the consumers, the algorithms, the transform
   adaptors, the cursors, `basic_bytes`.
2. Model further (done): `buffers_cat` under the consumers; `buffer_copy` into a
   `dynbuf_io`; `end()` and the iterator of one buffer; `bytes::copy`, moves under
   another allocator and assignment to itself; `next()` without memory.
3. Prove further (done): `DynbufIO` over the lemmas of `DynBufLemmas`, with the
   refinement of `ByteQueue`; `BasicBytes` with the refinement of `ByteArrays`;
   the streams; the transform sink and source; the algorithms over the lemmas about
   consumers and sums.
4. Prove the cursors and the consumer (done): `BufferBits` and `BuffersConsumer` over
   the same sums.
