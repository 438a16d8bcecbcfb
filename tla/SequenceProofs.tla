--------------------------- MODULE SequenceProofs ---------------------------
(***************************************************************************)
(* The theorems about the machines that walk over a sequence of buffers:   *)
(* BufferAlgorithms, for every sequence of buffers, transformer, item size *)
(* and bound; BufferBits, for every sequence of buffers, number of bits in *)
(* a byte, width of the integers and bound; and BuffersConsumer, for every *)
(* range, clamp and size of the vector.                                    *)
(*                                                                         *)
(* An algorithm moves two consumers, each a buffer of a sequence and an    *)
(* offset in it.  The proofs see a consumer by its Position, the bytes     *)
(* behind it in the whole sequence: consume() moves it by what it was told *)
(* to, whatever buffers these bytes are in (ConsumeFacts), and stops the   *)
(* algorithm only at an empty buffer or where nothing is left              *)
(* (NextSizeFacts).  That the position is well defined, and that the       *)
(* buffers up to a later one hold no fewer bytes, is induction over the    *)
(* buffers, done by the least element of a set (UpTo).                     *)
(*                                                                         *)
(* The inductive invariant has a part for each algorithm.  That of a copy, *)
(* a transformer and an encoder says which bytes the output has (Sent) and *)
(* where the next are: in the input, or kept back by the transformer or in *)
(* the item the encoder is in.  That of a decoder says that the slots from *)
(* its iterator on are untouched, which keeps the items in order.          *)
(*                                                                         *)
(* The bit cursor's invariant has a part for the iterator, by which the    *)
(* moves in progress still add up, and one for the bits, by which those    *)
(* that skip() has yet to skip do.  From it, what peek() and set() do in   *)
(* one byte, in the whole bytes of their loops and in the last byte is     *)
(* joined to what they do to the sequence (RunsJoin, SetBits): the loops   *)
(* are closed forms by UpTo again (WholeBytesFlat, WholeBytesPut).         *)
(*                                                                         *)
(* A buffers_consumer's invariant says at which buffer of the range it is, *)
(* with what is consumed and what a running consume() has left to do in    *)
(* front of it (StandsAt), and that outside of consume() it is behind no   *)
(* empty buffer, which is where one consume() of all of it ends too        *)
(* (ConsumedAtOnce).  The bytes of a sequence of views are known by their  *)
(* buffer and their place in it (BytesFacts, PlaceOfByte); the loop that   *)
(* fills the vector takes the next of them, buffer by buffer               *)
(* (FillsOneMore).                                                         *)
(***************************************************************************)
EXTENDS BufferAlgorithms, BufferBits, BuffersConsumer, SequenceTheorems, WellFoundedInduction, TLAPS

-----------------------------------------------------------------------------
(* The bytes before a buffer *)

\* What holds of 0 and, if it holds of n - 1, of n, holds of every number up to
\* m: a set that is closed in this way has them all.
LEMMA UpTo ==
  ASSUME NEW m \in Nat, NEW S, 0 \in S,
         \A n \in 1..m : n - 1 \in S => n \in S
  PROVE  0..m \subseteq S
<1> DEFINE R == OpToRel(<, Nat)
           T == (0..m) \ S
<1>1. IsWellFoundedOn(R, Nat)
  BY NatLessThanWellFounded
<1>2. \A x, y \in Nat : y < x => <<y, x>> \in R
  BY DEF OpToRel
<1>3. T \in SUBSET Nat
  OBVIOUS
<1> HIDE DEF R
<1>4. SUFFICES ASSUME T # {} PROVE FALSE
  OBVIOUS
<1>5. PICK x \in T : \A y \in T : <<y, x>> \notin R
  BY <1>1, <1>3, <1>4, WFMin
<1>6. x \in Nat /\ x <= m /\ x \notin S /\ x # 0
  BY <1>5
<1>7. x \in 1..m /\ x - 1 \in 0..m /\ x - 1 \in Nat /\ x - 1 < x
  BY <1>6
<1>8. x - 1 \in S
  BY <1>2, <1>3, <1>5, <1>6, <1>7
<1> QED BY <1>6, <1>7, <1>8

\* The values of L steps, of which each makes the next value of the last
Steps(X, L, x0, F) ==
  {g \in [0..L -> X] : g[0] = x0 /\ \A i \in 1..L : g[i] = F[i][g[i - 1]]}

\* There are such values, whatever the steps do.
LEMMA StepsExist ==
  ASSUME NEW X, NEW L \in Nat, NEW x0 \in X, NEW F \in [1..L -> [X -> X]]
  PROVE  Steps(X, L, x0, F) # {}
<1> DEFINE Made(n) == {g \in [0..L -> X] : g[0] = x0 /\ \A i \in 1..n : g[i] = F[i][g[i - 1]]}
           S == {n \in 0..L : Made(n) # {}}
<1>2. 0 \in S
  <2>1. [i \in 0..L |-> x0] \in Made(0)
    OBVIOUS
  <2> QED BY <2>1
<1>3. ASSUME NEW n \in 1..L, n - 1 \in S PROVE n \in S
  <2>1. PICK g \in Made(n - 1) : TRUE
    BY <1>3
  <2> DEFINE h == [g EXCEPT ![n] = F[n][g[n - 1]]]
  <2>2. /\ g \in [0..L -> X] /\ g[0] = x0 /\ n \in Nat /\ n >= 1 /\ n <= L
        /\ \A i \in 1..(n - 1) : g[i] = F[i][g[i - 1]]
    BY <2>1
  <2>3. h \in [0..L -> X]
    <3>1. n - 1 \in 0..L
      BY <2>2
    <3>2. F[n][g[n - 1]] \in X
      BY <2>2, <3>1
    <3> QED BY <2>2, <3>2
  <2>4. h[0] = x0
    BY <2>2
  <2>5. ASSUME NEW i \in 1..n PROVE h[i] = F[i][h[i - 1]]
    <3>1. i \in 0..L /\ i - 1 \in 0..L /\ i - 1 # n
      BY <2>2
    <3>2. CASE i = n
      BY <2>2, <3>1, <3>2
    <3>3. CASE i # n
      <4>1. i \in 1..(n - 1)
        BY <2>2, <3>3
      <4> QED BY <2>2, <3>1, <3>3, <4>1
    <3> QED BY <3>2, <3>3
  <2> HIDE DEF h
  <2>6. h \in Made(n)
    BY <2>3, <2>4, <2>5
  <2>7. n \in 0..L
    BY <2>2
  <2> QED BY <2>6, <2>7
<1>4. 0..L \subseteq S
  <2> HIDE DEF S
  <2> QED BY <1>2, <1>3, UpTo
<1>5. L \in S
  <2> HIDE DEF S
  <2> QED BY <1>4
<1> QED BY <1>5 DEF Steps

\* The sums of a sequence exist.
LEMMA SumsExist ==
  ASSUME NEW seq \in Seq(Nat)
  PROVE  \E g \in [0..Len(seq) -> Nat] :
           /\ g[0] = 0
           /\ \A i \in 1..Len(seq) : g[i] = g[i - 1] + seq[i]
<1> DEFINE L == Len(seq)
           F == [i \in 1..L |-> [x \in Nat |-> x + seq[i]]]
<1>1. L \in Nat /\ \A i \in 1..L : seq[i] \in Nat
  BY LenProperties, ElementOfSeq
<1> HIDE DEF L
<1>2. F \in [1..L -> [Nat -> Nat]]
  BY <1>1
<1>3. PICK g \in [0..L -> Nat] : g[0] = 0 /\ \A i \in 1..L : g[i] = F[i][g[i - 1]]
  <2> HIDE DEF F
  <2>1. Steps(Nat, L, 0, F) # {}
    BY <1>1, <1>2, StepsExist
  <2> QED BY <2>1 DEF Steps
<1>4. \A i \in 1..L : i - 1 \in 0..L
  BY <1>1
<1> QED BY <1>3, <1>4 DEF L

\* The bytes in the first k buffers are those in the first k - 1 and those in
\* the k-th.
LEMMA BeforeFacts ==
  ASSUME NEW seq \in Seq(Nat)
  PROVE  /\ Before(seq, 0) = 0
         /\ \A k \in 0..Len(seq) : Before(seq, k) \in Nat
         /\ \A k \in 1..Len(seq) : Before(seq, k) = Before(seq, k - 1) + seq[k]
         /\ buffer_size(seq) = Before(seq, Len(seq)) /\ buffer_size(seq) \in Nat
<1> DEFINE L == Len(seq)
           Following(f) == [i \in 0..L |-> IF i = 0 THEN 0 ELSE f[i - 1] + seq[i]]
           sum == CHOOSE f : f = Following(f)
<1>1. L \in Nat
  BY LenProperties
<1>2. \A k : Before(seq, k) = sum[k]
  BY DEF Before
<1>3. PICK g \in [0..L -> Nat] : /\ g[0] = 0
                                 /\ \A i \in 1..L : g[i] = g[i - 1] + seq[i]
  BY SumsExist
<1> HIDE DEF L
<1>4. g = Following(g)
  <2>1. ASSUME NEW i \in 0..L PROVE g[i] = Following(g)[i]
    <3>1. i = 0 \/ i \in 1..L
      BY <1>1
    <3> QED BY <1>3, <3>1
  <2> QED BY <1>3, <2>1
<1>5. sum = Following(sum)
  <2> HIDE DEF Following
  <2> QED BY <1>4
<1>6. sum[0] = 0 /\ \A k \in 1..L : sum[k] = sum[k - 1] + seq[k]
  <2>1. 0 \in 0..L /\ \A k \in 1..L : k \in 0..L /\ k # 0
    BY <1>1
  <2> HIDE DEF sum
  <2>2. \A k \in 0..L : sum[k] = IF k = 0 THEN 0 ELSE sum[k - 1] + seq[k]
    BY ONLY <1>5
  <2> QED BY <2>1, <2>2
<1> HIDE DEF sum
<1>7. \A k \in 0..L : sum[k] \in Nat
  <2> DEFINE S == {k \in 0..L : sum[k] \in Nat}
  <2>1. 0 \in S
    BY <1>1, <1>6
  <2>2. ASSUME NEW n \in 1..L, n - 1 \in S PROVE n \in S
    <3>1. seq[n] \in Nat /\ n \in 0..L
      BY <1>1, ElementOfSeq DEF L
    <3> QED BY <1>6, <2>2, <3>1
  <2>3. 0..L \subseteq S
    <3> HIDE DEF S
    <3> QED BY <1>1, <2>1, <2>2, UpTo
  <2> QED BY <2>3
<1>8. L \in 0..L
  BY <1>1
<1> QED BY <1>1, <1>2, <1>6, <1>7, <1>8 DEF L, buffer_size

\* More buffers have no fewer bytes.
LEMMA BeforeMonotone ==
  ASSUME NEW seq \in Seq(Nat), NEW k \in 0..Len(seq), NEW j \in 0..k
  PROVE  Before(seq, j) <= Before(seq, k)
<1> DEFINE L == Len(seq)
           S == {n \in 0..(L - j) : Before(seq, j) <= Before(seq, j + n)}
<1>1. /\ L \in Nat /\ \A i \in 1..L : seq[i] \in Nat
      /\ j \in Nat /\ k \in Nat /\ j <= k /\ k <= L
  BY LenProperties, ElementOfSeq
<1>2. /\ \A i \in 0..L : Before(seq, i) \in Nat
      /\ \A i \in 1..L : Before(seq, i) = Before(seq, i - 1) + seq[i]
  BY BeforeFacts
<1> HIDE DEF L
<1>3. 0 \in S
  BY <1>1, <1>2
<1>4. ASSUME NEW n \in 1..(L - j), n - 1 \in S PROVE n \in S
  <2>1. /\ j + n \in 1..L /\ j + n - 1 \in 0..L /\ j \in 0..L
        /\ j + n - 1 = j + (n - 1) /\ n \in 0..(L - j)
    BY <1>1
  <2>2. Before(seq, j) <= Before(seq, j + n - 1)
    BY <1>4, <2>1
  <2>3. Before(seq, j + n) = Before(seq, j + n - 1) + seq[j + n]
    BY <1>2, <2>1
  <2>4. Before(seq, j) \in Nat /\ Before(seq, j + n - 1) \in Nat /\ seq[j + n] \in Nat
    BY <1>1, <1>2, <2>1
  <2>5. Before(seq, j) <= Before(seq, j + n)
    BY <2>2, <2>3, <2>4
  <2> QED BY <2>1, <2>5
<1>5. 0..(L - j) \subseteq S
  <2>1. L - j \in Nat
    BY <1>1
  <2> HIDE DEF S
  <2> QED BY <1>3, <1>4, <2>1, UpTo
<1>6. k - j \in 0..(L - j) /\ j + (k - j) = k
  BY <1>1
<1> QED BY <1>5, <1>6

\* The sequences there are, and that of no buffers.
LEMMA SequencesFacts == Sequences \subseteq Seq(Nat) /\ << >> \in Seq(Nat)
<1>1. ASSUME NEW seq \in Sequences PROVE seq \in Seq(Nat)
  <2>1. PICK m \in 0..MaxBufs : seq \in [1..m -> Sizes]
    BY DEF Sequences, BoundedSeq, SeqOf
  <2>2. m \in Nat /\ Sizes \subseteq Nat
    BY SizesAssumption
  <2>3. \A i \in 1..m : seq[i] \in Nat
    BY <2>1, <2>2
  <2> QED BY <2>1, <2>2, <2>3
<1> QED BY <1>1

-----------------------------------------------------------------------------
(* The invariant of the algorithms *)

\* A consumer at a buffer, and inside it unless the buffer is empty, or past
\* the last; its clamp is what is left of the sequence.
GoodConsumer(c) ==
  /\ c \in [bufs : Seq(Nat), it : Nat, off : Nat, rem : Nat, status : {"running"}]
  /\ c.it \in 1..(Len(c.bufs) + 1)
  /\ c.off # 0 => ~AtStop(c) /\ c.off < c.bufs[c.it]
  /\ c.rem = buffer_size(c.bufs) - Position(c)

\* The output has the first bytes, as many as are behind its consumer.
Sent ==
  /\ dst \in [Cells(buffer_size(out.bufs)) -> Nat]
  /\ \A i \in DOMAIN dst : dst[i] = IF i < Position(out) THEN i + 1 ELSE Unset

CopyInv ==
  /\ call \in [name : {"copy"}, max_copy : Nat, remaining : Nat]
  /\ call.remaining <= call.max_copy
  /\ Copied = Position(out) /\ Position(out) = Position(in)
  /\ Sent
  /\ returned => CopyEnds

Transformers == [read : Nat, held : Seq(Nat)]
Totals == [bytes_read : Nat, bytes_written : Nat, done : BOOLEAN]

TransformInv ==
  /\ call \in [name : {"transform"}, tr : Transformers, result_acc : Totals]
  /\ Sent
  /\ \A i \in 1..Len(call.tr.held) : call.tr.held[i] = Position(out) + i
  /\ Position(out) + Len(call.tr.held) = Position(in)
  /\ call.result_acc.bytes_read = Position(in)
  /\ call.result_acc.bytes_written = Position(out)
  /\ returned => call.result_acc.done \/ Stuck(in) \/ Stuck(out)

\* An encoder is in the item at hand, or has run out of room: then the loop of
\* the items may have stepped over the item it is in.
EncodeInv ==
  /\ call \in [name : {"encode"}, n : Nat, it : Nat \ {0}, within : BOOLEAN,
               off : Cells(ItemSize), total_written : Nat]
  /\ Sent
  /\ call.total_written = Position(out)
  /\ Position(out) % ItemSize = call.off
  /\ \/ /\ Position(out) = (call.it - 1) * ItemSize + call.off
        /\ call.within \/ call.off = 0
     \/ ~call.within /\ Stuck(out)
  /\ returned => ~call.within /\ (call.it > call.n \/ Stuck(out))

\* A decoder into a range has not touched the slots from its iterator on.
DecodeInv ==
  /\ call \in [name : {"decode"}, single : BOOLEAN, n : Nat, slot : Nat,
               off : Cells(ItemSize), item : Nat, has_error : BOOLEAN,
               total_read : Nat]
  /\ call.slot <= call.n
  /\ call.single => call.n = 1 /\ call.slot = 0
  /\ dst \in [Cells(call.n) -> Nat]
  /\ {dst[i] : i \in Cells(call.n)} \ {Unset} = 1..call.item
  /\ \A i, j \in Cells(call.n) : i < j /\ dst[j] # Unset => dst[i] < dst[j]
  /\ ~returned => \A i \in Cells(call.n) : i >= call.slot => dst[i] = Unset
  /\ call.total_read = Position(in)
  /\ call.has_error => returned
  /\ ~call.has_error => Position(in) = call.item * ItemSize + call.off
  /\ returned => \/ call.has_error \/ call.slot = call.n
                 \/ call.single /\ call.item = 1
                 \/ Stuck(in)

\* The inductive invariant.
IInv ==
  /\ GoodConsumer(in) /\ GoodConsumer(out)
  /\ returned \in BOOLEAN
  /\ CopyInv \/ TransformInv \/ EncodeInv \/ DecodeInv

-----------------------------------------------------------------------------
(* Consumers *)

\* Where a consumer stands.
LEMMA PositionFacts ==
  ASSUME NEW c, GoodConsumer(c)
  PROVE  /\ Position(c) \in Nat /\ c.rem \in Nat /\ buffer_size(c.bufs) \in Nat
         /\ Position(c) + c.rem = buffer_size(c.bufs)
         /\ AtStop(c) => c.rem = 0
         /\ ~AtStop(c) => /\ c.it \in 1..Len(c.bufs) /\ c.bufs[c.it] \in Nat
                          /\ c.off <= c.bufs[c.it]
<1> DEFINE L == Len(c.bufs)
<1>1. /\ c.bufs \in Seq(Nat) /\ c.it \in Nat /\ c.off \in Nat /\ c.rem \in Nat
      /\ c.it \in 1..(L + 1)
      /\ c.off # 0 => ~AtStop(c) /\ c.off < c.bufs[c.it]
      /\ c.rem = buffer_size(c.bufs) - Position(c)
  BY DEF GoodConsumer
<1>2. L \in Nat /\ \A i \in 1..L : c.bufs[i] \in Nat
  BY <1>1, LenProperties, ElementOfSeq
<1>3. /\ \A k \in 0..L : Before(c.bufs, k) \in Nat
      /\ buffer_size(c.bufs) = Before(c.bufs, L) /\ buffer_size(c.bufs) \in Nat
  BY <1>1, BeforeFacts
<1> HIDE DEF L
<1>4. Position(c) \in Nat
  <2>1. c.it - 1 \in 0..L
    BY <1>1, <1>2
  <2> QED BY <1>1, <1>3, <2>1 DEF Position
<1>5. ASSUME AtStop(c) PROVE c.rem = 0
  <2>1. c.it - 1 = L /\ c.off = 0
    BY <1>1, <1>2, <1>5 DEF AtStop, L
  <2>2. Position(c) = buffer_size(c.bufs)
    BY <1>3, <2>1 DEF Position
  <2> QED BY <1>1, <1>3, <2>2
<1>6. ASSUME ~AtStop(c) PROVE c.it \in 1..L /\ c.bufs[c.it] \in Nat /\ c.off <= c.bufs[c.it]
  <2>1. c.it \in 1..L
    BY <1>1, <1>2, <1>6 DEF AtStop, L
  <2> QED BY <1>1, <1>2, <2>1
<1> QED BY <1>1, <1>3, <1>4, <1>5, <1>6 DEF L

\* What next(n) returns is no larger than asked for and than what is left, and
\* it is empty only where nothing is left or the consumer is at an empty buffer.
LEMMA NextSizeFacts ==
  ASSUME NEW c, GoodConsumer(c), NEW n \in Nat
  PROVE  /\ NextSize(c, n) \in Nat /\ NextSize(c, n) <= n /\ NextSize(c, n) <= c.rem
         /\ NextSize(c, n) = 0 /\ n # 0 => c.rem = 0 \/ AtEmptyBuffer(c)
         /\ NextSize(c, n) = 0 /\ n # 0 => Stuck(c)
         /\ Stuck(c) => NextSize(c, n) = 0
<1>1. /\ c.rem \in Nat
      /\ AtStop(c) => c.rem = 0
      /\ ~AtStop(c) => c.bufs[c.it] \in Nat /\ c.off <= c.bufs[c.it]
      /\ c.off \in Nat
  BY PositionFacts DEF GoodConsumer
<1>2. c.off # 0 => c.off < c.bufs[c.it]
  BY DEF GoodConsumer
<1>3. CASE AtStop(c)
  BY <1>1, <1>3 DEF NextSize, Stuck
<1>4. CASE ~AtStop(c)
  <2> DEFINE left == c.bufs[c.it] - c.off
  <2>1. /\ left \in Nat /\ c.rem \in Nat
        /\ left = 0 => c.bufs[c.it] = 0
    BY <1>1, <1>2, <1>4
  <2>2. \A k \in Nat : NextSize(c, k) = Smaller(Smaller(k, c.rem), left)
    BY <1>4 DEF NextSize
  <2> HIDE DEF left
  <2>3. /\ NextSize(c, n) \in Nat /\ NextSize(c, n) <= n /\ NextSize(c, n) <= c.rem
        /\ NextSize(c, n) = 0 /\ n # 0 => c.rem = 0 \/ left = 0
    BY <2>1, <2>2 DEF Smaller
  <2>4. NextSize(c, 1) = Smaller(Smaller(1, c.rem), left)
    BY <2>2
  <2>5. /\ NextSize(c, 1) = 0 <=> c.rem = 0 \/ left = 0
        /\ c.rem = 0 \/ left = 0 => NextSize(c, n) = 0
    BY <2>1, <2>2, <2>4 DEF Smaller
  <2> QED BY <1>4, <2>1, <2>3, <2>5 DEF Stuck, AtEmptyBuffer
<1> QED BY <1>3, <1>4

\* The buffer that holds byte p of what is ahead.
LEMMA HoldsByte ==
  ASSUME NEW c, GoodConsumer(c), NEW p \in Nat,
         Position(c) < p, p <= buffer_size(c.bufs)
  PROVE  \E k \in c.it..Len(c.bufs) :
           /\ Before(c.bufs, k) >= p
           /\ \A j \in c.it..(k - 1) : Before(c.bufs, j) < p
<1> DEFINE L == Len(c.bufs)
           m == L - c.it
           B(k) == Before(c.bufs, k)
           S == {n \in 0..m : \A j \in c.it..(c.it + n) : B(j) < p}
<1>1. /\ c.bufs \in Seq(Nat) /\ L \in Nat /\ ~AtStop(c) /\ c.it \in 1..L
      /\ Position(c) \in Nat /\ buffer_size(c.bufs) \in Nat
  BY PositionFacts, LenProperties DEF GoodConsumer
<1>2. (\A k \in 0..L : B(k) \in Nat) /\ buffer_size(c.bufs) = B(L)
  BY <1>1, BeforeFacts
<1> HIDE DEF L, B
<1>3. SUFFICES ASSUME ~\E k \in c.it..L : B(k) >= p /\ \A j \in c.it..(k - 1) : B(j) < p
               PROVE  FALSE
  BY DEF L, B
<1>4. m \in Nat /\ c.it + m = L
  BY <1>1
<1>5. \A k \in c.it..L : B(k) \in Nat
  BY <1>1, <1>2
<1>6. 0 \in S
  <2>1. c.it \in c.it..L /\ c.it..(c.it - 1) = {} /\ c.it..(c.it + 0) = {c.it}
    BY <1>1
  <2>2. ~(B(c.it) >= p)
    BY <1>3, <2>1
  <2>3. B(c.it) < p
    BY <1>5, <2>1, <2>2
  <2> QED BY <1>4, <2>1, <2>3
<1>7. ASSUME NEW n \in 1..m, n - 1 \in S PROVE n \in S
  <2>1. \A j \in c.it..(c.it + (n - 1)) : B(j) < p
    BY <1>7
  <2>2. /\ c.it + n \in c.it..L /\ (c.it + n) - 1 = c.it + (n - 1) /\ n \in 0..m
        /\ c.it..(c.it + n) = (c.it..(c.it + (n - 1))) \cup {c.it + n}
    <3> DEFINE a == c.it
    <3>1. a \in Nat /\ L \in Nat /\ a <= L /\ m = L - a /\ n \in 1..m /\ m \in Nat
      BY <1>1, <1>4, <1>7
    <3> HIDE DEF a, m
    <3>2. a + n \in a..L /\ (a + n) - 1 = a + (n - 1) /\ n \in 0..m
      BY ONLY <3>1
    <3>3. a..(a + n) = (a..(a + (n - 1))) \cup {a + n}
      BY ONLY <3>1
    <3> QED BY <3>2, <3>3 DEF a
  <2>3. ~(B(c.it + n) >= p)
    BY <1>3, <2>1, <2>2
  <2>4. B(c.it + n) < p
    BY <1>5, <2>2, <2>3
  <2> QED BY <2>1, <2>2, <2>4
<1>8. m \in S
  <2> HIDE DEF S, m
  <2>1. 0..m \subseteq S
    BY <1>4, <1>6, <1>7, UpTo
  <2> QED BY <1>4, <2>1
<1>9. L \in c.it..(c.it + m)
  BY <1>1, <1>4
<1>10. B(L) < p
  BY <1>8, <1>9
<1> QED BY <1>1, <1>2, <1>10

\* A consumer put behind byte p is a good one, and p bytes are behind it.
LEMMA LandedFacts ==
  ASSUME NEW c, GoodConsumer(c), NEW p \in Nat,
         Position(c) < p, p <= buffer_size(c.bufs)
  PROVE  LET d == [Landed(c, p) EXCEPT !.rem = c.rem - (p - Position(c))]
         IN GoodConsumer(d) /\ Position(d) = p /\ d.bufs = c.bufs
<1> DEFINE L == Len(c.bufs)
           B(k) == Before(c.bufs, k)
           last == CHOOSE k \in c.it..L : /\ B(k) >= p
                                          /\ \A j \in c.it..(k - 1) : B(j) < p
           d == [Landed(c, p) EXCEPT !.rem = c.rem - (p - Position(c))]
<1>1. /\ c \in [bufs : Seq(Nat), it : Nat, off : Nat, rem : Nat, status : {"running"}]
      /\ c.bufs \in Seq(Nat) /\ L \in Nat /\ c.it \in 1..L
      /\ Position(c) \in Nat /\ buffer_size(c.bufs) \in Nat /\ c.off \in Nat
      /\ c.rem \in Nat /\ Position(c) + c.rem = buffer_size(c.bufs)
      /\ Position(c) = B(c.it - 1) + c.off
  BY PositionFacts, LenProperties DEF GoodConsumer, Position
<1>2. /\ \A k \in 0..L : B(k) \in Nat
      /\ \A k \in 1..L : B(k) = B(k - 1) + c.bufs[k]
      /\ buffer_size(c.bufs) = B(L)
  BY <1>1, BeforeFacts
<1>3. /\ B(last) = p => d = [[c EXCEPT !.it = last + 1, !.off = 0]
                              EXCEPT !.rem = c.rem - (p - Position(c))]
      /\ B(last) # p => d = [[c EXCEPT !.it = last, !.off = p - B(last - 1)]
                              EXCEPT !.rem = c.rem - (p - Position(c))]
  <2>1. Landed(c, p) = IF B(last) = p
                       THEN [c EXCEPT !.it = last + 1, !.off = 0]
                       ELSE [c EXCEPT !.it = last, !.off = p - B(last - 1)]
    BY DEF Landed
  <2> HIDE DEF last, B
  <2> QED BY <2>1
<1>4. last \in c.it..L /\ B(last) >= p /\ \A j \in c.it..(last - 1) : B(j) < p
  BY HoldsByte
<1> HIDE DEF L, last
<1>5. /\ last \in Nat /\ last \in 1..L /\ last \in 0..L /\ last - 1 \in 0..L
      /\ (last + 1) - 1 = last /\ last + 1 \in 1..(L + 1) /\ last \in 1..(L + 1)
      /\ last + 1 \in Nat
  BY <1>1, <1>4
<1>6. B(last - 1) < p
  <2>1. CASE last = c.it
    <3>1. B(last - 1) \in Nat /\ Position(c) = B(last - 1) + c.off
      BY <1>1, <1>2, <1>5, <2>1
    <3> QED BY <1>1, <3>1
  <2>2. CASE last # c.it
    <3>1. last - 1 \in c.it..(last - 1)
      BY <1>1, <1>4, <2>2
    <3> QED BY <1>4, <3>1
  <2> QED BY <2>1, <2>2
<1>7. /\ B(last) \in Nat /\ B(last - 1) \in Nat /\ B(last) = B(last - 1) + c.bufs[last]
      /\ c.bufs[last] \in Nat
  BY <1>1, <1>2, <1>5, ElementOfSeq DEF L
<1>8. /\ c.rem - (p - Position(c)) \in Nat
      /\ c.rem - (p - Position(c)) = buffer_size(c.bufs) - p
  BY <1>1
<1> HIDE DEF B, d
<1>9. CASE B(last) = p
  <2>1. /\ d \in [bufs : Seq(Nat), it : Nat, off : Nat, rem : Nat, status : {"running"}]
        /\ d.bufs = c.bufs /\ d.it = last + 1 /\ d.off = 0
        /\ d.rem = buffer_size(c.bufs) - p
    <3>1. d = [[c EXCEPT !.it = last + 1, !.off = 0]
               EXCEPT !.rem = c.rem - (p - Position(c))]
      BY <1>3, <1>9
    <3> QED BY ONLY <1>1, <1>5, <1>8, <3>1
  <2>2. Position(d) = p
    BY <1>5, <1>7, <1>9, <2>1 DEF Position, B
  <2> QED BY <1>5, <2>1, <2>2 DEF GoodConsumer, d, L
<1>10. CASE B(last) # p
  <2>1. p - B(last - 1) \in Nat /\ p - B(last - 1) < c.bufs[last]
    BY <1>4, <1>6, <1>7, <1>10
  <2>2. /\ d \in [bufs : Seq(Nat), it : Nat, off : Nat, rem : Nat, status : {"running"}]
        /\ d.bufs = c.bufs /\ d.it = last /\ d.off = p - B(last - 1)
        /\ d.rem = buffer_size(c.bufs) - p
    <3>1. d = [[c EXCEPT !.it = last, !.off = p - B(last - 1)]
               EXCEPT !.rem = c.rem - (p - Position(c))]
      BY <1>3, <1>10
    <3> QED BY ONLY <1>1, <1>5, <1>8, <2>1, <3>1
  <2>3. Position(d) = p
    BY <1>7, <2>2 DEF Position, B
  <2>4. ~AtStop(d)
    BY <1>1, <1>5, <2>2 DEF AtStop, L
  <2> QED BY <1>5, <2>1, <2>2, <2>3, <2>4 DEF GoodConsumer, d, L
<1> QED BY <1>9, <1>10 DEF d

\* consume(n) of what is left moves a consumer by n bytes, whatever buffers
\* they are in.
LEMMA ConsumeFacts ==
  ASSUME NEW c, GoodConsumer(c), NEW n \in Nat, n <= c.rem
  PROVE  /\ GoodConsumer(consume(c, n)) /\ consume(c, n).bufs = c.bufs
         /\ Position(consume(c, n)) = Position(c) + n
<1>1. /\ Position(c) \in Nat /\ c.rem \in Nat /\ buffer_size(c.bufs) \in Nat
      /\ Position(c) + c.rem = buffer_size(c.bufs)
      /\ AtStop(c) => c.rem = 0
  BY PositionFacts
<1>2. CASE n = 0
  BY <1>1, <1>2 DEF consume
<1>3. CASE n # 0
  <2> DEFINE p == Position(c) + n
  <2>1. p \in Nat /\ Position(c) < p /\ p <= buffer_size(c.bufs) /\ p - Position(c) = n
    BY <1>1, <1>3
  <2>2. ~empty(c) /\ ~(n > buffer_size(c.bufs) - Position(c))
    BY <1>1, <1>3 DEF empty
  <2>3. consume(c, n) = [Landed(c, p) EXCEPT !.rem = c.rem - (p - Position(c))]
    BY <1>3, <2>1, <2>2 DEF consume
  <2> HIDE DEF p
  <2>4. /\ GoodConsumer(consume(c, n)) /\ Position(consume(c, n)) = p
        /\ consume(c, n).bufs = c.bufs
    BY <2>1, <2>3, LandedFacts
  <2> QED BY <2>4 DEF p
<1> QED BY <1>2, <1>3

\* A new consumer of a whole sequence stands at its first byte.
LEMMA UnclampedFacts ==
  ASSUME NEW seq \in Seq(Nat)
  PROVE  GoodConsumer(Unclamped(seq)) /\ Position(Unclamped(seq)) = 0
         /\ Unclamped(seq).bufs = seq
<1> DEFINE c == Unclamped(seq)
<1>1. Len(seq) \in Nat /\ Before(seq, 0) = 0 /\ buffer_size(seq) \in Nat
  BY LenProperties, BeforeFacts
<1>2. /\ c \in [bufs : Seq(Nat), it : Nat, off : Nat, rem : Nat, status : {"running"}]
      /\ c.bufs = seq /\ c.it = 1 /\ c.off = 0 /\ c.rem = buffer_size(seq)
  BY <1>1 DEF Unclamped, buffers_consumer
<1> HIDE DEF c
<1>3. Position(c) = 0
  BY <1>1, <1>2 DEF Position
<1>4. GoodConsumer(c)
  BY <1>1, <1>2, <1>3 DEF GoodConsumer
<1> QED BY <1>2, <1>3, <1>4 DEF c

-----------------------------------------------------------------------------
(* What the algorithms compute with *)

\* A call starts with both consumers at the first byte.
LEMMA StartFacts ==
  ASSUME NEW src \in Seq(Nat), NEW dest \in Seq(Nat), NEW n \in Nat,
         InitBetween(src, dest, n)
  PROVE  /\ GoodConsumer(in) /\ Position(in) = 0
         /\ GoodConsumer(out) /\ Position(out) = 0 /\ out.bufs = dest
         /\ dst \in [Cells(n) -> Nat] /\ \A i \in Cells(n) : dst[i] = Unset
         /\ returned = FALSE
<1>1. /\ in = Unclamped(src) /\ out = Unclamped(dest)
      /\ dst = [i \in Cells(n) |-> Unset] /\ returned = FALSE
  BY DEF InitBetween
<1>2. dst \in [Cells(n) -> Nat] /\ \A i \in Cells(n) : dst[i] = Unset
  BY <1>1 DEF Unset
<1> QED BY <1>1, <1>2, UnclampedFacts

\* Nothing has been sent at first.
LEMMA NothingSent ==
  ASSUME dst \in [Cells(buffer_size(out.bufs)) -> Nat], Position(out) = 0,
         \A i \in Cells(buffer_size(out.bufs)) : dst[i] = Unset
  PROVE  Sent
<1>1. \A i \in DOMAIN dst : i \in Cells(buffer_size(out.bufs))
  OBVIOUS
<1>2. \A i \in Cells(buffer_size(out.bufs)) : ~(i < 0)
  BY DEF Cells
<1> QED BY <1>1, <1>2 DEF Sent

\* Bytes of the input as a sequence.
LEMMA BytesFromFacts ==
  ASSUME NEW k \in Nat, NEW n \in Nat
  PROVE  /\ BytesFrom(k, n) \in Seq(Nat) /\ Len(BytesFrom(k, n)) = n
         /\ \A i \in 1..n : BytesFrom(k, n)[i] = k + i
<1>1. \A i \in 1..n : k + i \in Nat
  OBVIOUS
<1> QED BY <1>1 DEF BytesFrom

\* The next bytes stored where the output's consumer stands, and committed, are
\* sent.
LEMMA SendMore ==
  ASSUME Sent, GoodConsumer(out), NEW values \in Seq(Nat),
         Len(values) <= out.rem,
         \A i \in 1..Len(values) : values[i] = Position(out) + i,
         dst' = Stored(Position(out), values),
         out' = consume(out, Len(values))
  PROVE  /\ Sent' /\ GoodConsumer(out)'
         /\ Position(out)' = Position(out) + Len(values)
<1> DEFINE w == Position(out)
           n == Len(values)
<1>1. n \in Nat /\ w \in Nat
  BY LenProperties, PositionFacts
<1>2. GoodConsumer(out') /\ out'.bufs = out.bufs /\ Position(out') = w + n
  BY <1>1, ConsumeFacts
<1>3. dst \in [Cells(buffer_size(out.bufs)) -> Nat]
      /\ \A i \in DOMAIN dst : dst[i] = IF i < w THEN i + 1 ELSE Unset
  BY DEF Sent
<1>4. dst' = [i \in DOMAIN dst |-> IF i - w \in Cells(n) THEN values[i - w + 1] ELSE dst[i]]
  BY DEF Stored
<1>5. \A i \in 1..n : values[i] = w + i
  OBVIOUS
<1> HIDE DEF w, n
<1>6. \A i \in DOMAIN dst : i \in Nat
  BY <1>3 DEF Cells
<1>7. ASSUME NEW i \in DOMAIN dst
      PROVE  dst'[i] = (IF i < w + n THEN i + 1 ELSE Unset) /\ dst'[i] \in Nat
  <2>1. i \in Nat /\ dst[i] \in Nat
    BY <1>3, <1>6
  <2>2. CASE i - w \in Cells(n)
    <3>1. i - w + 1 \in 1..n /\ i < w + n
      BY <1>1, <2>1, <2>2 DEF Cells
    <3>2. values[i - w + 1] = i + 1
      BY <1>1, <1>5, <2>1, <3>1
    <3> QED BY <1>4, <2>1, <2>2, <3>1, <3>2
  <2>3. CASE i - w \notin Cells(n)
    <3>1. i < w \/ ~(i < w + n)
      BY <1>1, <2>1, <2>3 DEF Cells
    <3>2. i < w => i < w + n
      BY <1>1, <2>1
    <3> QED BY <1>3, <1>4, <2>1, <2>3, <3>1, <3>2
  <2> QED BY <2>2, <2>3
<1>8. DOMAIN dst' = DOMAIN dst /\ dst' \in [Cells(buffer_size(out.bufs)) -> Nat]
  BY <1>3, <1>4, <1>7
<1>9. Sent'
  <2>1. /\ dst' \in [Cells(buffer_size(out'.bufs)) -> Nat]
        /\ \A i \in DOMAIN dst' : dst'[i] = IF i < Position(out') THEN i + 1 ELSE Unset
    BY <1>2, <1>7, <1>8
  <2> QED BY <2>1 DEF Sent
<1> QED BY <1>2, <1>9 DEF n, w

-----------------------------------------------------------------------------
(* The initial states *)

\* Every call starts with nothing moved.
LEMMA InitIInv == Init => IInv
<1>1. ASSUME CopyInit PROVE IInv
  <2>1. PICK src \in Sequences, dest \in Sequences, max_copy \in 0..MaxCopy :
          /\ InitBetween(src, dest, buffer_size(dest))
          /\ call = [name |-> "copy", max_copy |-> max_copy, remaining |-> max_copy]
    BY <1>1 DEF CopyInit
  <2>2. src \in Seq(Nat) /\ dest \in Seq(Nat) /\ max_copy \in Nat /\ buffer_size(dest) \in Nat
    BY CopyBoundAssumption, SequencesFacts, BeforeFacts
  <2>3. /\ GoodConsumer(in) /\ Position(in) = 0
        /\ GoodConsumer(out) /\ Position(out) = 0 /\ returned = FALSE
        /\ dst \in [Cells(buffer_size(out.bufs)) -> Nat]
        /\ \A i \in Cells(buffer_size(out.bufs)) : dst[i] = Unset
    BY <2>1, <2>2, StartFacts
  <2>4. Sent
    BY <2>3, NothingSent
  <2>5. CopyInv
    BY <2>1, <2>2, <2>3, <2>4 DEF CopyInv, Copied
  <2> QED BY <2>3, <2>5 DEF IInv
<1>2. ASSUME TransformInit PROVE IInv
  <2>1. PICK src \in Sequences, dest \in Sequences :
          /\ InitBetween(src, dest, buffer_size(dest))
          /\ call = [name |-> "transform", tr |-> FreshTransformer, result_acc |-> NoResult]
    BY <1>2 DEF TransformInit
  <2>2. src \in Seq(Nat) /\ dest \in Seq(Nat) /\ buffer_size(dest) \in Nat
    BY SequencesFacts, BeforeFacts
  <2>3. /\ GoodConsumer(in) /\ Position(in) = 0
        /\ GoodConsumer(out) /\ Position(out) = 0 /\ returned = FALSE
        /\ dst \in [Cells(buffer_size(out.bufs)) -> Nat]
        /\ \A i \in Cells(buffer_size(out.bufs)) : dst[i] = Unset
    BY <2>1, <2>2, StartFacts
  <2>4. Sent
    BY <2>3, NothingSent
  <2>5. TransformInv
    BY <2>1, <2>3, <2>4
    DEF TransformInv, FreshTransformer, NoResult, Transformers, Totals
  <2> QED BY <2>3, <2>5 DEF IInv
<1>3. ASSUME EncodeInit PROVE IInv
  <2>1. PICK dest \in Sequences, n \in 0..MaxItems :
          /\ InitBetween(<< >>, dest, buffer_size(dest))
          /\ call = [name |-> "encode", n |-> n, it |-> 1, within |-> FALSE,
                     off |-> 0, total_written |-> 0]
    BY <1>3 DEF EncodeInit
  <2>2. << >> \in Seq(Nat) /\ dest \in Seq(Nat) /\ n \in Nat /\ buffer_size(dest) \in Nat
    BY ItemAssumption, SequencesFacts, BeforeFacts
  <2>3. /\ GoodConsumer(in)
        /\ GoodConsumer(out) /\ Position(out) = 0 /\ returned = FALSE
        /\ dst \in [Cells(buffer_size(out.bufs)) -> Nat]
        /\ \A i \in Cells(buffer_size(out.bufs)) : dst[i] = Unset
    BY <2>1, <2>2, StartFacts
  <2>4. Sent
    BY <2>3, NothingSent
  <2>5. 0 \in Cells(ItemSize) /\ 0 % ItemSize = 0 /\ (1 - 1) * ItemSize + 0 = 0
    BY ItemAssumption DEF Cells
  <2>6. EncodeInv
    BY <2>1, <2>2, <2>3, <2>4, <2>5 DEF EncodeInv
  <2> QED BY <2>3, <2>6 DEF IInv
<1>4. ASSUME DecodeInit PROVE IInv
  <2>1. PICK src \in Sequences, alone \in BOOLEAN, n \in 0..MaxItems :
          /\ alone => n = 1
          /\ InitBetween(src, << >>, n)
          /\ call = [name |-> "decode", single |-> alone, n |-> n, slot |-> 0,
                     off |-> 0, item |-> 0, has_error |-> FALSE, total_read |-> 0]
    BY <1>4 DEF DecodeInit
  <2>2. src \in Seq(Nat) /\ << >> \in Seq(Nat) /\ n \in Nat
    BY ItemAssumption, SequencesFacts
  <2>3. /\ GoodConsumer(in) /\ Position(in) = 0
        /\ GoodConsumer(out) /\ returned = FALSE
        /\ dst \in [Cells(n) -> Nat] /\ \A i \in Cells(n) : dst[i] = Unset
    BY <2>1, <2>2, StartFacts
  <2>4. 0 \in Cells(ItemSize) /\ 0 * ItemSize + 0 = 0 /\ 1..0 = {}
    BY ItemAssumption DEF Cells
  <2>5. {dst[i] : i \in Cells(n)} \ {Unset} = {}
    BY <2>3
  <2>6. DecodeInv
    BY <2>1, <2>2, <2>3, <2>4, <2>5 DEF DecodeInv
  <2> QED BY <2>3, <2>6 DEF IInv
<1> QED BY <1>1, <1>2, <1>3, <1>4 DEF Init

-----------------------------------------------------------------------------
(* The steps of buffer_copy *)

\* A copy copies no more than is asked for, left and has room.
LEMMA ToCopyFacts ==
  ASSUME GoodConsumer(in), GoodConsumer(out), call.remaining \in Nat
  PROVE  /\ CopyIn \in Nat /\ CopyOut \in Nat
         /\ ToCopy \in Nat /\ ToCopy <= in.rem /\ ToCopy <= out.rem
         /\ ToCopy <= call.remaining
         /\ ToCopy = 0 <=> CopyIn = 0 \/ CopyOut = 0
<1>1. CopyIn \in Nat /\ CopyIn <= call.remaining /\ CopyIn <= in.rem
  BY NextSizeFacts DEF CopyIn
<1>2. CopyOut \in Nat /\ CopyOut <= CopyIn /\ CopyOut <= out.rem
  BY <1>1, NextSizeFacts DEF CopyOut
<1>3. in.rem \in Nat /\ out.rem \in Nat
  BY PositionFacts
<1> QED BY <1>1, <1>2, <1>3 DEF ToCopy, Smaller

\* What the steps of a copy need of the invariant.
LEMMA CopyCall ==
  ASSUME IInv, call.name = "copy"
  PROVE  GoodConsumer(in) /\ GoodConsumer(out) /\ CopyInv
BY DEF IInv, TransformInv, EncodeInv, DecodeInv

\* A part of a copy reads and commits the same bytes.
LEMMA CopyPartInvariant == IInv /\ CopyPart => IInv'
<1> SUFFICES ASSUME IInv, CopyPart PROVE IInv'
  OBVIOUS
<1> DEFINE n == ToCopy
           values == BytesFrom(Position(in), ToCopy)
<1>1. GoodConsumer(in) /\ GoodConsumer(out) /\ CopyInv
  BY CopyCall DEF CopyPart, Calls
<1>2. /\ dst' = Stored(Position(out), values)
      /\ in' = consume(in, n) /\ out' = consume(out, n)
      /\ call' = [call EXCEPT !.remaining = @ - n] /\ returned' = FALSE
  BY DEF CopyPart, Calls
<1>3. /\ call \in [name : {"copy"}, max_copy : Nat, remaining : Nat]
      /\ call.remaining <= call.max_copy /\ Sent
      /\ call.max_copy - call.remaining = Position(out) /\ Position(out) = Position(in)
  BY <1>1 DEF CopyInv, Copied
<1>4. /\ n \in Nat /\ n <= in.rem /\ n <= out.rem /\ n <= call.remaining
      /\ Position(in) \in Nat
  BY <1>1, <1>3, ToCopyFacts, PositionFacts
<1> HIDE DEF n
<1>5. /\ values \in Seq(Nat) /\ Len(values) = n
      /\ \A i \in 1..n : values[i] = Position(in) + i
  BY <1>4, BytesFromFacts DEF n
<1> HIDE DEF values
<1>6. GoodConsumer(in') /\ Position(in') = Position(in) + n
  BY <1>1, <1>2, <1>4, ConsumeFacts
<1>7. Sent' /\ GoodConsumer(out') /\ Position(out') = Position(out) + n
  BY <1>1, <1>2, <1>3, <1>4, <1>5, SendMore
<1>8. /\ call' \in [name : {"copy"}, max_copy : Nat, remaining : Nat]
      /\ call'.remaining = call.remaining - n /\ call'.max_copy = call.max_copy
  BY <1>2, <1>3, <1>4
<1>9. /\ call'.remaining <= call'.max_copy
      /\ call'.max_copy - call'.remaining = Position(out')
  BY <1>3, <1>4, <1>7, <1>8
<1>10. CopyInv'
  BY <1>2, <1>3, <1>6, <1>7, <1>8, <1>9 DEF CopyInv, Copied
<1> QED BY <1>2, <1>6, <1>7, <1>10 DEF IInv

\* A copy that returns has copied all that fits, or is at an empty buffer.
LEMMA CopyReturnsInvariant == IInv /\ CopyReturns => IInv'
<1> SUFFICES ASSUME IInv, CopyReturns PROVE IInv'
  OBVIOUS
<1>1. GoodConsumer(in) /\ GoodConsumer(out) /\ CopyInv
  BY CopyCall DEF CopyReturns, Calls
<1>2. /\ CopyEnds /\ returned' = TRUE
      /\ in' = in /\ out' = out /\ dst' = dst /\ call' = call
  BY DEF CopyReturns
<1>3. CopyInv'
  BY <1>1, <1>2 DEF CopyInv, Copied, Sent, CopyEnds, ToCopy, CopyIn, CopyOut
<1> QED BY <1>1, <1>2, <1>3 DEF IInv

-----------------------------------------------------------------------------
(* The step of buffer_transform *)

\* What the steps of a transformer need of the invariant.
LEMMA TransformCall ==
  ASSUME IInv, call.name = "transform"
  PROVE  GoodConsumer(in) /\ GoodConsumer(out) /\ TransformInv
BY DEF IInv, CopyInv, EncodeInv, DecodeInv

\* A part of a sequence, from behind its first a elements on to the b-th.
LEMMA CutFacts ==
  ASSUME NEW s, NEW a \in Nat, NEW b \in Nat, a <= b, \A i \in 1..b : s[i] \in Nat
  PROVE  /\ SubSeq(s, a + 1, b) \in Seq(Nat) /\ Len(SubSeq(s, a + 1, b)) = b - a
         /\ \A i \in 1..(b - a) : SubSeq(s, a + 1, b)[i] = s[a + i]
<1> DEFINE m == a + 1
           x == SubSeq(s, m, b)
<1>1. m \in Int /\ b \in Int /\ \A i \in m..b : s[i] \in Nat
  OBVIOUS
<1> HIDE DEF m
<1>2. /\ x \in Seq(Nat) /\ Len(x) = IF m <= b THEN b - m + 1 ELSE 0
      /\ \A i \in 1..(b - m + 1) : x[i] = s[m + i - 1]
  BY <1>1, SubSeqProperties
<1> HIDE DEF x
<1>3. Len(x) = b - a /\ b - m + 1 = b - a
  BY <1>2 DEF m
<1>4. \A i \in 1..(b - a) : m + i - 1 = a + i
  BY DEF m
<1> QED BY <1>2, <1>3, <1>4 DEF m, x

\* A transformer that keeps back the bytes behind those written and reads those
\* that follow writes them from there on and keeps back the rest.
LEMMA PassesOn ==
  ASSUME call.tr \in Transformers, Position(out) \in Nat,
         InPart \in Nat, OutPart \in Nat,
         \A i \in 1..Len(call.tr.held) : call.tr.held[i] = Position(out) + i,
         Position(out) + Len(call.tr.held) = Position(in),
         NEW res \in Results(call.tr, InPart, OutPart)
  PROVE  LET values == Written(call.tr, res, Input)
             u == Transformed(call.tr, res, Input)
         IN /\ res.bytes_read \in 0..InPart /\ res.bytes_written \in 0..OutPart
            /\ res.done \in BOOLEAN
            /\ values \in Seq(Nat) /\ Len(values) = res.bytes_written
            /\ \A i \in 1..res.bytes_written : values[i] = Position(out) + i
            /\ u \in Transformers
            /\ Position(out) + res.bytes_written + Len(u.held)
                 = Position(in) + res.bytes_read
            /\ \A i \in 1..Len(u.held) :
                 u.held[i] = Position(out) + res.bytes_written + i
            /\ res.done \/ res.bytes_written = OutPart \/ res.bytes_read = InPart
<1> DEFINE t == call.tr
           w == Position(out)
           n == InPart
           m == OutPart
           input == Input
           values == Written(t, res, input)
           u == Transformed(t, res, input)
           h == Len(t.held)
           r == res.bytes_read
           k == res.bytes_written
           read == SubSeq(input, 1, r)
           known == t.held \o read
           kept == SubSeq(known, k + 1, Len(known))
<1>0. /\ t \in Transformers /\ w \in Nat /\ n \in Nat /\ m \in Nat
      /\ \A i \in 1..h : t.held[i] = w + i
      /\ w + h = Position(in)
      /\ res \in Results(t, n, m)
      /\ values = Written(t, res, input) /\ u = Transformed(t, res, input)
      /\ input = BytesFrom(w + h, n)
  BY DEF Input
<1> HIDE DEF t, w, n, m, input, values, u
<1>1. t.held \in Seq(Nat) /\ h \in Nat /\ t.read \in Nat
  BY <1>0, LenProperties DEF Transformers
<1>2. /\ res \in [bytes_read : 0..n, bytes_written : 0..m, done : BOOLEAN]
      /\ h + r - k \in 0..HoldMax
      /\ res.done \/ k = m \/ r = n
  BY <1>0 DEF Results
<1>3. r \in Nat /\ r <= n /\ k \in Nat /\ k <= m /\ k <= h + r
  BY <1>1, <1>2, TransformerAssumption
<1>4. values = SubSeq(known, 1, k) /\ u = [read |-> t.read + r, held |-> kept]
  BY <1>0 DEF Written, Transformed, Known
<1>5. w \in Nat /\ n \in Nat /\ \A i \in 1..h : t.held[i] = w + i
  BY <1>0
<1>6. input = BytesFrom(w + h, n)
  BY <1>0
<1> HIDE DEF h, r, k, read, known, kept
<1>7. /\ input \in Seq(Nat) /\ Len(input) = n
      /\ \A i \in 1..n : input[i] = w + h + i
  <2>1. w + h \in Nat
    BY <1>1, <1>5
  <2> QED BY ONLY <1>5, <1>6, <2>1, BytesFromFacts
<1>8. read \in Seq(Nat) /\ Len(read) = r /\ \A i \in 1..r : read[i] = w + h + i
  <2>1. \A i \in 1..r : input[i] \in Nat /\ input[i] = w + h + i
    BY SMTT(30), <1>1, <1>3, <1>5, <1>7
  <2>2. read = SubSeq(input, 0 + 1, r) /\ 0 \in Nat /\ r \in Nat /\ 0 <= r
        /\ r - 0 = r /\ \A i \in 1..r : 0 + i = i
    BY <1>3 DEF read
  <2> QED BY ONLY <2>1, <2>2, CutFacts
<1>9. known \in Seq(Nat) /\ Len(known) = h + r /\ \A i \in 1..(h + r) : known[i] = w + i
  <2>1. /\ known \in Seq(Nat) /\ Len(known) = h + r
        /\ \A i \in 1..(h + r) : known[i] = IF i <= h THEN t.held[i] ELSE read[i - h]
    BY <1>1, <1>8, ConcatProperties DEF h, known
  <2>2. ASSUME NEW i \in 1..(h + r) PROVE known[i] = w + i
    <3>1. CASE i <= h
      <4>1. i \in 1..h
        BY <1>1, <1>3, <3>1
      <4> QED BY <1>5, <2>1, <3>1, <4>1
    <3>2. CASE ~(i <= h)
      <4>1. i - h \in 1..r
        BY <1>1, <1>3, <3>2
      <4>2. w + h + (i - h) = w + i
        BY <1>1, <1>3, <1>5
      <4> QED BY <1>8, <2>1, <3>2, <4>1, <4>2
    <3> QED BY <3>1, <3>2
  <2> QED BY <2>1, <2>2
<1>10. values \in Seq(Nat) /\ Len(values) = k /\ \A i \in 1..k : values[i] = w + i
  <2>1. \A i \in 1..k : known[i] \in Nat /\ known[i] = w + i
    <3>1. \A i \in 1..k : i \in 1..(h + r) /\ w + i \in Nat
      BY <1>1, <1>3, <1>5
    <3> QED BY ONLY <1>9, <3>1
  <2>2. values = SubSeq(known, 0 + 1, k) /\ 0 \in Nat /\ k \in Nat /\ 0 <= k
        /\ k - 0 = k /\ \A i \in 1..k : 0 + i = i
    BY <1>3, <1>4
  <2> QED BY ONLY <2>1, <2>2, CutFacts
<1>11. /\ kept \in Seq(Nat) /\ Len(kept) = h + r - k
       /\ \A i \in 1..Len(kept) : kept[i] = w + k + i
  <2>1. \A i \in 1..(h + r) : known[i] \in Nat /\ known[i] = w + i
    <3>1. \A i \in 1..(h + r) : w + i \in Nat
      BY <1>1, <1>3, <1>5
    <3> QED BY ONLY <1>9, <3>1
  <2> DEFINE e == h + r
  <2>2. kept = SubSeq(known, k + 1, e) /\ e \in Nat /\ k \in Nat /\ k <= e
    BY <1>1, <1>3, <1>9 DEF kept
  <2>3. /\ kept \in Seq(Nat) /\ Len(kept) = h + r - k
        /\ \A i \in 1..(h + r - k) : kept[i] = known[k + i]
    <3>1. \A i \in 1..e : known[i] \in Nat
      BY <2>1
    <3> HIDE DEF e
    <3>2. /\ kept \in Seq(Nat) /\ Len(kept) = e - k
          /\ \A i \in 1..(e - k) : kept[i] = known[k + i]
      BY ONLY <2>2, <3>1, CutFacts
    <3>3. e - k = h + r - k
      BY <1>1, <1>3 DEF e
    <3> QED BY ONLY <3>2, <3>3
  <2>4. ASSUME NEW i \in 1..(h + r - k) PROVE kept[i] = w + k + i
    <3>1. k + i \in 1..(h + r) /\ w + (k + i) = w + k + i
      BY <1>1, <1>3, <1>5
    <3>2. kept[i] = known[k + i] /\ known[k + i] = w + (k + i)
      BY ONLY <2>1, <2>3, <2>4, <3>1
    <3> QED BY ONLY <3>1, <3>2
  <2> QED BY <2>3, <2>4
<1>12. u \in Transformers
  BY SMTT(30), <1>1, <1>3, <1>4, <1>11 DEF Transformers
<1>13. w + k + Len(u.held) = Position(in) + r
  <2> DEFINE lu == Len(u.held)
             p == Position(in)
  <2>1. /\ w \in Nat /\ h \in Nat /\ r \in Nat /\ k \in Nat /\ k <= h + r
        /\ w + h = p /\ lu = h + r - k
    BY <1>0, <1>1, <1>3, <1>4, <1>11
  <2> HIDE DEF lu, p
  <2>2. w + k + lu = p + r
    BY ONLY <2>1
  <2> QED BY <2>2 DEF lu, p
<1>14. \A i \in 1..Len(u.held) : u.held[i] = w + k + i
  BY <1>4, <1>11
<1>15. r \in 0..n /\ k \in 0..m
  BY <1>2 DEF r, k
<1> QED BY <1>2, <1>10, <1>12, <1>13, <1>14, <1>15 DEF t, w, n, m, input, values, u, r, k

\* A round of a transformer passes on the bytes behind those written, and keeps
\* back the others that it read.
LEMMA RoundInvariant == IInv /\ Round => IInv'
<1> SUFFICES ASSUME IInv, Round PROVE IInv'
  OBVIOUS
<1> DEFINE t == call.tr
           w == Position(out)
           acc == call.result_acc
<1>1. GoodConsumer(in) /\ GoodConsumer(out) /\ TransformInv
  BY TransformCall DEF Round, Calls
<1>2. PICK res \in Results(t, InPart, OutPart) :
        /\ dst' = Stored(w, Written(t, res, Input))
        /\ in' = consume(in, res.bytes_read)
        /\ out' = consume(out, res.bytes_written)
        /\ call' = [call EXCEPT !.tr = Transformed(@, res, Input),
                                !.result_acc = Added(@, res)]
        /\ returned' = LastRound(call'.result_acc, res)
  BY DEF Round
<1> DEFINE values == Written(t, res, Input)
           u == Transformed(t, res, Input)
           r == res.bytes_read
           k == res.bytes_written
<1>3. /\ call \in [name : {"transform"}, tr : Transformers, result_acc : Totals]
      /\ Sent /\ t \in Transformers /\ acc \in Totals
      /\ \A i \in 1..Len(t.held) : t.held[i] = w + i
      /\ w + Len(t.held) = Position(in)
      /\ acc.bytes_read = Position(in) /\ acc.bytes_written = w
  BY <1>1 DEF TransformInv
<1>4. /\ InPart \in Nat /\ InPart <= in.rem
      /\ OutPart \in Nat /\ OutPart <= out.rem
      /\ InPart = 0 => Stuck(in)
      /\ OutPart = 0 => Stuck(out)
      /\ w \in Nat /\ Position(in) \in Nat
      /\ in.rem \in Nat /\ out.rem \in Nat
  BY <1>1, HintAssumption, NextSizeFacts, PositionFacts DEF InPart, OutPart
<1>6. /\ r \in 0..InPart /\ k \in 0..OutPart /\ res.done \in BOOLEAN
      /\ values \in Seq(Nat) /\ Len(values) = k
      /\ \A i \in 1..k : values[i] = w + i
      /\ u \in Transformers /\ w + k + Len(u.held) = Position(in) + r
      /\ \A i \in 1..Len(u.held) : u.held[i] = w + k + i
      /\ res.done \/ k = OutPart \/ r = InPart
  BY <1>3, <1>4, PassesOn
<1> HIDE DEF values, r, k
<1>8. r \in Nat /\ r <= in.rem /\ k \in Nat /\ k <= out.rem
  BY <1>4, <1>6
<1>9. GoodConsumer(in') /\ Position(in') = Position(in) + r
  BY <1>1, <1>2, <1>8, ConsumeFacts DEF r
<1>10. Sent' /\ GoodConsumer(out') /\ Position(out') = w + k
  <2>1. /\ dst' = Stored(Position(out), values) /\ out' = consume(out, Len(values))
        /\ Len(values) <= out.rem
        /\ \A i \in 1..Len(values) : values[i] = Position(out) + i
    BY <1>2, <1>6, <1>8 DEF values, k
  <2> QED BY <1>1, <1>3, <1>6, <2>1, SendMore
<1>11. /\ call' \in [name : {"transform"}, tr : Transformers, result_acc : Totals]
       /\ call'.tr = u
       /\ call'.result_acc = Added(acc, res)
  <2>1. Added(acc, res) \in Totals
    <3>1. /\ acc.bytes_read \in Nat /\ acc.bytes_written \in Nat /\ acc.done \in BOOLEAN
          /\ res.bytes_read \in Nat /\ res.bytes_written \in Nat /\ res.done \in BOOLEAN
      BY <1>3, <1>6, <1>8 DEF Totals, r, k
    <3> QED BY <3>1 DEF Added, Totals
  <2>2. call' = [call EXCEPT !.tr = u, !.result_acc = Added(acc, res)]
    BY <1>2
  <2> HIDE DEF u, acc, t
  <2> QED BY <1>3, <1>6, <2>1, <2>2
<1> HIDE DEF u
<1>12. /\ \A i \in 1..Len(call'.tr.held) : call'.tr.held[i] = Position(out') + i
       /\ Position(out') + Len(call'.tr.held) = Position(in')
  <2>1. call'.tr.held = u.held
    BY <1>11
  <2>2. \A i \in 1..Len(u.held) : u.held[i] = Position(out') + i
    BY <1>6, <1>10
  <2>3. w + k + Len(u.held) = Position(in) + r
    BY <1>6
  <2> QED BY <1>9, <1>10, <2>1, <2>2, <2>3
<1>13. /\ call'.result_acc.bytes_read = Position(in')
       /\ call'.result_acc.bytes_written = Position(out')
       /\ call'.result_acc.done <=> acc.done \/ res.done
  <2>1. /\ Added(acc, res).bytes_read = acc.bytes_read + res.bytes_read
        /\ Added(acc, res).bytes_written = acc.bytes_written + res.bytes_written
        /\ Added(acc, res).done = (acc.done \/ res.done)
    BY DEF Added
  <2> QED BY <1>3, <1>9, <1>10, <1>11, <2>1 DEF r, k
<1>14. returned' \in BOOLEAN
  BY <1>2 DEF LastRound
<1>15. ASSUME returned' PROVE call'.result_acc.done \/ Stuck(in') \/ Stuck(out')
  <2>1. call'.result_acc.done \/ (r = 0 /\ k = 0)
    BY <1>2, <1>15 DEF LastRound, r, k
  <2>2. ASSUME ~call'.result_acc.done, r = 0, k = 0 PROVE Stuck(in') \/ Stuck(out')
    <3>1. InPart = 0 \/ OutPart = 0
      BY <1>6, <1>13, <2>2
    <3>2. in' = in /\ out' = out
      BY <1>2, <2>2 DEF consume, r, k
    <3> QED BY <1>4, <3>1, <3>2
  <2> QED BY <2>1, <2>2
<1>16. TransformInv'
  BY <1>10, <1>11, <1>12, <1>13, <1>15 DEF TransformInv
<1> QED BY <1>9, <1>10, <1>14, <1>16 DEF IInv

-----------------------------------------------------------------------------
(* The steps of buffer_encode *)

\* The byte at an offset in an item, and the offset of a byte.
LEMMA ItemFacts ==
  ASSUME NEW q \in Nat, NEW r \in Cells(ItemSize)
  PROVE  /\ (q * ItemSize + r) % ItemSize = r
         /\ q * ItemSize \in Nat
         /\ (q + 1) * ItemSize = q * ItemSize + ItemSize
<1> DEFINE b == ItemSize
<1>1. b \in Nat \ {0} /\ r \in 0..(b - 1)
  BY ItemAssumption DEF Cells
<1> HIDE DEF b
<1>2. (q * b + r) % b = r
  BY ONLY <1>1, q \in Nat
<1>3. q * b \in Nat /\ (q + 1) * b = q * b + b
  BY ONLY <1>1, q \in Nat
<1> QED BY <1>2, <1>3 DEF b

\* What the steps of an encoder need of the invariant.
LEMMA EncodeCall ==
  ASSUME IInv, call.name = "encode"
  PROVE  GoodConsumer(in) /\ GoodConsumer(out) /\ EncodeInv
BY DEF IInv, CopyInv, TransformInv, DecodeInv

\* An encoder writes no more than there is room for and than its item has.
LEMMA EncodedSizeFacts ==
  ASSUME GoodConsumer(out), call.off \in Cells(ItemSize)
  PROVE  /\ EncodedSize \in Nat /\ EncodedSize <= out.rem
         /\ call.off \in Nat /\ call.off + EncodedSize <= ItemSize
         /\ EncodedSize = 0 => Stuck(out)
         /\ Stuck(out) => NextSize(out, PartSize) = 0
         /\ NextSize(out, PartSize) = 0 => Stuck(out)
<1>1. /\ PartSize \in Nat \ {0} /\ ItemSize \in Nat /\ call.off \in Nat
      /\ call.off < ItemSize /\ out.rem \in Nat
  BY PartAssumption, ItemAssumption, PositionFacts DEF Cells
<1>2. /\ NextSize(out, PartSize) \in Nat /\ NextSize(out, PartSize) <= out.rem
      /\ NextSize(out, PartSize) = 0 => Stuck(out)
      /\ Stuck(out) => NextSize(out, PartSize) = 0
  BY <1>1, NextSizeFacts
<1>3. /\ EncodedSize \in Nat /\ EncodedSize <= out.rem
      /\ call.off + EncodedSize <= ItemSize
      /\ EncodedSize = 0 => NextSize(out, PartSize) = 0
  BY <1>1, <1>2 DEF EncodedSize, Smaller
<1> QED BY <1>1, <1>2, <1>3

\* The loop of the items enters one where the last has ended.
LEMMA EncodeItemInvariant == IInv /\ EncodeItem => IInv'
<1> SUFFICES ASSUME IInv, EncodeItem PROVE IInv'
  OBVIOUS
<1>1. GoodConsumer(in) /\ GoodConsumer(out) /\ EncodeInv
  BY EncodeCall DEF EncodeItem, Calls
<1>2. /\ ~returned /\ ~call.within /\ NextSize(out, PartSize) # 0
      /\ in' = in /\ out' = out /\ dst' = dst /\ returned' = returned
      /\ call' = [call EXCEPT !.within = TRUE]
  BY DEF EncodeItem, Calls
<1>3. ~Stuck(out)
  BY <1>1, <1>2, EncodedSizeFacts DEF EncodeInv
<1>4. /\ call' \in [name : {"encode"}, n : Nat, it : Nat \ {0}, within : BOOLEAN,
                    off : Cells(ItemSize), total_written : Nat]
      /\ call'.within = TRUE /\ call'.it = call.it /\ call'.off = call.off
      /\ call'.total_written = call.total_written
  BY <1>1, <1>2 DEF EncodeInv
<1>5. Position(out) = (call.it - 1) * ItemSize + call.off
  BY <1>1, <1>3 DEF EncodeInv
<1>6. EncodeInv'
  <2>1. /\ Sent /\ call.total_written = Position(out)
        /\ Position(out) % ItemSize = call.off
    BY <1>1 DEF EncodeInv
  <2>2. Sent'
    BY <1>2, <2>1 DEF Sent
  <2> QED BY <1>2, <1>4, <1>5, <2>1, <2>2 DEF EncodeInv
<1> QED BY <1>1, <1>2, <1>6 DEF IInv

\* A part of an item goes behind the bytes of it that the output has.
LEMMA EncodePartInvariant == IInv /\ EncodePart => IInv'
<1> SUFFICES ASSUME IInv, EncodePart PROVE IInv'
  OBVIOUS
<1> DEFINE n == EncodedSize
           w == Position(out)
           values == BytesFrom(w, n)
           done == call.off + n = ItemSize
<1>1. GoodConsumer(in) /\ GoodConsumer(out) /\ EncodeInv
  BY EncodeCall DEF EncodePart, Calls
<1>2. /\ ~returned /\ call.within /\ in' = in /\ returned' = returned
      /\ dst' = Stored(w, BytesFrom((call.it - 1) * ItemSize + call.off, n))
      /\ out' = consume(out, n)
      /\ call' = [call EXCEPT !.off = IF done THEN 0 ELSE @ + n,
                              !.total_written = @ + n,
                              !.within = ~done, !.it = IF done THEN @ + 1 ELSE @]
  BY DEF EncodePart, Calls
<1>3. /\ call \in [name : {"encode"}, n : Nat, it : Nat \ {0}, within : BOOLEAN,
                   off : Cells(ItemSize), total_written : Nat]
      /\ Sent /\ call.total_written = w
      /\ w = (call.it - 1) * ItemSize + call.off
  BY <1>1, <1>2 DEF EncodeInv
<1>4. /\ n \in Nat /\ n <= out.rem /\ call.off \in Nat /\ call.off + n <= ItemSize
      /\ w \in Nat /\ ItemSize \in Nat \ {0}
  BY <1>1, <1>3, EncodedSizeFacts, PositionFacts, ItemAssumption
<1> HIDE DEF n, w
<1>5. /\ values \in Seq(Nat) /\ Len(values) = n
      /\ \A i \in 1..n : values[i] = w + i
  BY <1>4, BytesFromFacts
<1> HIDE DEF values
<1>6. Sent' /\ GoodConsumer(out') /\ Position(out') = w + n
  <2>1. /\ dst' = Stored(Position(out), values) /\ out' = consume(out, Len(values))
        /\ Len(values) <= out.rem
        /\ \A i \in 1..Len(values) : values[i] = Position(out) + i
    BY <1>2, <1>3, <1>4, <1>5 DEF values, w
  <2> QED BY <1>1, <1>3, <1>5, <2>1, SendMore DEF w
<1>7. /\ call' \in [name : {"encode"}, n : Nat, it : Nat \ {0}, within : BOOLEAN,
                    off : Cells(ItemSize), total_written : Nat]
      /\ call'.total_written = w + n
      /\ call'.within = ~done
      /\ call'.off = (IF done THEN 0 ELSE call.off + n)
      /\ call'.it = (IF done THEN call.it + 1 ELSE call.it)
  <2>1. (IF done THEN 0 ELSE call.off + n) \in Cells(ItemSize)
    BY <1>4 DEF Cells
  <2>2. (IF done THEN call.it + 1 ELSE call.it) \in Nat \ {0}
    <3>1. call.it \in Nat \ {0} /\ call.it + 1 \in Nat \ {0}
      BY <1>3
    <3> HIDE DEF done
    <3> QED BY <3>1
  <2>3. call.total_written + n \in Nat /\ call.total_written + n = w + n
    BY <1>3, <1>4
  <2> HIDE DEF done
  <2>4. (~done) \in BOOLEAN
    OBVIOUS
  <2> QED BY <1>2, <1>3, <2>1, <2>2, <2>3, <2>4
<1>8. w + n = (call'.it - 1) * ItemSize + call'.off
  <2> DEFINE q == call.it - 1
  <2>1. q \in Nat /\ call.it = q + 1 /\ (q + 1) - 1 = q /\ ((q + 1) + 1) - 1 = q + 1
    BY <1>3
  <2>2. w = q * ItemSize + call.off
    BY <1>3
  <2>3. q * ItemSize \in Nat /\ (q + 1) * ItemSize = q * ItemSize + ItemSize
    BY <1>3, <2>1, ItemFacts
  <2> HIDE DEF q
  <2>4. CASE done
    <3>1. call'.it - 1 = q + 1 /\ call'.off = 0
      BY <1>7, <2>1, <2>4
    <3>2. w + n = q * ItemSize + ItemSize
      BY <1>4, <2>2, <2>3, <2>4
    <3>3. (q + 1) * ItemSize + 0 = q * ItemSize + ItemSize
      BY <1>4, <2>3
    <3> QED BY <3>1, <3>2, <3>3
  <2>5. CASE ~done
    <3>1. call'.it - 1 = q /\ call'.off = call.off + n
      BY <1>7, <2>1, <2>5
    <3>2. w + n = q * ItemSize + (call.off + n)
      BY <1>4, <2>2, <2>3
    <3> QED BY <3>1, <3>2
  <2> QED BY <2>4, <2>5
<1>9. (w + n) % ItemSize = call'.off
  <2>1. call'.it - 1 \in Nat /\ call'.off \in Cells(ItemSize)
    BY <1>7
  <2> QED BY <1>8, <2>1, ItemFacts
<1>10. call'.within \/ call'.off = 0
  BY <1>7
<1>11. EncodeInv'
  BY <1>2, <1>6, <1>7, <1>8, <1>9, <1>10 DEF EncodeInv
<1> QED BY <1>1, <1>2, <1>6, <1>11 DEF IInv

\* An encoder leaves the item it is in only where there is no room.
LEMMA EncodeBreaksInvariant == IInv /\ EncodeBreaks => IInv'
<1> SUFFICES ASSUME IInv, EncodeBreaks PROVE IInv'
  OBVIOUS
<1>1. GoodConsumer(in) /\ GoodConsumer(out) /\ EncodeInv
  BY EncodeCall DEF EncodeBreaks, Calls
<1>2. /\ ~returned /\ EncodedSize = 0
      /\ in' = in /\ out' = out /\ dst' = dst /\ returned' = returned
      /\ call' = [call EXCEPT !.within = FALSE, !.it = @ + 1]
  BY DEF EncodeBreaks, Calls
<1>3. Stuck(out)
  BY <1>1, <1>2, EncodedSizeFacts DEF EncodeInv
<1>4. /\ call' \in [name : {"encode"}, n : Nat, it : Nat \ {0}, within : BOOLEAN,
                    off : Cells(ItemSize), total_written : Nat]
      /\ call'.within = FALSE /\ call'.off = call.off
      /\ call'.total_written = call.total_written
  <2>1. call \in [name : {"encode"}, n : Nat, it : Nat \ {0}, within : BOOLEAN,
                  off : Cells(ItemSize), total_written : Nat]
    BY <1>1 DEF EncodeInv
  <2>2. call.it + 1 \in Nat \ {0}
    BY <2>1
  <2> QED BY <1>2, <2>1, <2>2
<1>5. EncodeInv'
  <2>1. /\ Sent /\ call.total_written = Position(out)
        /\ Position(out) % ItemSize = call.off
    BY <1>1 DEF EncodeInv
  <2>2. Sent'
    BY <1>2, <2>1 DEF Sent
  <2> QED BY <1>2, <1>3, <1>4, <2>1, <2>2 DEF EncodeInv
<1> QED BY <1>1, <1>2, <1>5 DEF IInv

\* An encoder returns behind the last item or where there is no room.
LEMMA EncodeReturnsInvariant == IInv /\ EncodeReturns => IInv'
<1> SUFFICES ASSUME IInv, EncodeReturns PROVE IInv'
  OBVIOUS
<1>1. GoodConsumer(in) /\ GoodConsumer(out) /\ EncodeInv
  BY EncodeCall DEF EncodeReturns, Calls
<1>2. /\ call.it > call.n \/ NextSize(out, PartSize) = 0
      /\ returned' = TRUE /\ in' = in /\ out' = out /\ dst' = dst /\ call' = call
  BY DEF EncodeReturns
<1>3. ~call.within
  BY DEF EncodeReturns
<1>4. call.it > call.n \/ Stuck(out)
  BY <1>1, <1>2, EncodedSizeFacts DEF EncodeInv
<1>5. EncodeInv'
  BY <1>1, <1>2, <1>3, <1>4 DEF EncodeInv, Sent
<1> QED BY <1>1, <1>2, <1>5 DEF IInv

-----------------------------------------------------------------------------
(* The steps of buffer_decode *)

\* What the steps of a decoder need of the invariant.
LEMMA DecodeCall ==
  ASSUME IInv, call.name = "decode"
  PROVE  GoodConsumer(in) /\ GoodConsumer(out) /\ DecodeInv
BY DEF IInv, CopyInv, TransformInv, EncodeInv

\* A decoder reads no more than there is and than its item has.
LEMMA DecodedSizeFacts ==
  ASSUME GoodConsumer(in), call.off \in Cells(ItemSize)
  PROVE  /\ DecodedSize \in Nat /\ DecodedSize <= in.rem
         /\ call.off \in Nat /\ call.off + DecodedSize <= ItemSize
         /\ NextSize(in, PartSize) = 0 => Stuck(in)
<1>1. /\ PartSize \in Nat \ {0} /\ ItemSize \in Nat /\ call.off \in Nat
      /\ call.off < ItemSize /\ in.rem \in Nat
  BY PartAssumption, ItemAssumption, PositionFacts DEF Cells
<1>2. /\ NextSize(in, PartSize) \in Nat /\ NextSize(in, PartSize) <= in.rem
      /\ NextSize(in, PartSize) = 0 => Stuck(in)
  BY <1>1, NextSizeFacts
<1>3. /\ DecodedSize \in Nat /\ DecodedSize <= in.rem
      /\ call.off + DecodedSize <= ItemSize
  BY <1>1, <1>2 DEF DecodedSize, Smaller
<1> QED BY <1>1, <1>2, <1>3

\* The slots hold the items 1 to item, in order, and none from slot on.
ItemsIn(cells, n, item, slot) ==
  /\ cells \in [Cells(n) -> Nat]
  /\ {cells[i] : i \in Cells(n)} \ {Unset} = 1..item
  /\ \A i, j \in Cells(n) : i < j /\ cells[j] # Unset => cells[i] < cells[j]
  /\ \A i \in Cells(n) : i >= slot => cells[i] = Unset

\* An item more, in the slot the iterator is at.
LEMMA OneMoreItem ==
  ASSUME NEW cells, NEW n \in Nat, NEW item \in Nat, NEW slot \in Nat, slot < n,
         ItemsIn(cells, n, item, slot),
         NEW more, more = [i \in Cells(n) |-> IF i = slot THEN item + 1 ELSE cells[i]]
  PROVE  ItemsIn(more, n, item + 1, slot + 1)
<1>1. /\ cells \in [Cells(n) -> Nat]
      /\ {cells[i] : i \in Cells(n)} \ {Unset} = 1..item
      /\ \A i, j \in Cells(n) : i < j /\ cells[j] # Unset => cells[i] < cells[j]
      /\ \A i \in Cells(n) : i >= slot => cells[i] = Unset
  BY DEF ItemsIn
<1>2. slot \in Cells(n) /\ \A i \in Cells(n) : i \in Nat /\ cells[i] \in Nat
  BY <1>1 DEF Cells
<1>3. \A i \in Cells(n) : cells[i] <= item
  <2>1. ASSUME NEW i \in Cells(n) PROVE cells[i] = 0 \/ cells[i] \in 1..item
    BY <1>1 DEF Unset
  <2> QED BY <1>2, <2>1
<1>4. /\ more \in [Cells(n) -> Nat] /\ more[slot] = item + 1
      /\ \A i \in Cells(n) : i # slot => more[i] = cells[i]
  <2>1. item + 1 \in Nat
    OBVIOUS
  <2>2. \A i \in Cells(n) : (IF i = slot THEN item + 1 ELSE cells[i]) \in Nat
    BY <1>2, <2>1
  <2>3. more \in [Cells(n) -> Nat]
    BY <2>2
  <2>4. more[slot] = item + 1
    BY <1>2
  <2>5. ASSUME NEW i \in Cells(n), i # slot PROVE more[i] = cells[i]
    BY <2>5
  <2> QED BY <2>3, <2>4, <2>5
<1>5. {more[i] : i \in Cells(n)} \ {Unset} = 1..(item + 1)
  <2>1. ASSUME NEW i \in Cells(n), more[i] # Unset PROVE more[i] \in 1..(item + 1)
    <3>1. CASE i = slot
      BY <1>4, <3>1
    <3>2. CASE i # slot
      <4>1. cells[i] \in 1..item /\ more[i] = cells[i]
        BY <1>1, <1>4, <2>1, <3>2
      <4> QED BY <4>1
    <3> QED BY <3>1, <3>2
  <2>2. ASSUME NEW v \in 1..(item + 1)
        PROVE  v # Unset /\ \E i \in Cells(n) : more[i] = v
    <3>1. v # Unset
      BY DEF Unset
    <3>2. CASE v = item + 1
      BY <1>2, <1>4, <3>1, <3>2
    <3>3. CASE v # item + 1
      <4>1. v \in 1..item
        BY <3>3
      <4>2. PICK i \in Cells(n) : cells[i] = v
        BY <1>1, <4>1
      <4>3. i # slot
        BY <1>1, <1>2, <3>1, <4>2
      <4> QED BY <1>4, <3>1, <4>2, <4>3
    <3> QED BY <3>2, <3>3
  <2> QED BY <2>1, <2>2
<1>6. ASSUME NEW i \in Cells(n), NEW j \in Cells(n), i < j, more[j] # Unset
      PROVE  more[i] < more[j]
  <2>1. CASE j = slot
    <3>1. i # slot /\ more[i] = cells[i] /\ more[j] = item + 1
      BY <1>2, <1>4, <1>6, <2>1
    <3>2. cells[i] <= item /\ cells[i] \in Nat
      BY <1>2, <1>3
    <3> QED BY <3>1, <3>2
  <2>2. CASE j # slot
    <3>1. more[j] = cells[j] /\ cells[j] # Unset
      BY <1>4, <1>6, <2>2
    <3>2. ~(j >= slot)
      BY <1>1, <3>1
    <3>3. i # slot
      BY <1>2, <1>6, <3>2
    <3> QED BY <1>1, <1>4, <1>6, <3>1, <3>3
  <2> QED BY <2>1, <2>2
<1>7. ASSUME NEW i \in Cells(n), i >= slot + 1 PROVE more[i] = Unset
  <2>1. i # slot /\ i >= slot
    BY <1>2, <1>7
  <2> QED BY <1>1, <1>4, <2>1
<1> QED BY <1>4, <1>5, <1>6, <1>7 DEF ItemsIn

\* A round of a decoder goes on in its item, puts the item decoded into the slot
\* the iterator is at, or has an error.
LEMMA DecodeRoundInvariant == IInv /\ DecodeRound => IInv'
<1> SUFFICES ASSUME IInv, DecodeRound PROVE IInv'
  OBVIOUS
<1> DEFINE size == DecodedSize
           whole == call.off + size = ItemSize
           p == Position(in)
<1>1. GoodConsumer(in) /\ GoodConsumer(out) /\ DecodeInv
  BY DecodeCall DEF DecodeRound, Calls
<1>2. ~returned /\ call.slot < call.n /\ size # 0 /\ in' = consume(in, size) /\ out' = out
  BY DEF DecodeRound, Decoded, Calls
<1>3. PICK has_error \in BOOLEAN :
        /\ has_error => whole
        /\ call' = [call EXCEPT !.off = IF whole THEN 0 ELSE @ + size,
                                !.item = IF whole /\ ~has_error THEN @ + 1 ELSE @,
                                !.has_error = has_error,
                                !.total_read = @ + size,
                                !.slot = IF call.single \/ has_error THEN @ ELSE @ + 1]
        /\ dst' = IF whole /\ ~has_error THEN Stored(call.slot, <<call'.item>>) ELSE dst
        /\ returned' = (has_error \/ (call.single /\ whole /\ ~has_error))
  BY DEF DecodeRound
<1> DEFINE has_value == whole /\ ~has_error
           n == call.n
           slot == call.slot
           item == call.item
<1>4. /\ call \in [name : {"decode"}, single : BOOLEAN, n : Nat, slot : Nat,
                   off : Cells(ItemSize), item : Nat, has_error : BOOLEAN,
                   total_read : Nat]
      /\ slot <= n
      /\ call.single => n = 1 /\ slot = 0
      /\ ItemsIn(dst, n, item, slot)
      /\ call.total_read = p
      /\ p = item * ItemSize + call.off
  BY <1>1, <1>2 DEF DecodeInv, ItemsIn
<1>5. /\ size \in Nat /\ size <= in.rem /\ call.off \in Nat
      /\ call.off + size <= ItemSize /\ p \in Nat /\ ItemSize \in Nat \ {0}
  BY <1>1, <1>4, DecodedSizeFacts, PositionFacts, ItemAssumption
<1> HIDE DEF size, p
<1>6. GoodConsumer(in') /\ Position(in') = p + size
  BY <1>1, <1>2, <1>5, ConsumeFacts DEF p
<1>7. /\ call' \in [name : {"decode"}, single : BOOLEAN, n : Nat, slot : Nat,
                    off : Cells(ItemSize), item : Nat, has_error : BOOLEAN,
                    total_read : Nat]
      /\ call'.single = call.single /\ call'.n = n
      /\ call'.off = (IF whole THEN 0 ELSE call.off + size)
      /\ call'.item = (IF has_value THEN item + 1 ELSE item)
      /\ call'.has_error = has_error
      /\ call'.total_read = p + size
      /\ call'.slot = (IF call.single \/ has_error THEN slot ELSE slot + 1)
  <2>1. (IF whole THEN 0 ELSE call.off + size) \in Cells(ItemSize)
    BY <1>5 DEF Cells
  <2>2. /\ item \in Nat /\ item + 1 \in Nat /\ slot \in Nat /\ slot + 1 \in Nat
        /\ call.total_read + size \in Nat /\ call.total_read + size = p + size
    BY <1>4, <1>5
  <2> HIDE DEF whole
  <2>3. /\ (IF has_value THEN item + 1 ELSE item) \in Nat
        /\ (IF call.single \/ has_error THEN slot ELSE slot + 1) \in Nat
    BY <2>2
  <2> QED BY <1>3, <1>4, <2>1, <2>2, <2>3
<1>8. call.single => item = 0
  <2>1. ASSUME call.single, item # 0 PROVE FALSE
    <3>1. 1 \in 1..item /\ slot = 0
      BY <1>4, <2>1
    <3>2. PICK i \in Cells(n) : dst[i] = 1
      BY <1>4, <3>1 DEF ItemsIn
    <3>3. i >= slot
      BY <3>1 DEF Cells
    <3> QED BY <1>4, <3>2, <3>3 DEF ItemsIn, Unset
  <2> QED BY <2>1
<1>9. ItemsIn(dst', n, call'.item, IF has_value THEN slot + 1 ELSE slot)
  <2>1. CASE has_value
    <3>1. dst' = [i \in DOMAIN dst |-> IF i - slot \in Cells(1)
                                       THEN <<item + 1>>[i - slot + 1] ELSE dst[i]]
      BY <1>3, <1>7, <2>1 DEF Stored
    <3>2. DOMAIN dst = Cells(n) /\ slot \in Nat /\ n \in Nat /\ item \in Nat
      BY <1>4 DEF ItemsIn
    <3>3. \A i \in Cells(n) : /\ i - slot \in Cells(1) <=> i = slot
                              /\ i = slot => <<item + 1>>[i - slot + 1] = item + 1
      <4> HIDE DEF n, item, slot
      <4>1. SUFFICES ASSUME NEW i \in Cells(n)
                     PROVE  /\ i - slot \in Cells(1) <=> i = slot
                            /\ i = slot => <<item + 1>>[i - slot + 1] = item + 1
        OBVIOUS
      <4>2. i \in Nat /\ slot \in Nat
        BY ONLY <3>2, <4>1 DEF Cells
      <4>3. i - slot \in Cells(1) <=> i = slot
        BY ONLY <4>2 DEF Cells
      <4>4. i = slot => i - slot + 1 = 1
        BY ONLY <4>2
      <4>5. <<item + 1>>[1] = item + 1
        BY ONLY <3>2
      <4> QED BY ONLY <4>3, <4>4, <4>5
    <3>4. dst' = [i \in Cells(n) |-> IF i = slot THEN item + 1 ELSE dst[i]]
      BY <3>1, <3>2, <3>3
    <3>5. slot < n /\ ItemsIn(dst, n, item, slot)
      BY <1>2, <1>4
    <3>6. ItemsIn(dst', n, item + 1, slot + 1)
      <4> HIDE DEF n, item, slot
      <4> QED BY ONLY <3>2, <3>4, <3>5, OneMoreItem
    <3> QED BY <1>7, <2>1, <3>6
  <2>2. CASE ~has_value
    BY <1>3, <1>4, <1>7, <2>2
  <2> QED BY <2>1, <2>2
<1>10. ~returned' => \A i \in Cells(n) : i >= call'.slot => dst'[i] = Unset
  <2>1. SUFFICES ASSUME ~returned', NEW i \in Cells(n), i >= call'.slot PROVE dst'[i] = Unset
    OBVIOUS
  <2>2. ~has_error /\ ~(call.single /\ has_value)
    BY <1>3, <2>1
  <2>3. i >= (IF has_value THEN slot + 1 ELSE slot)
    <3>1. i \in Int /\ slot \in Nat
      BY <1>4 DEF Cells
    <3> HIDE DEF whole
    <3> QED BY <1>7, <2>1, <2>2, <3>1
  <2> QED BY <1>9, <2>3 DEF ItemsIn
<1>11. ~has_error => p + size = call'.item * ItemSize + call'.off
  <2>1. SUFFICES ASSUME ~has_error PROVE p + size = call'.item * ItemSize + call'.off
    OBVIOUS
  <2>2. /\ item \in Nat /\ item * ItemSize \in Nat
        /\ (item + 1) * ItemSize = item * ItemSize + ItemSize
    BY <1>4, ItemFacts
  <2>3. CASE whole
    <3>1. call'.item = item + 1 /\ call'.off = 0
      BY <1>7, <2>1, <2>3
    <3>2. p + size = item * ItemSize + ItemSize
      BY <1>4, <1>5, <2>2, <2>3
    <3>3. (item + 1) * ItemSize + 0 = item * ItemSize + ItemSize
      BY <1>5, <2>2
    <3> QED BY <3>1, <3>2, <3>3
  <2>4. CASE ~whole
    <3>1. call'.item = item /\ call'.off = call.off + size
      BY <1>7, <2>4
    <3>2. p + size = item * ItemSize + (call.off + size)
      BY <1>4, <1>5, <2>2
    <3> QED BY <3>1, <3>2
  <2> QED BY <2>3, <2>4
<1>12. returned' => call'.has_error \/ (call'.single /\ call'.item = 1)
  <2>1. call.single /\ has_value => call'.item = 1
    BY <1>7, <1>8
  <2> QED BY <1>3, <1>7, <2>1
<1>13. /\ call'.slot <= call'.n
       /\ call'.single => call'.n = 1 /\ call'.slot = 0
  BY <1>2, <1>4, <1>7
<1>14. DecodeInv'
  <2>1. /\ dst' \in [Cells(call'.n) -> Nat]
        /\ {dst'[i] : i \in Cells(call'.n)} \ {Unset} = 1..call'.item
        /\ \A i, j \in Cells(call'.n) : i < j /\ dst'[j] # Unset => dst'[i] < dst'[j]
    BY <1>7, <1>9 DEF ItemsIn
  <2>2. /\ ~returned' => \A i \in Cells(call'.n) : i >= call'.slot => dst'[i] = Unset
        /\ call'.total_read = Position(in')
        /\ call'.has_error => returned'
        /\ ~call'.has_error => Position(in') = call'.item * ItemSize + call'.off
    BY <1>3, <1>6, <1>7, <1>10, <1>11
  <2>3. call' \in [name : {"decode"}, single : BOOLEAN, n : Nat, slot : Nat,
                   off : Cells(ItemSize), item : Nat, has_error : BOOLEAN,
                   total_read : Nat]
    BY <1>7
  <2> QED BY <1>12, <1>13, <2>1, <2>2, <2>3 DEF DecodeInv
<1>15. returned' \in BOOLEAN
  BY <1>3
<1> QED BY <1>1, <1>2, <1>6, <1>14, <1>15 DEF IInv

\* A decoder into a range returns behind the last slot or without input.
LEMMA DecodeReturnsInvariant == IInv /\ DecodeReturns => IInv'
<1> SUFFICES ASSUME IInv, DecodeReturns PROVE IInv'
  OBVIOUS
<1>1. GoodConsumer(in) /\ GoodConsumer(out) /\ DecodeInv
  BY DecodeCall DEF DecodeReturns, Calls
<1>2. /\ call.slot = call.n \/ NextSize(in, PartSize) = 0
      /\ returned' = TRUE /\ in' = in /\ out' = out /\ dst' = dst /\ call' = call
  BY DEF DecodeReturns
<1>3. call.slot = call.n \/ Stuck(in)
  BY <1>1, <1>2, DecodedSizeFacts DEF DecodeInv
<1>4. DecodeInv'
  BY <1>1, <1>2, <1>3 DEF DecodeInv
<1> QED BY <1>1, <1>2, <1>4 DEF IInv

-----------------------------------------------------------------------------
(* The theorems *)

\* A stutter keeps every part.
LEMMA UnchangedInvariant == IInv /\ UNCHANGED vars => IInv'
<1> SUFFICES ASSUME IInv, UNCHANGED vars PROVE IInv'
  OBVIOUS
<1>1. in' = in /\ out' = out /\ dst' = dst /\ call' = call /\ returned' = returned
  BY DEF vars
<1>2. /\ GoodConsumer(in') /\ GoodConsumer(out') /\ returned' \in BOOLEAN
      /\ CopyInv \/ TransformInv \/ EncodeInv \/ DecodeInv
  BY <1>1 DEF IInv
<1>3. CopyInv => CopyInv'
  BY <1>1 DEF CopyInv, Copied, Sent, CopyEnds, ToCopy, CopyIn, CopyOut
<1>4. TransformInv => TransformInv'
  BY <1>1 DEF TransformInv, Sent
<1>5. EncodeInv => EncodeInv'
  BY <1>1 DEF EncodeInv, Sent
<1>6. DecodeInv => DecodeInv'
  BY <1>1 DEF DecodeInv
<1> QED BY <1>2, <1>3, <1>4, <1>5, <1>6 DEF IInv

\* Every reachable state satisfies the inductive invariant: of whatever call,
\* between whatever sequences of buffers.
THEOREM Invariance == Spec => []IInv
<1>1. Init => IInv
  BY InitIInv
<1>2. IInv /\ [Next]_vars => IInv'
  <2> SUFFICES ASSUME IInv, [Next]_vars PROVE IInv'
    OBVIOUS
  <2>1. CASE CopyPart
    BY <2>1, CopyPartInvariant
  <2>2. CASE CopyReturns
    BY <2>2, CopyReturnsInvariant
  <2>3. CASE Round
    BY <2>3, RoundInvariant
  <2>4. CASE EncodeItem
    BY <2>4, EncodeItemInvariant
  <2>5. CASE EncodePart
    BY <2>5, EncodePartInvariant
  <2>6. CASE EncodeBreaks
    BY <2>6, EncodeBreaksInvariant
  <2>7. CASE EncodeReturns
    BY <2>7, EncodeReturnsInvariant
  <2>8. CASE DecodeRound
    BY <2>8, DecodeRoundInvariant
  <2>9. CASE DecodeReturns
    BY <2>9, DecodeReturnsInvariant
  <2>10. CASE UNCHANGED vars
    BY <2>10, UnchangedInvariant
  <2> QED BY <2>1, <2>2, <2>3, <2>4, <2>5, <2>6, <2>7, <2>8, <2>9, <2>10 DEF Next
<1> QED BY <1>1, <1>2, PTL DEF Spec

\* Copies, transformers and encoders send the bytes in order and once, across
\* buffers of any sizes, and the consumers never assert (copy.hpp:118-135,
\* transform.hpp:136-142, encode.hpp:55-64,88-96).
THEOREM PassesInOrder == Spec => []PassedInOrder
<1>1. IInv => PassedInOrder
  <2> SUFFICES ASSUME IInv, call.name # "decode" PROVE PassedInOrder
    BY DEF PassedInOrder
  <2>1. out.status = "running"
    BY DEF IInv, GoodConsumer
  <2>2. Sent
    BY DEF IInv, CopyInv, TransformInv, EncodeInv, DecodeInv
  <2>3. CASE CopyInv
    BY <2>1, <2>2, <2>3 DEF PassedInOrder, CopyInv, Sent
  <2>4. CASE TransformInv
    <3>1. call.name = "transform" /\ call.tr.held \in Seq(Nat)
      BY <2>4 DEF TransformInv, Transformers
    <3>2. DOMAIN call.tr.held = 1..Len(call.tr.held)
      BY <3>1, LenProperties
    <3> QED BY <2>1, <2>2, <2>4, <3>1, <3>2 DEF PassedInOrder, TransformInv, Sent
  <2>5. CASE EncodeInv
    BY <2>1, <2>2, <2>5 DEF PassedInOrder, EncodeInv, Sent
  <2>6. CASE DecodeInv
    BY <2>6 DEF DecodeInv
  <2> QED BY <2>3, <2>4, <2>5, <2>6 DEF IInv
<1> QED BY <1>1, Invariance, PTL

\* A decoder decodes the items of the bytes read, each once and in order,
\* however the buffers cut them (decode.hpp:58-71,116-131).
THEOREM DecodesItems == Spec => []ItemsDecoded
<1>1. IInv => ItemsDecoded
  <2> SUFFICES ASSUME IInv, call.name = "decode" PROVE ItemsDecoded
    BY DEF ItemsDecoded
  <2>1. in.status = "running" /\ DecodeInv
    BY DecodeCall DEF GoodConsumer
  <2>2. DOMAIN dst = Cells(call.n)
    BY <2>1 DEF DecodeInv
  <2> QED BY <2>1, <2>2 DEF ItemsDecoded, DecodeInv
<1> QED BY <1>1, Invariance, PTL

\* An algorithm that returns has done what it was called for, has run out of
\* input or of room, or stands at an empty buffer
\* (buffers_consumer.hpp:57-63, copy.hpp:127-129, transform.hpp:155-157,
\* encode.hpp:57,90, decode.hpp:60,118).
THEOREM AllEndDoneOrStuck == Spec => []EndsDoneOrStuck
<1>1. IInv => EndsDoneOrStuck
  <2> SUFFICES ASSUME IInv, returned PROVE EndsDoneOrStuck
    BY DEF EndsDoneOrStuck
  <2>1. GoodConsumer(in) /\ GoodConsumer(out)
    BY DEF IInv
  <2>2. CASE CopyInv
    <3>1. /\ call.name = "copy" /\ call.max_copy \in Nat /\ call.remaining \in Nat
          /\ call.remaining <= call.max_copy /\ CopyEnds
          /\ Copied = call.max_copy - call.remaining
          /\ Copied = Position(out) /\ Position(out) = Position(in)
      BY <2>2 DEF CopyInv, Copied
    <3>2. /\ Position(in) \in Nat /\ in.rem \in Nat /\ buffer_size(in.bufs) \in Nat
          /\ Position(in) + in.rem = buffer_size(in.bufs)
          /\ Position(out) \in Nat /\ out.rem \in Nat /\ buffer_size(out.bufs) \in Nat
          /\ Position(out) + out.rem = buffer_size(out.bufs)
      BY <2>1, PositionFacts
    <3>3. SUFFICES ASSUME Copied < Fits PROVE AtEmptyBuffer(in) \/ AtEmptyBuffer(out)
      BY <3>1 DEF EndsDoneOrStuck
    <3>4. Copied < call.max_copy /\ in.rem # 0 /\ out.rem # 0
      BY <3>1, <3>2, <3>3 DEF Fits, Smaller
    <3>5. call.remaining # 0
      BY <3>1, <3>4
    <3>6. CopyIn = 0 \/ CopyOut = 0
      BY <2>1, <3>1, <3>5, ToCopyFacts DEF CopyEnds
    <3>7. CopyIn = 0 => AtEmptyBuffer(in)
      BY <2>1, <3>1, <3>4, <3>5, NextSizeFacts DEF CopyIn
    <3>8. CopyIn # 0 /\ CopyOut = 0 => AtEmptyBuffer(out)
      BY <2>1, <3>1, <3>4, ToCopyFacts, NextSizeFacts DEF CopyOut
    <3> QED BY <3>6, <3>7, <3>8
  <2>3. CASE TransformInv
    BY <2>3 DEF EndsDoneOrStuck, TransformInv
  <2>4. CASE EncodeInv
    <3>1. call.name = "encode"
      BY <2>4 DEF EncodeInv
    <3>2. (call.it > call.n /\ call.off = 0) \/ Stuck(out)
      BY <2>4 DEF EncodeInv
    <3> QED BY <3>1, <3>2 DEF EndsDoneOrStuck
  <2>5. CASE DecodeInv
    BY <2>5 DEF EndsDoneOrStuck, DecodeInv
  <2> QED BY <2>2, <2>3, <2>4, <2>5 DEF IInv
<1> QED BY <1>1, Invariance, PTL

-----------------------------------------------------------------------------
(* The iterator of the cursor *)

\* An iterator has behind it the bytes its moves add up to, and is in a buffer
\* or past the last; while it moves back it may stand behind the last byte of one.
IteratorInv ==
  /\ bufs \in Seq(Nat) /\ single \in BOOLEAN /\ status = "running"
  /\ cur \in 1..(Len(bufs) + 1) /\ buf_pos \in Nat /\ abs_pos \in Nat /\ off \in Int
  /\ at \in 0..buffer_size(bufs) /\ abs_pos + off = at
  /\ Before(bufs, cur - 1) + buf_pos = abs_pos
  /\ IF PastLast THEN buf_pos = 0 ELSE buf_pos <= bufs[cur]
  /\ IF single THEN Len(bufs) = 1 /\ cur = 1
     ELSE off >= 0 /\ ~PastLast => buf_pos < bufs[cur]

\* The first buffer that has bytes has none in front of it.
LEMMA NonEmptyFacts ==
  ASSUME NEW k \in 1..(Len(bufs) + 1), bufs \in Seq(Nat)
  PROVE  LET j == NonEmptyFrom(k) IN
         /\ j \in k..(Len(bufs) + 1)
         /\ j <= Len(bufs) => bufs[j] # 0
         /\ Before(bufs, j - 1) = Before(bufs, k - 1)
<1> DEFINE L == Len(bufs)
           B(i) == Before(bufs, i)
           Found(j) == /\ j <= L => bufs[j] # 0
                       /\ \A i \in k..(j - 1) : bufs[i] = 0
           Empty(j) == \A i \in k..(j - 1) : bufs[i] = 0
           m == L + 1 - k
           j == CHOOSE j \in k..(L + 1) : Found(j)
<1>1. /\ L \in Nat /\ k \in 1..(L + 1) /\ m \in Nat /\ k + m = L + 1
      /\ \A i \in 1..L : bufs[i] \in Nat
  BY LenProperties, ElementOfSeq
<1>2. /\ \A i \in 0..L : B(i) \in Nat
      /\ \A i \in 1..L : B(i) = B(i - 1) + bufs[i]
  BY BeforeFacts
<1>3. NonEmptyFrom(k) = j
  BY DEF NonEmptyFrom
<1> HIDE DEF L, m
<1>4. \E n \in k..(L + 1) : Found(n)
  <2>1. SUFFICES ASSUME \A n \in k..(L + 1) : ~Found(n) PROVE FALSE
    OBVIOUS
  <2> DEFINE S == {n \in 0..m : Empty(k + n)}
  <2>2. 0 \in S
    BY <1>1
  <2>3. ASSUME NEW n \in 1..m, n - 1 \in S PROVE n \in S
    <3> DEFINE e == k + (n - 1)
    <3>1. /\ e \in k..L /\ e \in k..(L + 1) /\ e \in Nat /\ (k + n) - 1 = e
          /\ n \in 0..m /\ k \in Nat /\ k <= e
      BY <1>1
    <3> HIDE DEF e
    <3>5. \A i \in k..e : i \in k..(e - 1) \/ i = e
      BY ONLY <3>1
    <3>2. Empty(e)
      BY <2>3 DEF e
    <3>3. bufs[e] = 0
      BY <2>1, <3>1, <3>2
    <3>4. \A i \in k..e : bufs[i] = 0
      BY <3>2, <3>3, <3>5
    <3> QED BY <3>1, <3>4
  <2>4. 0..m \subseteq S
    <3> HIDE DEF S
    <3> QED BY <1>1, <2>2, <2>3, UpTo
  <2>5. Empty(L + 1)
    <3>1. m \in 0..m
      BY <1>1
    <3> HIDE DEF Empty
    <3>2. Empty(k + m)
      BY <2>4, <3>1
    <3> QED BY <1>1, <3>2
  <2>6. L + 1 \in k..(L + 1) /\ ~(L + 1 <= L)
    BY <1>1
  <2> QED BY <2>1, <2>5, <2>6
<1>5. j \in k..(L + 1) /\ Found(j)
  <2> HIDE DEF Found
  <2> QED BY <1>4
<1> HIDE DEF j
<1>6. B(j - 1) = B(k - 1)
  <2> DEFINE d == j - k
             S == {n \in 0..d : B(k - 1 + n) = B(k - 1)}
  <2>1. d \in Nat /\ k - 1 + d = j - 1 /\ 0 \in S
    BY <1>1, <1>5
  <2> HIDE DEF d
  <2>2. ASSUME NEW n \in 1..d, n - 1 \in S PROVE n \in S
    <3> DEFINE e == k - 1 + n
    <3>1. e \in k..(j - 1) /\ e \in 1..L /\ k - 1 + (n - 1) = e - 1 /\ n \in 0..d
      BY <1>1, <1>5, <2>1
    <3> HIDE DEF e
    <3>2. bufs[e] = 0 /\ B(e) = B(e - 1) + bufs[e] /\ e - 1 \in 0..L
      BY <1>1, <1>2, <1>5, <3>1
    <3>3. B(e) = B(e - 1)
      BY <1>2, <3>2
    <3> QED BY <2>2, <3>1, <3>3 DEF e
  <2>3. 0..d \subseteq S
    <3> HIDE DEF S
    <3> QED BY <2>1, <2>2, UpTo
  <2>4. d \in S
    BY <2>1, <2>3
  <2> QED BY <2>1, <2>4
<1> QED BY <1>3, <1>5, <1>6 DEF L

\* Where an iterator is, as sums.
LEMMA IteratorPlaces ==
  ASSUME IteratorInv
  PROVE  /\ bufs \in Seq(Nat) /\ Len(bufs) \in Nat
         /\ buffer_size(bufs) \in Nat /\ Before(bufs, cur - 1) \in Nat
         /\ abs_pos <= buffer_size(bufs)
         /\ PastLast => cur = Len(bufs) + 1 /\ abs_pos = buffer_size(bufs)
         /\ ~PastLast => /\ cur \in 1..Len(bufs) /\ bufs[cur] \in Nat
                         /\ Before(bufs, cur) = Before(bufs, cur - 1) + bufs[cur]
                         /\ Before(bufs, cur) <= buffer_size(bufs)
                         /\ buf_pos < bufs[cur] => abs_pos < buffer_size(bufs)
<1> DEFINE L == Len(bufs)
           size == buffer_size(bufs)
           here == Before(bufs, cur - 1)
<1>1. /\ bufs \in Seq(Nat) /\ cur \in 1..(L + 1) /\ buf_pos \in Nat /\ abs_pos \in Nat
      /\ here + buf_pos = abs_pos
      /\ IF PastLast THEN buf_pos = 0 ELSE buf_pos <= bufs[cur]
  BY DEF IteratorInv
<1>2. L \in Nat /\ (~PastLast <=> cur <= L)
  BY <1>1, LenProperties DEF PastLast
<1>3. cur - 1 \in 0..L /\ (~PastLast => cur \in 1..L /\ cur \in 0..L)
      /\ (PastLast => cur = L + 1 /\ cur - 1 = L) /\ L \in 0..L
  BY <1>1, <1>2
<1>4. here \in Nat /\ size \in Nat /\ size = Before(bufs, L)
  BY <1>1, <1>3, BeforeFacts
<1>5. CASE PastLast
  <2>1. here = size /\ buf_pos = 0
    BY <1>1, <1>3, <1>4, <1>5
  <2> HIDE DEF here, size
  <2>2. abs_pos = size
    BY <1>1, <1>4, <2>1
  <2> QED BY <1>1, <1>2, <1>3, <1>4, <1>5, <2>2 DEF here, size
<1>6. CASE ~PastLast
  <2> DEFINE next == Before(bufs, cur)
             b == bufs[cur]
  <2>1. b \in Nat
    BY <1>1, <1>3, <1>6, ElementOfSeq
  <2>2. next = here + b /\ next \in Nat
    BY <1>1, <1>3, <1>6, BeforeFacts
  <2>3. next <= size
    BY <1>1, <1>3, <1>4, <1>6, BeforeMonotone
  <2>4. buf_pos <= b
    BY <1>1, <1>6
  <2> HIDE DEF next, b, here, size
  <2>5. abs_pos <= size /\ (buf_pos < b => abs_pos < size)
    BY <1>1, <1>4, <2>1, <2>2, <2>3, <2>4
  <2> QED BY <1>1, <1>2, <1>3, <1>4, <1>6, <2>1, <2>2, <2>3, <2>5 DEF next, b, here, size
<1> QED BY <1>5, <1>6

\* An iterator starts at the first byte.
LEMMA IteratorInitInv == IteratorInit => IteratorInv
<1> SUFFICES ASSUME IteratorInit PROVE IteratorInv
  OBVIOUS
<1>1. /\ bufs \in Seq(Nat) /\ single \in {FALSE, Len(bufs) = 1}
      /\ cur = IF single THEN 1 ELSE NonEmptyFrom(1)
      /\ buf_pos = 0 /\ abs_pos = 0 /\ off = 0 /\ at = 0 /\ status = "running"
  BY SequencesFacts DEF IteratorInit
<1>2. Len(bufs) \in Nat /\ 1 \in 1..(Len(bufs) + 1)
  BY <1>1, LenProperties
<1>8. single \in BOOLEAN
  BY <1>1
<1>3. /\ Before(bufs, 0) = 0 /\ buffer_size(bufs) \in Nat /\ 0 \in 0..buffer_size(bufs)
      /\ \A i \in 1..Len(bufs) : bufs[i] \in Nat
  BY <1>1, BeforeFacts, ElementOfSeq
<1>4. /\ cur \in 1..(Len(bufs) + 1) /\ Before(bufs, cur - 1) = 0
      /\ ~single /\ cur <= Len(bufs) => bufs[cur] # 0
      /\ single => Len(bufs) = 1 /\ cur = 1
  <2>1. CASE single
    <3>1. cur = 1 /\ Len(bufs) = 1
      BY <1>1, <2>1
    <3> QED BY <1>2, <1>3, <2>1, <3>1
  <2>2. CASE ~single
    BY <1>1, <1>2, <1>3, <2>2, NonEmptyFacts
  <2> QED BY <2>1, <2>2
<1>5. cur <= Len(bufs) => bufs[cur] \in Nat
  BY <1>2, <1>3, <1>4
<1>6. Before(bufs, cur - 1) + buf_pos = abs_pos /\ abs_pos + off = at
  BY <1>1, <1>4
<1>7. /\ IF PastLast THEN buf_pos = 0 ELSE buf_pos <= bufs[cur]
      /\ IF single THEN Len(bufs) = 1 /\ cur = 1
         ELSE off >= 0 /\ ~PastLast => buf_pos < bufs[cur]
  BY <1>1, <1>2, <1>4, <1>5 DEF PastLast
<1> QED BY <1>1, <1>2, <1>3, <1>4, <1>6, <1>7, <1>8 DEF IteratorInv

\* A new distance is the way to where the moves add up to now.
LEMMA AdvanceInv ==
  ASSUME IteratorInv, NEW distance \in Int, Advance(distance)
  PROVE  IteratorInv' /\ at' = at + distance
<1>1. /\ off = 0 /\ at + distance \in 0..buffer_size(bufs)
      /\ off' = distance /\ at' = at + distance
      /\ bufs' = bufs /\ single' = single /\ cur' = cur /\ buf_pos' = buf_pos
      /\ abs_pos' = abs_pos /\ status' = status
  BY DEF Advance, Settled
<1>2. /\ bufs \in Seq(Nat) /\ single \in BOOLEAN /\ status = "running"
      /\ cur \in 1..(Len(bufs) + 1) /\ buf_pos \in Nat /\ abs_pos \in Nat
      /\ at \in 0..buffer_size(bufs) /\ abs_pos + off = at
      /\ Before(bufs, cur - 1) + buf_pos = abs_pos
      /\ IF PastLast THEN buf_pos = 0 ELSE buf_pos <= bufs[cur]
      /\ IF single THEN Len(bufs) = 1 /\ cur = 1 ELSE ~PastLast => buf_pos < bufs[cur]
  BY <1>1 DEF IteratorInv
<1>3. abs_pos + distance = at + distance
  BY <1>1, <1>2
<1>4. PastLast' <=> PastLast
  BY <1>1 DEF PastLast
<1> QED BY <1>1, <1>2, <1>3, <1>4 DEF IteratorInv

\* The moves' sum is in the sequence, so that a forward step has a buffer to go
\* on in, and it does not leave one that has the byte.
LEMMA AdvanceStepInv == IteratorInv /\ AdvanceStep => IteratorInv' /\ at' = at
<1> SUFFICES ASSUME IteratorInv, AdvanceStep PROVE IteratorInv' /\ at' = at
  OBVIOUS
<1> DEFINE size == buffer_size(bufs)
           here == Before(bufs, cur - 1)
           b == bufs[cur]
           next == NonEmptyFrom(cur + 1)
<1>1. /\ bufs \in Seq(Nat) /\ single \in BOOLEAN /\ status = "running" /\ ~single
      /\ buf_pos \in Nat /\ abs_pos \in Nat /\ off \in Int /\ off > 0
      /\ at \in 0..size /\ abs_pos + off = at
      /\ here + buf_pos = abs_pos
  BY DEF IteratorInv, AdvanceStep
<1>2. size \in Nat /\ here \in Nat /\ abs_pos <= size /\ (PastLast => abs_pos = size)
  BY IteratorPlaces
<1>3. ~PastLast
  <2> HIDE DEF size
  <2> QED BY <1>1, <1>2
<1>4. /\ cur \in 1..Len(bufs) /\ Len(bufs) \in Nat /\ b \in Nat
      /\ Before(bufs, cur) = here + b /\ buf_pos < b
  BY <1>1, <1>3, IteratorPlaces DEF IteratorInv
<1>5. /\ bufs' = bufs /\ single' = single /\ at' = at /\ status' = status
      /\ IF off < b - buf_pos
         THEN buf_pos' = buf_pos + off /\ abs_pos' = abs_pos + off /\ off' = 0 /\ cur' = cur
         ELSE /\ buf_pos' = 0 /\ abs_pos' = abs_pos + (b - buf_pos)
              /\ off' = off - (b - buf_pos) /\ cur' = next
  BY <1>3 DEF AdvanceStep
<1>6. CASE off < b - buf_pos
  <2>1. /\ buf_pos' = buf_pos + off /\ abs_pos' = abs_pos + off /\ off' = 0 /\ cur' = cur
    BY <1>5, <1>6
  <2>2. /\ buf_pos' \in Nat /\ abs_pos' \in Nat /\ off' \in Int /\ abs_pos' + off' = at
        /\ here + buf_pos' = abs_pos' /\ buf_pos' < b /\ buf_pos' <= b
    <3> HIDE DEF here, b, size
    <3> QED BY <1>1, <1>2, <1>4, <1>6, <2>1
  <2>3. ~PastLast' /\ cur' \in 1..(Len(bufs) + 1)
    BY <1>3, <1>4, <1>5, <2>1 DEF PastLast
  <2> QED BY <1>1, <1>5, <2>1, <2>2, <2>3 DEF IteratorInv
<1>7. CASE ~(off < b - buf_pos)
  <2>1. /\ buf_pos' = 0 /\ abs_pos' = abs_pos + (b - buf_pos)
        /\ off' = off - (b - buf_pos) /\ cur' = next
    BY <1>5, <1>7
  <2>2. cur + 1 \in 1..(Len(bufs) + 1) /\ (cur + 1) - 1 = cur
    BY <1>4
  <2>3. /\ next \in (cur + 1)..(Len(bufs) + 1)
        /\ next <= Len(bufs) => bufs[next] # 0
        /\ Before(bufs, next - 1) = here + b
    BY <1>1, <1>4, <2>2, NonEmptyFacts
  <2> HIDE DEF next
  <2>4. /\ next \in 1..(Len(bufs) + 1) /\ (next <= Len(bufs) => bufs[next] \in Nat)
    BY <1>1, <1>4, <2>3, ElementOfSeq
  <2>5. next <= Len(bufs) => 0 < bufs[next] /\ 0 <= bufs[next]
    BY <2>3, <2>4
  <2>6. /\ abs_pos' \in Nat /\ off' \in Int /\ abs_pos' + off' = at
        /\ (here + b) + buf_pos' = abs_pos'
    <3> HIDE DEF here, b, size
    <3> QED BY <1>1, <1>2, <1>4, <1>7, <2>1
  <2>7. Before(bufs, next - 1) + buf_pos' = abs_pos'
    BY <2>3, <2>6
  <2>8. PastLast' <=> next > Len(bufs)
    BY <1>5, <2>1 DEF PastLast
  <2>9. ~PastLast' => 0 < bufs[next] /\ 0 <= bufs[next]
    BY <1>4, <2>4, <2>5, <2>8
  <2> QED BY <1>1, <1>5, <2>1, <2>4, <2>6, <2>7, <2>9 DEF IteratorInv
<1> QED BY <1>5, <1>6, <1>7

\* A step back finds a buffer in front, because the moves' sum is not negative;
\* it stops in that buffer or behind its last byte.
LEMMA RewindStepInv == IteratorInv /\ RewindStep => IteratorInv' /\ at' = at
<1> SUFFICES ASSUME IteratorInv, RewindStep PROVE IteratorInv' /\ at' = at
  OBVIOUS
<1> DEFINE size == buffer_size(bufs)
           here == Before(bufs, cur - 1)
           b == bufs[cur]
           back == cur - 1
<1>1. /\ bufs \in Seq(Nat) /\ single \in BOOLEAN /\ status = "running" /\ ~single
      /\ cur \in 1..(Len(bufs) + 1)
      /\ buf_pos \in Nat /\ abs_pos \in Nat /\ off \in Int /\ off < 0
      /\ at \in 0..size /\ abs_pos + off = at
      /\ here + buf_pos = abs_pos
      /\ IF PastLast THEN buf_pos = 0 ELSE buf_pos <= b
  BY DEF IteratorInv, RewindStep
<1>2. size \in Nat /\ here \in Nat /\ Len(bufs) \in Nat /\ (~PastLast => b \in Nat)
      /\ (PastLast => cur = Len(bufs) + 1) /\ (~PastLast => cur \in 1..Len(bufs))
  BY IteratorPlaces
<1>3. abs_pos # 0 /\ at \in Nat
  <2> HIDE DEF size
  <2> QED BY <1>1, <1>2
<1>4. /\ bufs' = bufs /\ single' = single /\ at' = at /\ status' = status
      /\ IF -off <= buf_pos
         THEN buf_pos' = buf_pos + off /\ abs_pos' = abs_pos + off /\ off' = 0 /\ cur' = cur
         ELSE /\ abs_pos' = abs_pos - buf_pos /\ off' = off + buf_pos
              /\ cur' = back /\ buf_pos' = bufs[back]
  BY <1>3 DEF RewindStep
<1>5. CASE -off <= buf_pos
  <2>1. buf_pos' = buf_pos + off /\ abs_pos' = abs_pos + off /\ off' = 0 /\ cur' = cur
    BY <1>4, <1>5
  <2>2. ~PastLast
    BY <1>1, <1>5
  <2>3. /\ buf_pos' \in Nat /\ abs_pos' \in Nat /\ off' \in Int /\ abs_pos' + off' = at
        /\ here + buf_pos' = abs_pos' /\ buf_pos' < b /\ buf_pos' <= b
    <3>1. b \in Nat /\ buf_pos <= b
      BY <1>1, <1>2, <2>2
    <3> HIDE DEF here, b, size
    <3> QED BY <1>1, <1>2, <1>3, <1>5, <2>1, <3>1
  <2>4. ~PastLast'
    BY <1>4, <2>1, <2>2 DEF PastLast
  <2> QED BY <1>1, <1>4, <2>1, <2>3, <2>4 DEF IteratorInv
<1>6. CASE ~(-off <= buf_pos)
  <2>1. /\ abs_pos' = abs_pos - buf_pos /\ off' = off + buf_pos
        /\ cur' = back /\ buf_pos' = bufs[back]
    BY <1>4, <1>6
  <2>2. cur # 1
    <3>1. SUFFICES ASSUME cur = 1 PROVE FALSE
      OBVIOUS
    <3>2. here = 0
      BY <1>1, <3>1, BeforeFacts
    <3> HIDE DEF here, size, b
    <3> QED BY <1>1, <1>3, <1>6, <3>2
  <2>3. back \in 1..Len(bufs) /\ back \in 1..(Len(bufs) + 1) /\ ~(back > Len(bufs))
    BY <1>1, <1>2, <2>2
  <2> DEFINE prev == Before(bufs, back - 1)
             a == bufs[back]
  <2>4. a \in Nat /\ here = prev + a /\ prev \in Nat
    <3>1. a \in Nat
      BY <1>1, <2>3, ElementOfSeq
    <3>2. back - 1 \in 0..Len(bufs)
      BY <1>2, <2>3
    <3> QED BY <1>1, <2>3, <3>1, <3>2, BeforeFacts
  <2>5. /\ abs_pos' \in Nat /\ buf_pos' \in Nat /\ off' \in Int /\ off' < 0
        /\ abs_pos' + off' = at /\ prev + buf_pos' = abs_pos' /\ buf_pos' <= a
    <3>1. buf_pos' = a
      BY <2>1
    <3>2. \/ PastLast /\ buf_pos = 0
          \/ b \in Nat /\ buf_pos <= b
      BY <1>1, <1>2
    <3> HIDE DEF prev, a, here, size, b
    <3> QED BY <1>1, <1>2, <1>3, <1>6, <2>1, <2>4, <3>1
  <2>6. ~PastLast'
    BY <1>4, <2>1, <2>3 DEF PastLast
  <2> HIDE DEF back
  <2>7. ~(off' >= 0)
    BY <2>5
  <2> QED BY <1>1, <1>4, <2>1, <2>3, <2>5, <2>6, <2>7 DEF IteratorInv
<1> QED BY <1>4, <1>5, <1>6

\* The index of one buffer is moved inside it or to its end.
LEMMA AdvanceSingleInv == IteratorInv /\ AdvanceSingle => IteratorInv' /\ at' = at
<1> SUFFICES ASSUME IteratorInv, AdvanceSingle PROVE IteratorInv' /\ at' = at
  OBVIOUS
<1> DEFINE size == buffer_size(bufs)
           b == bufs[1]
<1>8. single /\ off # 0
  BY DEF AdvanceSingle
<1>9. /\ bufs \in Seq(Nat) /\ single \in BOOLEAN /\ status = "running"
      /\ cur = 1 /\ Len(bufs) = 1
      /\ buf_pos \in Nat /\ abs_pos \in Nat /\ off \in Int
      /\ at \in 0..size /\ abs_pos + off = at
      /\ Before(bufs, cur - 1) + buf_pos = abs_pos
  BY <1>8 DEF IteratorInv
<1>1. /\ bufs \in Seq(Nat) /\ single = TRUE /\ status = "running"
      /\ cur = 1 /\ Len(bufs) = 1 /\ ~PastLast
      /\ buf_pos \in Nat /\ abs_pos \in Nat /\ off \in Int /\ off # 0
      /\ at \in 0..size /\ abs_pos + off = at
      /\ Before(bufs, cur - 1) + buf_pos = abs_pos
  BY <1>8, <1>9 DEF PastLast
<1>2. /\ Before(bufs, cur - 1) = 0 /\ b \in Nat /\ size = b
  <2>1. cur - 1 = 0 /\ 1 \in 1..Len(bufs) /\ 1 - 1 = 0
    BY <1>1
  <2>2. b \in Nat
    BY <1>1, <2>1, ElementOfSeq
  <2>3. size = Before(bufs, 1) /\ Before(bufs, 1) = Before(bufs, 0) + b /\ Before(bufs, 0) = 0
    BY <1>1, <2>1, BeforeFacts
  <2> QED BY <2>1, <2>2, <2>3
<1>3. ~(-off > buf_pos \/ off > b - buf_pos)
  <2> HIDE DEF size, b
  <2> QED BY <1>1, <1>2
<1>4. /\ buf_pos' = buf_pos + off /\ abs_pos' = abs_pos + off /\ off' = 0
      /\ bufs' = bufs /\ single' = single /\ cur' = cur /\ at' = at /\ status' = status
  BY <1>3 DEF AdvanceSingle
<1>5. /\ buf_pos' \in Nat /\ abs_pos' \in Nat /\ off' \in Int /\ abs_pos' + off' = at
      /\ Before(bufs, cur - 1) + buf_pos' = abs_pos' /\ buf_pos' <= bufs[cur]
  <2>1. b = bufs[cur]
    BY <1>1
  <2> HIDE DEF size, b
  <2> QED BY <1>1, <1>2, <1>4, <2>1
<1>6. ~PastLast'
  BY <1>1, <1>4 DEF PastLast
<1>7. cur \in 1..(Len(bufs) + 1)
  BY <1>1
<1> QED BY <1>1, <1>4, <1>5, <1>6, <1>7 DEF IteratorInv

\* end() of an iterator at the front of a buffer is where the sequence ends.
LEMMA EndInv == IteratorInv /\ End => IteratorInv' /\ at' = buffer_size(bufs)
<1> SUFFICES ASSUME IteratorInv, End PROVE IteratorInv' /\ at' = buffer_size(bufs)
  OBVIOUS
<1> DEFINE size == buffer_size(bufs)
           here == Before(bufs, cur - 1)
<1>1. /\ bufs \in Seq(Nat) /\ single \in BOOLEAN /\ status = "running" /\ off = 0
      /\ buf_pos \in Nat /\ here + buf_pos = abs_pos
      /\ bufs' = bufs /\ single' = single /\ off' = off /\ status' = status /\ at' = size
      /\ single \/ buf_pos = 0
      /\ IF single THEN buf_pos' = bufs[1] /\ abs_pos' = bufs[1] /\ cur' = cur
         ELSE cur' = Len(bufs) + 1 /\ abs_pos' = end_pos /\ buf_pos' = buf_pos
      /\ single => Len(bufs) = 1 /\ cur = 1
  BY DEF IteratorInv, End, Settled
<1>2. size \in Nat /\ here \in Nat /\ Len(bufs) \in Nat /\ size = Before(bufs, Len(bufs))
  BY <1>1, IteratorPlaces, BeforeFacts
<1>3. size \in 0..size
  <2> HIDE DEF size
  <2> QED BY <1>2
<1>4. CASE single
  <2> DEFINE b == bufs[1]
  <2>1. buf_pos' = b /\ abs_pos' = b /\ cur' = 1 /\ cur = 1 /\ cur - 1 = 0 /\ Len(bufs) = 1
        /\ single = TRUE
    BY <1>1, <1>4
  <2>2. 1 \in 1..Len(bufs) /\ 1 - 1 = 0 /\ 1 \in 1..(Len(bufs) + 1)
    BY <2>1
  <2>3. b \in Nat
    BY <1>1, <2>2, ElementOfSeq
  <2>4. size = Before(bufs, 1) /\ Before(bufs, 1) = Before(bufs, 0) + b /\ Before(bufs, 0) = 0
    BY <1>1, <2>1, <2>2, BeforeFacts
  <2>5. abs_pos' + off' = at' /\ Before(bufs, 1 - 1) + buf_pos' = abs_pos' /\ buf_pos' <= b
    <3> HIDE DEF b, size
    <3> QED BY <1>1, <2>1, <2>2, <2>3, <2>4
  <2>6. ~PastLast' /\ cur' = 1 /\ Len(bufs') = 1
    BY <1>1, <2>1 DEF PastLast
  <2>7. buf_pos' \in Nat /\ abs_pos' \in Nat /\ off' \in Int
    BY <1>1, <2>1, <2>3
  <2> HIDE DEF size
  <2> QED BY <1>1, <1>3, <2>1, <2>2, <2>5, <2>6, <2>7 DEF IteratorInv, size
<1>5. CASE ~single
  <2>1. cur' = Len(bufs) + 1 /\ abs_pos' = end_pos /\ buf_pos' = buf_pos /\ buf_pos = 0
    BY <1>1, <1>5
  <2>2. end_pos = abs_pos + size - here
    BY DEF end_pos
  <2>3. abs_pos' = size /\ buf_pos' = 0 /\ off' = 0 /\ buf_pos' \in Nat /\ abs_pos' \in Nat
        /\ abs_pos' + off' = at' /\ size + buf_pos' = abs_pos' /\ off' \in Int
    <3> HIDE DEF size, here
    <3> QED BY <1>1, <1>2, <2>1, <2>2
  <2>4. PastLast' /\ cur' \in 1..(Len(bufs) + 1) /\ cur' - 1 = Len(bufs)
    BY <1>1, <1>2, <2>1 DEF PastLast
  <2> QED BY <1>1, <1>2, <1>3, <1>5, <2>3, <2>4 DEF IteratorInv
<1> QED BY <1>1, <1>4, <1>5

\* A call of _advance or of _rewind, of either iterator.
LEMMA StepInv == IteratorInv /\ Step => IteratorInv' /\ at' = at /\ bufs' = bufs
<1>1. Step /\ IteratorInv => IteratorInv' /\ at' = at
  BY AdvanceStepInv, RewindStepInv, AdvanceSingleInv DEF Step
<1>2. Step => bufs' = bufs
  BY DEF Step, AdvanceStep, RewindStep, AdvanceSingle, Abort
<1> QED BY <1>1, <1>2

-----------------------------------------------------------------------------
(* The bits of the cursor *)

\* Products with the bits of a byte.
LEMMA Times ==
  ASSUME NEW x \in Int, NEW y \in Int
  PROVE  /\ ByteBits \in Nat /\ ByteBits > 0
         /\ ByteBits * x \in Int /\ (x >= 0 => ByteBits * x >= 0) /\ ByteBits * 0 = 0
         /\ ByteBits * (x + 1) = ByteBits * x + ByteBits
         /\ ByteBits * (x + y) = ByteBits * x + ByteBits * y
         /\ x < y => ByteBits * x + ByteBits <= ByteBits * y
<1>1. ByteBits \in Nat \ {0}
  BY BitsAssumption
<1> QED BY <1>1

\* A number of bits is its whole bytes and the bits that are left.
LEMMA Bytewise ==
  ASSUME NEW n \in Int
  PROVE  /\ n \div ByteBits \in Int /\ (n >= 0 => n \div ByteBits >= 0)
         /\ n % ByteBits \in 0..(ByteBits - 1)
         /\ n = ByteBits * (n \div ByteBits) + (n % ByteBits)
         /\ 0 <= n /\ n < ByteBits => n \div ByteBits = 0 /\ n % ByteBits = n
         /\ ByteBits <= n /\ n < ByteBits + ByteBits => n % ByteBits = n - ByteBits
<1>1. ByteBits \in Nat \ {0}
  BY BitsAssumption
<1>2. /\ n \div ByteBits \in Int /\ (n >= 0 => n \div ByteBits >= 0)
      /\ n % ByteBits \in 0..(ByteBits - 1)
      /\ n = ByteBits * (n \div ByteBits) + (n % ByteBits)
  BY <1>1
<1>3. 0 <= n /\ n < ByteBits => n \div ByteBits = 0 /\ n % ByteBits = n
  BY <1>1
<1>4. ByteBits <= n /\ n < ByteBits + ByteBits => n % ByteBits = n - ByteBits
  BY <1>1
<1> QED BY <1>2, <1>3, <1>4

\* What the bits of a sequence may be after so many writes
KnownBits(n) == {v \in Int : v <= n * MaxCount}

\* The skips add up to the bytes the iterator moved, the offset in the byte and
\* what skip() has yet to skip; no bit is from a write to come.
BitsInv ==
  /\ bit_pos \in 0..(ByteBits - 1) /\ remain \in {None} \cup 0..(ByteBits - 1)
  /\ bit_at \in Nat /\ bit_at <= ByteBits * Bytes /\ writes \in Nat
  /\ bit_at = ByteBits * at + bit_pos + (IF remain = None THEN 0 ELSE remain)
  /\ mem \in [0..(ByteBits * Bytes - 1) -> KnownBits(writes)]

\* The cursor is on its way unless it wrote where set() is unsound.
CursorInv ==
  \/ IteratorInv /\ BitsInv
  \/ AnyWrite /\ status = "aborted"

\* Between two calls the cursor is at the bit the skips add up to.
LEMMA CursorPlaces ==
  ASSUME IteratorInv, BitsInv, Idle
  PROVE  /\ Byte = at /\ Byte \in Nat /\ Bytes \in Nat /\ Byte <= Bytes
         /\ bit_pos \in Nat /\ bit_pos < ByteBits /\ bit_at \in Nat
         /\ bit_at = ByteBits * Byte + bit_pos /\ bit_at <= ByteBits * Bytes
         /\ ByteBits * Byte \in Nat /\ ByteBits * Bytes \in Nat
         /\ ByteBits \in Nat /\ ByteBits > 0
         /\ Byte = Bytes => bit_pos = 0
<1>1. /\ off = 0 /\ remain = None /\ Byte = abs_pos /\ abs_pos \in Nat /\ abs_pos + off = at
      /\ bit_pos \in 0..(ByteBits - 1) /\ bit_at \in Nat /\ bit_at <= ByteBits * Bytes
      /\ bit_at = ByteBits * at + bit_pos + 0
  BY DEF IteratorInv, BitsInv, Idle, Settled, Byte
<1>2. /\ Bytes \in Nat /\ abs_pos <= Bytes
  BY IteratorPlaces DEF Bytes
<1>3. ByteBits \in Nat /\ ByteBits > 0
  BY Times, <1>2
<1>4. Byte = at /\ Byte \in Nat
  BY <1>1
<1>5. ByteBits * Byte \in Nat /\ ByteBits * Bytes \in Nat
  BY <1>2, <1>3, <1>4
<1> HIDE DEF None
<1>6. bit_at = ByteBits * Byte + bit_pos
  BY <1>1, <1>3, <1>4, <1>5
<1>7. Byte = Bytes => bit_pos = 0
  BY <1>1, <1>3, <1>5, <1>6
<1> QED BY <1>1, <1>2, <1>3, <1>4, <1>5, <1>6, <1>7

\* A write that does not fill its last byte is cut into the bits of the cursor's
\* byte, whole bytes, and bits of the byte behind them.
LEMMA Cut ==
  ASSUME IteratorInv, BitsInv, Idle, NEW count \in Nat, count >= ByteBits - bit_pos
  PROVE  LET rest == count - (ByteBits - bit_pos)
             whole == rest \div ByteBits
             fin == rest % ByteBits
         IN /\ rest \in Nat /\ whole \in Nat /\ fin \in Nat /\ fin < ByteBits
            /\ rest = ByteBits * whole + fin /\ ByteBits * whole \in Nat
            /\ ByteBits * (Byte + 1) = ByteBits * Byte + ByteBits
            /\ ByteBits * (Byte + whole + 1) = ByteBits * Byte + ByteBits * whole + ByteBits
            /\ bit_at + count = ByteBits * (Byte + whole + 1) + fin
            /\ whole = 0 <=> rest < ByteBits
<1> DEFINE rest == count - (ByteBits - bit_pos)
           whole == rest \div ByteBits
           fin == rest % ByteBits
<1>1. /\ Byte \in Nat /\ bit_pos \in Nat /\ bit_pos < ByteBits
      /\ bit_at = ByteBits * Byte + bit_pos /\ ByteBits * Byte \in Nat /\ ByteBits \in Nat
  BY CursorPlaces
<1>2. rest \in Nat
  BY <1>1
<1>3. /\ whole \in Nat /\ fin \in 0..(ByteBits - 1) /\ rest = ByteBits * whole + fin
      /\ rest < ByteBits => whole = 0
  <2> HIDE DEF rest
  <2> QED BY <1>2, Bytewise
<1> HIDE DEF whole, fin
<1>4. /\ ByteBits * whole \in Nat /\ ByteBits * 0 = 0
      /\ ByteBits * (Byte + 1) = ByteBits * Byte + ByteBits
      /\ ByteBits * ((Byte + whole) + 1) = ByteBits * (Byte + whole) + ByteBits
      /\ ByteBits * (Byte + whole) = ByteBits * Byte + ByteBits * whole
  <2>1. ByteBits * whole \in Int /\ ByteBits * whole >= 0
    BY <1>3, Times
  <2> QED BY <1>1, <1>3, <2>1, Times
<1>5. bit_at + count = ByteBits * Byte + ByteBits * whole + ByteBits + fin
  BY <1>1, <1>2, <1>3, <1>4
<1>6. whole = 0 => rest < ByteBits
  BY <1>1, <1>3, <1>4
<1> QED BY <1>1, <1>2, <1>3, <1>4, <1>5, <1>6 DEF whole, fin

\* Where set() is sound it reads no byte that is not there.
LEMMA SoundStays ==
  ASSUME IteratorInv, BitsInv, Idle, NEW count \in Nat, Sound(count)
  PROVE  ~SetAborts(count)
<1>1. /\ Byte \in Nat /\ Bytes \in Nat /\ bit_pos \in Nat /\ bit_at \in Nat
      /\ bit_at = ByteBits * Byte + bit_pos /\ ByteBits * Bytes \in Nat /\ ByteBits \in Nat
  BY CursorPlaces
<1>2. bit_at + count < ByteBits * Bytes
  BY DEF Sound
<1>3. Byte # Bytes
  BY <1>1, <1>2
<1>4. ASSUME count - (ByteBits - bit_pos) >= 0,
             Byte + ((count - (ByteBits - bit_pos)) \div ByteBits) + 1 = Bytes
      PROVE  FALSE
  <2>1. count >= ByteBits - bit_pos
    BY <1>1, <1>4
  <2> DEFINE fin == (count - (ByteBits - bit_pos)) % ByteBits
  <2>2. bit_at + count = ByteBits * Bytes + fin /\ fin \in Nat
    BY <1>4, <2>1, Cut
  <2> HIDE DEF fin
  <2> QED BY <1>1, <1>2, <2>2
<1> QED BY <1>3, <1>4 DEF SetAborts

\* A written bit is one of this write or a zero, and no two places of an integer
\* hold the same.
LEMMA BitOfFacts ==
  ASSUME writes \in Nat
  PROVE  /\ MaxCount \in Nat /\ writes * MaxCount \in Nat
         /\ \A bit \in Int : BitOf(bit) \in KnownBits(writes + 1)
         /\ \A bit \in 0..(MaxCount - 1) : BitOf(bit) = writes * MaxCount + bit + 1
<1>1. MaxCount \in Nat /\ writes \in Nat
  BY BitsAssumption
<1>2. writes * MaxCount \in Nat /\ (writes + 1) * MaxCount = writes * MaxCount + MaxCount
  BY <1>1
<1>3. ASSUME NEW bit \in Int PROVE BitOf(bit) \in KnownBits(writes + 1)
  <2> DEFINE before == writes * MaxCount
             after == (writes + 1) * MaxCount
  <2>1. before \in Nat /\ after = before + MaxCount
    BY <1>2
  <2>2. BitOf(bit) = IF bit < MaxCount THEN before + bit + 1 ELSE 0
    BY DEF BitOf, Zero
  <2> HIDE DEF before, after
  <2>3. BitOf(bit) \in Int /\ BitOf(bit) <= after
    BY <1>1, <2>1, <2>2
  <2> QED BY <2>3 DEF KnownBits, after
<1>4. ASSUME NEW bit \in 0..(MaxCount - 1) PROVE BitOf(bit) = writes * MaxCount + bit + 1
  <2>1. bit < MaxCount
    BY <1>1
  <2> QED BY <2>1 DEF BitOf
<1> QED BY <1>1, <1>2, <1>3, <1>4

\* Known bits stay known.
LEMMA KnownGrows == writes \in Nat => KnownBits(writes) \subseteq KnownBits(writes + 1)
<1> SUFFICES ASSUME writes \in Nat, NEW v \in KnownBits(writes) PROVE v \in KnownBits(writes + 1)
  OBVIOUS
<1> DEFINE before == writes * MaxCount
           after == (writes + 1) * MaxCount
<1>1. MaxCount \in Nat /\ before \in Nat /\ after = before + MaxCount
  BY BitsAssumption
<1>2. v \in Int /\ v <= before
  BY DEF KnownBits
<1> HIDE DEF before, after
<1>3. v <= after
  BY <1>1, <1>2
<1> QED BY <1>2, <1>3 DEF KnownBits, after

\* Bits put in a byte.
LEMMA PutFacts ==
  ASSUME NEW D \in SUBSET Int, NEW S, NEW m \in [D -> S], \A bit \in Int : BitOf(bit) \in S,
         NEW byte \in Int, NEW pos \in Int, NEW n \in Int, NEW low \in Int
  PROVE  /\ Put(m, byte, pos, n, low) \in [D -> S]
         /\ \A c \in D : Put(m, byte, pos, n, low)[c] =
              IF c - (ByteBits * byte + pos) \in 0..(n - 1)
              THEN BitOf((low + n - 1) - (c - (ByteBits * byte + pos))) ELSE m[c]
<1> DEFINE first == ByteBits * byte + pos
<1>1. first \in Int
  BY BitsAssumption
<1> HIDE DEF first
<1>2. Put(m, byte, pos, n, low) =
        [c \in D |-> IF c - first \in 0..(n - 1)
                     THEN BitOf(low + n - 1 - (c - first)) ELSE m[c]]
  BY DEF Put, first
<1>3. ASSUME NEW c \in D
      PROVE  /\ low + n - 1 - (c - first) \in Int
             /\ low + n - 1 - (c - first) = (low + n - 1) - (c - first)
  BY <1>1
<1> QED BY <1>2, <1>3 DEF first

\* A bit of m after the loop of set(), with count bits to write at its start
LoopBit(m, count, bits_left, c) ==
  LET behind == c - ByteBits * (Byte + 1)
  IN IF behind \in 0..(ByteBits * (count \div ByteBits) - 1)
     THEN BitOf((count + ByteBits) - 1 - bits_left - behind) ELSE m[c]

\* The bytes of the loop of set() get the bits in order, counted from a byte's
\* width above bits_left.
LEMMA WholeBytesPut ==
  ASSUME NEW D \in SUBSET Int, NEW S, NEW m \in [D -> S], \A bit \in Int : BitOf(bit) \in S,
         NEW count \in Nat, NEW bits_left \in Int, Byte \in Int
  PROVE  /\ PutWholeBytes(m, count, bits_left) \in [D -> S]
         /\ \A c \in D : PutWholeBytes(m, count, bits_left)[c] =
                           LoopBit(m, count, bits_left, c)
<1> DEFINE start == ByteBits * (Byte + 1)
           K == count \div ByteBits
           top == (count + ByteBits) - 1 - bits_left
           low(k) == (count - ByteBits * (k - 1)) - bits_left
           Filled(k) == [c \in D |-> IF c - start \in 0..(ByteBits * k - 1)
                                     THEN BitOf(top - (c - start)) ELSE m[c]]
           g == [k \in 0..K |-> Filled(k)]
           After(f) == [k \in 0..K |-> IF k = 0 THEN m ELSE Put(f[k - 1], Byte + k, 0, ByteBits, low(k))]
           put == CHOOSE f : f = After(f)
<1>1. PutWholeBytes(m, count, bits_left) = put[K]
  BY DEF PutWholeBytes
<1>10. start = ByteBits * (Byte + 1)
  OBVIOUS
<1>2. /\ ByteBits \in Nat /\ ByteBits > 0 /\ Byte \in Int
      /\ start \in Int /\ K \in Nat /\ top \in Int
      /\ top = ((count + ByteBits) - 1) - bits_left
  <2>1. ByteBits \in Nat /\ ByteBits > 0
    BY BitsAssumption
  <2>2. count \in Int /\ count >= 0
    OBVIOUS
  <2>3. K \in Int /\ K >= 0
    BY <2>2, Bytewise
  <2>4. start \in Int /\ top \in Int /\ top = ((count + ByteBits) - 1) - bits_left
    BY <2>1
  <2> HIDE DEF start, K, top
  <2> QED BY <2>1, <2>3, <2>4
<1>3. \A k \in Int : low(k) \in Int
  BY <1>2
<1> HIDE DEF low, put, start, K, top
<1>4. \A k \in Int : Filled(k) \in [D -> S]
  BY <1>2
<1>5. Filled(0) = m
  <2>1. ByteBits * 0 - 1 = -1
    BY <1>2
  <2>2. \A c \in D : ~(c - start \in 0..(ByteBits * 0 - 1))
    BY <2>1, <1>2
  <2> QED BY <2>2
<1>6. ASSUME NEW k \in 1..K
      PROVE  Put(Filled(k - 1), Byte + k, 0, ByteBits, low(k)) = Filled(k)
  <2> DEFINE old == Filled(k - 1)
             now == Put(old, Byte + k, 0, ByteBits, low(k))
             first == ByteBits * (Byte + k) + 0
             p == ByteBits * (k - 1)
  <2>1. k \in Int /\ k >= 1 /\ k - 1 \in Int /\ Byte + k \in Int /\ p \in Int /\ p >= 0
    BY <1>2, Times
  <2>2. first = start + p /\ ByteBits * k = p + ByteBits /\ first \in Int
    <3>1. Byte + k = (Byte + 1) + (k - 1) /\ (k - 1) + 1 = k
      BY <1>2, <2>1
    <3>2. ByteBits * ((Byte + 1) + (k - 1)) = start + p
      BY <1>2, <1>10, <2>1, Times
    <3>3. ByteBits * ((k - 1) + 1) = p + ByteBits
      BY <2>1, Times
    <3> HIDE DEF p
    <3> QED BY <1>2, <2>1, <3>1, <3>2, <3>3
  <2>3. low(k) = (count - p) - bits_left /\ low(k) \in Int
    BY <1>3 DEF low
  <2>4. old \in [D -> S] /\ \A c \in D : old[c] = IF c - start \in 0..(p - 1)
                                                THEN BitOf(top - (c - start)) ELSE m[c]
    BY <1>4, <2>1
  <2> HIDE DEF old
  <2>5. /\ now \in [D -> S]
        /\ \A c \in D : now[c] = IF c - first \in 0..(ByteBits - 1)
                                 THEN BitOf((low(k) + ByteBits - 1) - (c - first)) ELSE old[c]
    <3> DEFINE l == low(k)
    <3>1. ByteBits \in Int /\ l \in Int /\ first \in Int
      BY <1>2, <2>2, <2>3
    <3> HIDE DEF l, first, old
    <3>2. now = [c \in D |-> IF c - first \in 0..(ByteBits - 1)
                             THEN BitOf(l + ByteBits - 1 - (c - first)) ELSE old[c]]
      BY <2>4 DEF Put, first, l
    <3>3. ASSUME NEW c \in D
          PROVE  /\ (l + ByteBits - 1) - (c - first) \in Int
                 /\ l + ByteBits - 1 - (c - first) = (l + ByteBits - 1) - (c - first)
      BY <3>1
    <3> HIDE DEF now
    <3> QED BY <2>4, <3>2, <3>3 DEF l
  <2> HIDE DEF now, first, p
  <2>6. ASSUME NEW c \in D PROVE now[c] = Filled(k)[c]
    <3> DEFINE q == c - start
    <3>1. c \in Int /\ q \in Int
      BY <1>2
    <3>2. c - first = q - p
      BY <1>2, <2>1, <2>2, <3>1
    <3>3. (low(k) + ByteBits - 1) - (c - first) = top - q
      BY <1>2, <2>1, <2>2, <2>3, <3>1, <3>2
    <3>4. Filled(k)[c] = IF q \in 0..(ByteBits * k - 1) THEN BitOf(top - q) ELSE m[c]
      OBVIOUS
    <3>5. old[c] = IF q \in 0..(p - 1) THEN BitOf(top - q) ELSE m[c]
      BY <2>4
    <3>6. now[c] = IF q - p \in 0..(ByteBits - 1) THEN BitOf(top - q) ELSE old[c]
      BY <2>5, <3>2, <3>3
    <3> HIDE DEF q
    <3>7. q \in 0..(ByteBits * k - 1) <=> q \in 0..(p - 1) \/ q - p \in 0..(ByteBits - 1)
      BY <1>2, <2>1, <2>2, <3>1
    <3> HIDE DEF Filled
    <3> QED BY <3>4, <3>5, <3>6, <3>7
  <2>7. Filled(k) \in [D -> S]
    BY <1>4, <2>1
  <2> HIDE DEF Filled
  <2>8. now = Filled(k)
    <3> DEFINE sofar == Filled(k)
    <3>1. now \in [D -> S] /\ sofar \in [D -> S]
      BY <2>5, <2>7
    <3>2. \A c \in D : now[c] = sofar[c]
      BY <2>6
    <3> HIDE DEF sofar
    <3>3. now = sofar
      <4>1. now = [c \in D |-> now[c]] /\ sofar = [c \in D |-> sofar[c]]
        BY ONLY <3>1
      <4>2. [c \in D |-> now[c]] = [c \in D |-> sofar[c]]
        BY ONLY <3>2
      <4> QED BY ONLY <4>1, <4>2
    <3> QED BY <3>3 DEF sofar
  <2> QED BY <2>8 DEF now, old
<1> HIDE DEF Filled
<1>7. g = After(g)
  <2>1. ASSUME NEW k \in 0..K PROVE g[k] = After(g)[k]
    <3>1. CASE k = 0
      BY <1>5, <3>1
    <3>2. CASE k # 0
      <4>1. k \in 1..K /\ k - 1 \in 0..K
        BY <1>2, <3>2
      <4> QED BY <1>6, <3>2, <4>1
    <3> QED BY <3>1, <3>2
  <2> QED BY <2>1
<1>8. put = After(put)
  <2> HIDE DEF g, After
  <2> QED BY <1>7 DEF put
<1>9. put[K] = Filled(K)
  <2> DEFINE T == {k \in 0..K : put[k] = Filled(k)}
  <2>1. \A k \in 0..K : put[k] = IF k = 0 THEN m ELSE Put(put[k - 1], Byte + k, 0, ByteBits, low(k))
    BY ONLY <1>8
  <2>2. 0 \in T
    <3>1. 0 \in 0..K
      BY <1>2
    <3> QED BY <1>5, <2>1, <3>1
  <2>3. ASSUME NEW k \in 1..K, k - 1 \in T PROVE k \in T
    <3>1. k \in 0..K /\ k # 0
      BY <1>2
    <3> QED BY <1>6, <2>1, <2>3, <3>1
  <2>4. 0..K \subseteq T
    <3> HIDE DEF T
    <3> QED BY <1>2, <2>2, <2>3, UpTo
  <2>5. K \in 0..K
    BY <1>2
  <2> QED BY <2>4, <2>5
<1>11. /\ Filled(K) \in [D -> S]
       /\ \A c \in D : Filled(K)[c] = LoopBit(m, count, bits_left, c)
  <2>1. Filled(K) \in [D -> S]
    BY <1>2, <1>4
  <2>2. ASSUME NEW c \in D PROVE Filled(K)[c] = LoopBit(m, count, bits_left, c)
    <3> DEFINE behind == c - start
    <3>1. top - behind = (count + ByteBits) - 1 - bits_left - behind
      BY <1>2 DEF top
    <3>2. Filled(K)[c] = IF behind \in 0..(ByteBits * K - 1) THEN BitOf(top - behind) ELSE m[c]
      BY DEF Filled
    <3>3. LoopBit(m, count, bits_left, c) =
            IF behind \in 0..(ByteBits * K - 1)
            THEN BitOf((count + ByteBits) - 1 - bits_left - behind) ELSE m[c]
      BY DEF LoopBit, K, start
    <3> HIDE DEF behind
    <3> QED BY <3>1, <3>2, <3>3
  <2> QED BY <2>1, <2>2
<1> QED BY <1>1, <1>9, <1>11

\* set() changes bits of the sequence only, to those of the integer.
LEMMA SetTyped ==
  ASSUME NEW D \in SUBSET Int, NEW S, mem \in [D -> S], \A bit \in Int : BitOf(bit) \in S,
         NEW count \in Nat, Byte \in Int, bit_pos \in Int
  PROVE  set(count) \in [D -> S]
<1> DEFINE bits_left == ByteBits - bit_pos
           rest == count - bits_left
           whole == rest \div ByteBits
           fin == rest % ByteBits
           one == Put(mem, Byte, bit_pos, bits_left, rest)
           two == PutWholeBytes(one, rest, bits_left)
<1>1. set(count) = IF count < bits_left THEN Put(mem, Byte, 0, count, 0)
                   ELSE Put(two, Byte + whole + 1, 0, fin, 0)
  BY DEF set
<1>2. ByteBits \in Int /\ bits_left \in Int /\ rest \in Int /\ 0 \in Int /\ count \in Int
  BY BitsAssumption
<1> HIDE DEF one, two, bits_left
<1>3. whole \in Int /\ fin \in Int
  <2> HIDE DEF rest
  <2>1. whole \in Int /\ fin \in 0..(ByteBits - 1)
    BY <1>2, Bytewise
  <2> QED BY <1>2, <2>1
<1> HIDE DEF rest, whole, fin
<1>4. CASE count < bits_left
  <2>1. Put(mem, Byte, 0, count, 0) \in [D -> S]
    BY <1>2, PutFacts
  <2> QED BY <1>1, <1>4, <2>1
<1>5. CASE ~(count < bits_left)
  <2>1. one \in [D -> S]
    BY <1>2, PutFacts DEF one
  <2>2. rest \in Nat
    BY <1>2, <1>5 DEF rest
  <2>3. two \in [D -> S]
    <3>1. PutWholeBytes(one, rest, bits_left) \in [D -> S]
      BY <1>2, <2>1, <2>2, WholeBytesPut
    <3> QED BY <3>1 DEF two
  <2>4. Byte + whole + 1 \in Int
    BY <1>3
  <2>5. Put(two, Byte + whole + 1, 0, fin, 0) \in [D -> S]
    BY <1>2, <1>3, <2>3, <2>4, PutFacts
  <2> QED BY <1>1, <1>5, <2>5
<1> QED BY <1>4, <1>5

\* The first cursor.
LEMMA CursorInitInv == BitsInit => CursorInv
<1> SUFFICES ASSUME BitsInit PROVE IteratorInv /\ BitsInv
  BY DEF CursorInv
<1>1. IteratorInv
  BY IteratorInitInv DEF BitsInit
<1> DEFINE last == ByteBits * Bytes - 1
<1>2. /\ at = 0 /\ bit_pos = 0 /\ remain = None /\ bit_at = 0 /\ writes = 0
      /\ mem = [c \in 0..last |-> -1 - c]
  BY DEF BitsInit, IteratorInit
<1>3. ByteBits \in Nat /\ ByteBits > 0 /\ ByteBits * 0 = 0 /\ Bytes \in Nat
  BY <1>1, IteratorPlaces, BitsAssumption DEF Bytes
<1>4. ByteBits * Bytes \in Nat
  BY <1>3
<1>5. mem \in [0..last -> KnownBits(writes)]
  <2>1. ASSUME NEW c \in 0..last PROVE -1 - c \in KnownBits(writes)
    <3>1. c \in Nat /\ -1 - c \in Int /\ -1 - c <= 0 /\ writes * MaxCount = 0
      BY <1>2, <1>4, BitsAssumption
    <3> QED BY <3>1 DEF KnownBits
  <2> HIDE DEF last
  <2> QED BY <1>2, <2>1
<1>6. 0 \in 0..(ByteBits - 1) /\ 0 <= ByteBits * Bytes
  BY <1>3, <1>4
<1> QED BY <1>1, <1>2, <1>3, <1>5, <1>6 DEF BitsInv

\* skip(), whole bytes first: what is left is less than a byte.
LEMMA SkipBytesInv ==
  ASSUME IteratorInv, BitsInv, Idle, NEW count \in Nat, BitsAhead(count), SkipBytes(count),
         bit_at' = bit_at + count, bit_pos' = bit_pos, writes' \in Nat,
         mem' \in [0..(ByteBits * Bytes - 1) -> KnownBits(writes')]
  PROVE  IteratorInv' /\ BitsInv'
<1> DEFINE bytes == count \div ByteBits
           bits == count % ByteBits
           total == ByteBits * Bytes
<1>1. /\ bytes \in Int /\ bits \in 0..(ByteBits - 1) /\ count = ByteBits * bytes + bits
  BY Bytewise
<1>2. Advance(bytes) /\ remain' = bits /\ bit_at + count <= total
  BY DEF SkipBytes, BitsAhead
<1> HIDE DEF bytes, bits
<1>3. IteratorInv' /\ at' = at + bytes /\ bufs' = bufs
  BY <1>1, <1>2, AdvanceInv DEF Advance
<1>4. /\ bit_pos \in 0..(ByteBits - 1) /\ bit_at \in Nat /\ bit_at = ByteBits * at + bit_pos
      /\ ByteBits \in Nat /\ ByteBits > 0 /\ at \in Nat
  BY CursorPlaces
<1>5. Bytes' = Bytes
  BY <1>3 DEF Bytes
<1>6. ByteBits * at' = ByteBits * at + ByteBits * bytes /\ ByteBits * at \in Int
      /\ ByteBits * bytes \in Int
  BY <1>1, <1>3, <1>4, Times
<1>7. bit_at' = ByteBits * at' + bit_pos' + remain' /\ remain' # None /\ bit_at' \in Nat
  BY <1>1, <1>2, <1>4, <1>6 DEF None
<1> QED BY <1>1, <1>2, <1>3, <1>4, <1>5, <1>7 DEF BitsInv

\* The rest of skip(): the bits that go over the end of the byte are in the next.
LEMMA SkipBitsInv == IteratorInv /\ BitsInv /\ SkipBits => IteratorInv' /\ BitsInv'
<1> SUFFICES ASSUME IteratorInv, BitsInv, SkipBits PROVE IteratorInv' /\ BitsInv'
  OBVIOUS
<1> DEFINE step == IF remain >= ByteBits - bit_pos THEN 1 ELSE 0
           sum == bit_pos + remain
<1>1. /\ bit_pos \in 0..(ByteBits - 1) /\ remain \in 0..(ByteBits - 1) /\ bit_at \in Nat
      /\ bit_at <= ByteBits * Bytes /\ bit_at = ByteBits * at + bit_pos + remain
      /\ writes \in Nat /\ mem \in [0..(ByteBits * Bytes - 1) -> KnownBits(writes)]
      /\ remain # None
  BY DEF BitsInv, SkipBits
<1>2. /\ Advance(step) /\ bit_pos' = sum % ByteBits /\ remain' = None
      /\ mem' = mem /\ bit_at' = bit_at /\ writes' = writes
  BY DEF SkipBits
<1>3. step \in Int
  OBVIOUS
<1>4. ByteBits \in Nat /\ ByteBits > 0 /\ at \in Int
  BY BitsAssumption DEF IteratorInv
<1>5. IteratorInv' /\ at' = at + step /\ bufs' = bufs
  <2> HIDE DEF step
  <2> QED BY <1>2, <1>3, AdvanceInv DEF Advance
<1>6. Bytes' = Bytes
  BY <1>5 DEF Bytes
<1>7. ByteBits * at \in Int /\ ByteBits * (at + 1) = ByteBits * at + ByteBits
  BY <1>4, Times
<1>8. /\ bit_pos' \in 0..(ByteBits - 1) /\ bit_at' = ByteBits * at' + bit_pos'
  <2>1. CASE remain >= ByteBits - bit_pos
    <3>1. at' = at + 1
      BY <1>5, <2>1
    <3>2. sum \in Int /\ ByteBits <= sum /\ sum < ByteBits + ByteBits
      BY <1>1, <1>4, <2>1
    <3>3. sum % ByteBits = sum - ByteBits
      BY <3>2, Bytewise
    <3> QED BY <1>1, <1>2, <1>4, <1>7, <3>1, <3>2, <3>3
  <2>2. CASE ~(remain >= ByteBits - bit_pos)
    <3>1. at' = at
      BY <1>4, <1>5, <2>2
    <3>2. sum \in Int /\ 0 <= sum /\ sum < ByteBits
      BY <1>1, <1>4, <2>2
    <3>3. sum % ByteBits = sum
      BY <3>2, Bytewise
    <3> QED BY <1>1, <1>2, <1>4, <1>7, <3>1, <3>2, <3>3
  <2> QED BY <2>1, <2>2
<1>9. bit_pos' \in Int /\ ByteBits * at' \in Int /\ ByteBits * at' + bit_pos' + 0 = bit_at'
  <2>1. at' \in Int
    BY <1>3, <1>4, <1>5
  <2> QED BY <1>4, <1>8, <2>1
<1> QED BY <1>1, <1>2, <1>5, <1>6, <1>8, <1>9 DEF BitsInv

\* A new cursor is at the front of a byte.
LEMMA RebasedInv ==
  ASSUME IteratorInv, BitsInv, Idle, IteratorInv', bufs' = bufs, bit_pos' = 0,
         bit_at' = ByteBits * at', remain' = remain, mem' = mem, writes' = writes
  PROVE  BitsInv'
<1>1. Bytes' = Bytes /\ remain' = None
  BY DEF Bytes, Idle
<1>2. at' \in 0..Bytes /\ Bytes \in Nat
  BY <1>1, CursorPlaces DEF IteratorInv, Bytes
<1>3. ByteBits \in Nat /\ ByteBits > 0
  BY BitsAssumption
<1>4. /\ ByteBits * at' \in Nat /\ ByteBits * at' <= ByteBits * Bytes
      /\ ByteBits * at' + 0 + 0 = ByteBits * at' /\ 0 \in 0..(ByteBits - 1)
  <2> DEFINE a == at'
             p == ByteBits * a
             q == ByteBits * Bytes
  <2>3. a \in Int /\ Bytes \in Int /\ a >= 0 /\ a <= Bytes
    BY <1>2
  <2> HIDE DEF a
  <2>1. p \in Int /\ q \in Int /\ p >= 0 /\ (a < Bytes => p + ByteBits <= q)
        /\ (a = Bytes => p = q)
    BY ONLY <2>3, Times
  <2> HIDE DEF p, q
  <2>2. p \in Nat /\ p <= q /\ p + 0 + 0 = p /\ 0 \in 0..(ByteBits - 1)
    BY <1>3, <2>1, <2>3
  <2> QED BY <2>2 DEF p, q, a
<1>5. writes \in Nat /\ mem \in [0..(ByteBits * Bytes - 1) -> KnownBits(writes)]
  BY DEF BitsInv
<1> QED BY <1>1, <1>4, <1>5 DEF BitsInv

\* Every call keeps the cursor on its way.
LEMMA CursorStepInv == CursorInv /\ [BitsNext]_bits_vars => CursorInv'
<1> SUFFICES ASSUME CursorInv, [BitsNext]_bits_vars PROVE CursorInv'
  OBVIOUS
<1>1. CASE AnyWrite /\ status = "aborted"
  <2>1. ~Settled /\ ~Step
    BY <1>1 DEF Settled, Step, AdvanceStep, RewindStep, AdvanceSingle
  <2>2. ~BitsNext
    BY <2>1 DEF BitsNext, Skip, SkipToByteBoundary, SkipBits, Write, Rebase, RebaseToEnd,
                Idle, Advance
  <2>3. status' = status
    BY <2>2 DEF bits_vars, iterator_vars
  <2> QED BY <1>1, <2>3 DEF CursorInv
<1>2. CASE IteratorInv /\ BitsInv
  <2>1. ASSUME NEW count \in 0..(ByteBits * Bytes), Skip(count)
        PROVE  CursorInv'
    BY <1>2, <2>1, SkipBytesInv DEF CursorInv, Skip, BitsInv
  <2>2. CASE SkipToByteBoundary
    <3>1. bit_offset \in Nat
      <4>1. ByteBits - bit_pos \in Int
        BY <1>2, BitsAssumption DEF BitsInv
      <4>2. bit_offset \in 0..(ByteBits - 1)
        BY <4>1, Bytewise DEF bit_offset
      <4> QED BY <4>2
    <3>2. Skip(bit_offset)
      BY <2>2 DEF SkipToByteBoundary
    <3> HIDE DEF bit_offset
    <3>3. writes \in Nat /\ mem \in [0..(ByteBits * Bytes - 1) -> KnownBits(writes)]
      BY <1>2 DEF BitsInv
    <3> QED BY <1>2, <3>1, <3>2, <3>3, SkipBytesInv DEF CursorInv, Skip
  <2>3. CASE SkipBits
    BY <1>2, <2>3, SkipBitsInv DEF CursorInv
  <2>4. ASSUME NEW count \in 0..MaxCount, Write(count)
        PROVE  CursorInv'
    <3>1. Idle /\ BitsAhead(count) /\ (AnyWrite \/ Sound(count)) /\ bit_at' = bit_at + count
          /\ writes' = writes + 1 /\ bit_pos' = bit_pos
      BY <2>4 DEF Write
    <3>2. count \in Nat /\ writes \in Nat /\ MaxCount \in Nat
      BY <1>2, BitsAssumption DEF BitsInv
    <3>3. CASE SetAborts(count)
      <4>1. AnyWrite
        BY <1>2, <3>1, <3>2, <3>3, SoundStays
      <4>2. status' = "aborted"
        BY <2>4, <3>3 DEF Write, Abort
      <4> QED BY <4>1, <4>2 DEF CursorInv
    <3>4. CASE ~SetAborts(count)
      <4> DEFINE D == 0..(ByteBits * Bytes - 1)
      <4>1. mem' = set(count) /\ SkipBytes(count)
        BY <2>4, <3>4 DEF Write
      <4>2. mem \in [D -> KnownBits(writes + 1)]
        BY <1>2, <3>2, KnownGrows DEF BitsInv
      <4>3. Byte \in Int /\ bit_pos \in Int /\ D \in SUBSET Int
        BY <1>2, <3>1, CursorPlaces
      <4>4. \A bit \in Int : BitOf(bit) \in KnownBits(writes + 1)
        BY <3>2, BitOfFacts
      <4> HIDE DEF D
      <4>5. set(count) \in [D -> KnownBits(writes + 1)]
        BY <3>2, <4>2, <4>3, <4>4, SetTyped
      <4> QED BY <1>2, <3>1, <3>2, <4>1, <4>5, SkipBytesInv DEF CursorInv, D
    <3> QED BY <3>3, <3>4
  <2>5. ASSUME NEW distance \in -Bytes..Bytes, Rebase(distance)
        PROVE  CursorInv'
    <3>1. Idle /\ Advance(distance) /\ distance \in Int
      BY <2>5 DEF Rebase
    <3>2. IteratorInv' /\ at' = at + distance /\ bufs' = bufs
      BY <1>2, <3>1, AdvanceInv DEF Advance
    <3>3. /\ bit_pos' = 0 /\ bit_at' = ByteBits * at' /\ remain' = remain
          /\ mem' = mem /\ writes' = writes
      BY <2>5, <3>2 DEF Rebase
    <3> QED BY <1>2, <3>1, <3>2, <3>3, RebasedInv DEF CursorInv
  <2>6. CASE RebaseToEnd
    <3>1. Idle /\ End
      BY <2>6 DEF RebaseToEnd
    <3>2. IteratorInv' /\ at' = Bytes /\ bufs' = bufs
      BY <1>2, <3>1, EndInv DEF End, Bytes
    <3>3. /\ bit_pos' = 0 /\ bit_at' = ByteBits * at' /\ remain' = remain
          /\ mem' = mem /\ writes' = writes
      BY <2>6, <3>2 DEF RebaseToEnd
    <3> QED BY <1>2, <3>1, <3>2, <3>3, RebasedInv DEF CursorInv
  <2>7. CASE Step /\ UNCHANGED <<bit_pos, remain, mem, bit_at, writes>>
    <3>1. IteratorInv' /\ at' = at /\ bufs' = bufs
      BY <1>2, <2>7, StepInv
    <3>2. BitsInv'
      BY <1>2, <2>7, <3>1 DEF BitsInv, Bytes
    <3> QED BY <3>1, <3>2 DEF CursorInv
  <2>8. CASE UNCHANGED bits_vars
    <3>1. IteratorInv'
      BY <1>2, <2>8 DEF IteratorInv, bits_vars, iterator_vars, PastLast
    <3>2. BitsInv'
      BY <1>2, <2>8 DEF BitsInv, Bytes, bits_vars, iterator_vars
    <3> QED BY <3>1, <3>2 DEF CursorInv
  <2> QED BY <2>1, <2>2, <2>3, <2>4, <2>5, <2>6, <2>7, <2>8 DEF BitsNext
<1> QED BY <1>1, <1>2 DEF CursorInv

\* The cursor's invariant, for every number of bits in a byte, width of the
\* integers and sequence of buffers.
THEOREM CursorStaysValid == BitsSpec => []CursorInv
BY CursorInitInv, CursorStepInv, PTL DEF BitsSpec

\* After any skips, writes and new cursors the cursor is at the bit they add
\* up to (buffer_bits.hpp:158-167).
THEOREM SkipsSumUp == BitsSpec => []SkipsAddUp
<1>1. CursorInv => SkipsAddUp
  <2> SUFFICES ASSUME CursorInv, Idle PROVE ByteBits * Byte + bit_pos = bit_at
    BY DEF SkipsAddUp
  <2>1. status = "running"
    BY DEF Idle, Settled
  <2> QED BY <2>1, CursorPlaces DEF CursorInv
<1> QED BY <1>1, CursorStaysValid, PTL

\* The moves of the iterator add up to the byte it points at, and no assertion
\* fires on the way, if the user writes only where set() is sound
\* (bytewise_iterator.hpp:31-79,95-109,141-166).
THEOREM MovesSumUp == AnyWrite = FALSE => (BitsSpec => []MovesAddUp)
<1> SUFFICES ASSUME AnyWrite = FALSE PROVE BitsSpec => []MovesAddUp
  OBVIOUS
<1>1. CursorInv => MovesAddUp
  <2> SUFFICES ASSUME CursorInv PROVE MovesAddUp
    OBVIOUS
  <2>1. IteratorInv
    BY DEF CursorInv
  <2> DEFINE here == Before(bufs, cur - 1)
             size == buffer_size(bufs)
  <2>2. /\ status = "running" /\ abs_pos + off = at /\ here + buf_pos = abs_pos
        /\ buf_pos \in Nat /\ abs_pos \in Nat /\ here \in Nat /\ size \in Nat
        /\ IF PastLast THEN buf_pos = 0 ELSE buf_pos <= bufs[cur]
        /\ IF single THEN Len(bufs) = 1 /\ cur = 1
           ELSE off >= 0 /\ ~PastLast => buf_pos < bufs[cur]
    BY <2>1, IteratorPlaces DEF IteratorInv
  <2>3. end_pos = abs_pos + size - here
    BY DEF end_pos
  <2> HIDE DEF here, size
  <2>4. ASSUME off = 0
        PROVE  /\ abs_pos = at /\ here + buf_pos = at
               /\ end_pos = size <=> buf_pos = 0
    BY <2>2, <2>3, <2>4
  <2>5. ASSUME off = 0, single PROVE buf_pos <= bufs[1]
    <3>1. cur = 1 /\ ~PastLast
      BY <2>2, <2>5 DEF PastLast
    <3> QED BY <2>2, <3>1
  <2>6. ASSUME off = 0, ~single PROVE IF PastLast THEN buf_pos = 0 ELSE buf_pos < bufs[cur]
    BY <2>2, <2>6
  <2> QED BY <2>2, <2>4, <2>5, <2>6 DEF MovesAddUp, here, size
<1> QED BY <1>1, CursorStaysValid, PTL

-----------------------------------------------------------------------------
(* peek *)

\* n bits from start on
Run(start, n) == [i \in 1..n |-> mem[start + i - 1]]

\* Bits behind bits are a run.
LEMMA RunsJoin ==
  ASSUME NEW start \in Int, NEW n \in Nat, NEW k \in Nat
  PROVE  /\ Run(start, n) \o Run(start + n, k) = Run(start, n + k)
         /\ Run(start, n) \in Seq({mem[c] : c \in Int})
<1> DEFINE S == {mem[c] : c \in Int}
           a == Run(start, n)
           b == Run(start + n, k)
           whole_run == Run(start, n + k)
<1>1. \A i \in Int : start + i - 1 \in Int /\ (start + n) + i - 1 \in Int
  OBVIOUS
<1>2. a \in Seq(S) /\ Len(a) = n
  <2>1. a \in [1..n -> S]
    BY <1>1 DEF Run
  <2> QED BY <2>1
<1>3. b \in Seq(S) /\ Len(b) = k
  <2>1. b \in [1..k -> S]
    BY <1>1 DEF Run
  <2> QED BY <2>1
<1>4. /\ \A i \in 1..n : a[i] = mem[start + i - 1]
      /\ \A i \in 1..k : b[i] = mem[(start + n) + i - 1]
  BY DEF Run
<1>5. whole_run = [i \in 1..(n + k) |-> mem[start + i - 1]]
  BY DEF Run
<1> HIDE DEF a, b, whole_run, S
<1>6. /\ a \o b \in Seq(S) /\ Len(a \o b) = n + k
      /\ \A i \in 1..(n + k) : (a \o b)[i] = IF i <= n THEN a[i] ELSE b[i - n]
  BY <1>2, <1>3, ConcatProperties
<1>7. ASSUME NEW i \in 1..(n + k) PROVE (a \o b)[i] = mem[start + i - 1]
  <2>1. CASE i <= n
    <3>1. i \in 1..n
      BY <2>1
    <3> QED BY <1>4, <1>6, <2>1, <3>1
  <2>2. CASE ~(i <= n)
    <3>1. i - n \in 1..k /\ (start + n) + (i - n) - 1 = start + i - 1
      BY <2>2
    <3> QED BY <1>4, <1>6, <2>2, <3>1
  <2> QED BY <2>1, <2>2
<1>8. whole_run \in Seq(S) /\ Len(whole_run) = n + k
  <2>1. whole_run \in [1..(n + k) -> S]
    BY <1>1, <1>5 DEF S
  <2> QED BY <2>1
<1>9. a \o b = whole_run
  <2>1. \A i \in 1..Len(a \o b) : (a \o b)[i] = whole_run[i]
    BY <1>5, <1>6, <1>7
  <2> QED BY <1>6, <1>8, <2>1, SeqEqual
<1> QED BY <1>2, <1>9 DEF a, b, whole_run, S

\* The bytes of the loop of peek() are a run.
LEMMA WholeBytesFlat ==
  ASSUME NEW n \in Nat, Byte \in Int
  PROVE  FlattenSeq(WholeBytes(n)) = Run(ByteBits * (Byte + 1), ByteBits * n)
<1> DEFINE start == ByteBits * (Byte + 1)
           seqs == WholeBytes(n)
           Prefix(k) == Run(start, ByteBits * k)
           g == [i \in 1..n |-> Prefix(i)]
           After(f) == [i \in 1..n |-> IF i = 1 THEN seqs[i] ELSE f[i - 1] \o seqs[i]]
           flatten == CHOOSE f : f = After(f)
<1>1. ByteBits \in Nat /\ ByteBits > 0 /\ start \in Int
  BY BitsAssumption
<1>2. Len(seqs) = n /\ seqs = [k \in 1..n |-> Bits(Byte + k, 0, ByteBits)]
  BY DEF WholeBytes
<1>3. FlattenSeq(seqs) = IF n = 0 THEN seqs ELSE flatten[n]
  BY <1>2 DEF FlattenSeq
<1> HIDE DEF seqs, start, flatten
<1>4. ASSUME NEW i \in 1..n
      PROVE  seqs[i] = Run(start + ByteBits * (i - 1), ByteBits)
  <2> DEFINE first == ByteBits * (Byte + i)
             p == start + ByteBits * (i - 1)
  <2>1. first = p /\ p \in Int
    <3>1. Byte + i = (Byte + 1) + (i - 1) /\ Byte + 1 \in Int /\ i - 1 \in Int
      OBVIOUS
    <3>2. ByteBits * ((Byte + 1) + (i - 1)) = start + ByteBits * (i - 1)
      BY <3>1, Times DEF start
    <3>3. ByteBits * (i - 1) \in Int
      BY <3>1, Times
    <3> QED BY <1>1, <3>1, <3>2, <3>3
  <2>2. seqs[i] = [j \in 1..ByteBits |-> mem[first + 0 + j - 1]]
    BY <1>2 DEF Bits
  <2> HIDE DEF first, p
  <2>3. \A j \in 1..ByteBits : first + 0 + j - 1 = p + j - 1
    BY <1>1, <2>1
  <2>4. seqs[i] = [j \in 1..ByteBits |-> mem[p + j - 1]]
    BY <2>2, <2>3
  <2> QED BY <2>4 DEF Run, p
<1>5. Prefix(0) = << >> /\ (n = 0 => seqs = << >>)
  <2>1. ByteBits * 0 = 0 /\ 1..0 = {}
    BY <1>1
  <2> QED BY <1>2, <2>1 DEF Run
<1>6. ASSUME NEW i \in 1..n, i # 1
      PROVE  Prefix(i - 1) \o seqs[i] = Prefix(i)
  <2> DEFINE p == ByteBits * (i - 1)
  <2>1. i - 1 \in Int /\ i - 1 >= 0 /\ (i - 1) + 1 = i
    OBVIOUS
  <2>2. p \in Nat /\ ByteBits * i = p + ByteBits
    <3>1. p \in Int /\ p >= 0 /\ ByteBits * ((i - 1) + 1) = p + ByteBits
      BY <2>1, Times
    <3> QED BY <2>1, <3>1
  <2>3. seqs[i] = Run(start + p, ByteBits)
    BY <1>4
  <2> HIDE DEF p
  <2>4. Run(start, p) \o Run(start + p, ByteBits) = Run(start, p + ByteBits)
    BY <1>1, <2>2, RunsJoin
  <2> QED BY <2>2, <2>3, <2>4 DEF p
<1>7. n # 0 => seqs[1] = Prefix(1)
  <2>1. ByteBits * (1 - 1) = 0 /\ start + 0 = start /\ ByteBits * 1 = ByteBits
    BY <1>1
  <2> QED BY <1>4, <2>1
<1> HIDE DEF Prefix
<1>8. g = After(g)
  <2>1. ASSUME NEW i \in 1..n PROVE g[i] = After(g)[i]
    <3>1. CASE i = 1
      BY <1>7, <3>1
    <3>2. CASE i # 1
      <4>1. i - 1 \in 1..n
        BY <3>2
      <4> QED BY <1>6, <3>2, <4>1
    <3> QED BY <3>1, <3>2
  <2> QED BY <2>1
<1>9. flatten = After(flatten)
  <2> HIDE DEF g, After
  <2> QED BY <1>8 DEF flatten
<1>10. n # 0 => flatten[n] = Prefix(n)
  <2> DEFINE T == {0} \cup {i \in 1..n : flatten[i] = Prefix(i)}
  <2>1. \A i \in 1..n : flatten[i] = IF i = 1 THEN seqs[i] ELSE flatten[i - 1] \o seqs[i]
    BY ONLY <1>9
  <2>2. ASSUME NEW i \in 1..n, i - 1 \in T PROVE i \in T
    <3>1. CASE i = 1
      BY <1>7, <2>1, <3>1
    <3>2. CASE i # 1
      <4>1. i - 1 # 0
        BY <3>2
      <4>2. flatten[i - 1] = Prefix(i - 1)
        BY <2>2, <4>1
      <4>3. flatten[i] = Prefix(i)
        BY <1>6, <2>1, <3>2, <4>2
      <4> QED BY <4>3
    <3> QED BY <3>1, <3>2
  <2>3. 0..n \subseteq T
    <3>1. 0 \in T
      OBVIOUS
    <3> HIDE DEF T
    <3> QED BY <2>2, <3>1, UpTo
  <2> QED BY <2>3
<1> QED BY <1>3, <1>5, <1>10 DEF Prefix, seqs, start

\* peek() yields the next count bits in order, from one byte or from several,
\* and reads no byte that is not there, but for a peek(0) at the end
\* (buffer_bits.hpp:49-93).
THEOREM PeekInOrder == BitsSpec => []PeeksNext
<1>1. ASSUME IteratorInv, BitsInv, Idle, NEW count \in 0..MaxCount, BitsAhead(count)
      PROVE  IF PeekAborts THEN count = 0
             ELSE peek(count) = [i \in 1..count |-> mem[bit_at + i - 1]]
  <2> DEFINE bits_left == ByteBits - bit_pos
             rest == count - bits_left
             whole == rest \div ByteBits
             fin == rest % ByteBits
             next == ByteBits * (Byte + 1)
             last == ByteBits * (Byte + whole + 1)
  <2>1. /\ Byte \in Nat /\ bit_pos \in Nat /\ bit_pos < ByteBits /\ bit_at \in Nat
        /\ bit_at = ByteBits * Byte + bit_pos /\ ByteBits \in Nat
        /\ ByteBits * Byte \in Nat /\ count \in Nat
    BY <1>1, CursorPlaces, BitsAssumption
  <2>2. CASE PeekAborts
    <3>1. Byte = Bytes /\ bit_at + count <= ByteBits * Bytes
      BY <1>1, <2>2 DEF PeekAborts, BitsAhead
    <3> QED BY <2>1, <2>2, <3>1
  <2>3. CASE ~PeekAborts /\ count <= bits_left
    <3>1. peek(count) = Run(ByteBits * Byte + bit_pos, count)
      BY <2>3 DEF peek, Bits, Run
    <3> QED BY <2>1, <2>3, <3>1 DEF Run
  <2>4. CASE ~PeekAborts /\ ~(count <= bits_left)
    <3>1. /\ rest \in Nat /\ whole \in Nat /\ fin \in Nat /\ rest = ByteBits * whole + fin
          /\ ByteBits * whole \in Nat /\ next = ByteBits * Byte + ByteBits
          /\ last = ByteBits * Byte + ByteBits * whole + ByteBits
      <4>1. count >= ByteBits - bit_pos
        BY <2>1, <2>4
      <4> QED BY <1>1, <2>1, <4>1, Cut
    <3>2. peek(count) = Bits(Byte, bit_pos, bits_left) \o FlattenSeq(WholeBytes(whole))
                          \o Bits(Byte + whole + 1, 0, fin)
      BY <2>4 DEF peek
    <3> HIDE DEF whole, fin, next, last, rest
    <3>3. Bits(Byte, bit_pos, bits_left) = Run(bit_at, bits_left)
      BY <2>1 DEF Bits, Run
    <3>4. FlattenSeq(WholeBytes(whole)) = Run(next, ByteBits * whole)
      BY <2>1, <3>1, WholeBytesFlat DEF next
    <3>5. Bits(Byte + whole + 1, 0, fin) = Run(last, fin)
      <4>1. Bits(Byte + whole + 1, 0, fin) = [i \in 1..fin |-> mem[last + 0 + i - 1]]
        BY DEF Bits, last
      <4>2. \A i \in 1..fin : last + 0 + i - 1 = last + i - 1
        BY <2>1, <3>1
      <4> QED BY <4>1, <4>2 DEF Run
    <3> DEFINE n == ByteBits * whole
    <3>6. /\ bits_left \in Nat /\ n \in Nat /\ fin \in Nat /\ next = bit_at + bits_left
          /\ last = bit_at + (bits_left + n) /\ count = (bits_left + n) + fin
          /\ bits_left + n \in Nat /\ bit_at \in Int
      BY <2>1, <3>1 DEF rest
    <3> HIDE DEF bits_left, n
    <3>7. Run(bit_at, bits_left) \o Run(next, n) = Run(bit_at, bits_left + n)
      BY <3>6, RunsJoin
    <3>8. Run(bit_at, bits_left + n) \o Run(last, fin) = Run(bit_at, count)
      BY <3>6, RunsJoin
    <3>9. peek(count) = Run(bit_at, count)
      BY <3>2, <3>3, <3>4, <3>5, <3>7, <3>8 DEF n
    <3> QED BY <2>4, <3>9 DEF Run
  <2> QED BY <2>2, <2>3, <2>4
<1>2. CursorInv => PeeksNext
  <2>1. Idle => status = "running"
    BY DEF Idle, Settled
  <2> QED BY <1>1, <2>1 DEF CursorInv, PeeksNext
<1> QED BY <1>2, CursorStaysValid, PTL

-----------------------------------------------------------------------------
(* set *)

\* What a bit of the sequence is after a write that fills the cursor's byte: as it
\* should be, but for the whole bytes, whose bits are taken a byte's width above
\* bits_left.
LEMMA SetBits ==
  ASSUME IteratorInv, BitsInv, Idle, NEW count \in Nat, count >= ByteBits - bit_pos,
         NEW c \in DOMAIN mem
  PROVE  LET rest == count - (ByteBits - bit_pos)
             whole == rest \div ByteBits
             e == c - bit_at
         IN set(count)[c] =
              IF e \in 0..(count - 1)
              THEN IF c - ByteBits * (Byte + 1) \in 0..(ByteBits * whole - 1)
                   THEN BitOf((rest + ByteBits - 1) - e) ELSE BitOf(count - 1 - e)
              ELSE mem[c]
<1> DEFINE D == DOMAIN mem
           S == KnownBits(writes + 1)
           bits_left == ByteBits - bit_pos
           rest == count - (ByteBits - bit_pos)
           whole == rest \div ByteBits
           fin == rest % ByteBits
           next == ByteBits * (Byte + 1)
           behind == Byte + whole + 1
           last == ByteBits * behind
           one == Put(mem, Byte, bit_pos, bits_left, rest)
           two == PutWholeBytes(one, rest, bits_left)
           three == Put(two, behind, 0, fin, 0)
           n == ByteBits * whole
           m == n - 1
           top == (rest + ByteBits) - 1 - bits_left
           e == c - bit_at
<1>1. /\ Byte \in Nat /\ bit_pos \in Nat /\ bit_pos < ByteBits /\ bit_at \in Nat
      /\ bit_at = ByteBits * Byte + bit_pos /\ ByteBits * Byte \in Nat
      /\ ByteBits \in Nat /\ ByteBits > 0
  BY CursorPlaces
<1>2. /\ rest \in Nat /\ whole \in Nat /\ fin \in Nat /\ fin < ByteBits
      /\ rest = n + fin /\ n \in Nat
      /\ next = ByteBits * Byte + ByteBits
      /\ last = ByteBits * Byte + n + ByteBits
  BY Cut
<1>3. /\ D = 0..(ByteBits * Bytes - 1) /\ mem \in [D -> S] /\ D \in SUBSET Int
      /\ \A bit \in Int : BitOf(bit) \in S
  <2>1. writes \in Nat /\ mem \in [0..(ByteBits * Bytes - 1) -> KnownBits(writes)]
    BY DEF BitsInv
  <2>2. ByteBits * Bytes \in Nat
    BY CursorPlaces
  <2>3. D = 0..(ByteBits * Bytes - 1) /\ D \in SUBSET Int
    BY <2>1, <2>2
  <2> HIDE DEF D
  <2> QED BY <2>1, <2>3, BitOfFacts, KnownGrows
<1>4. set(count) = three
  <2>1. ~(count < bits_left)
    BY <1>1
  <2> QED BY <2>1 DEF set
<1> HIDE DEF D, S, rest, whole, fin, next, last, behind, one, two, three
<1>5. c \in D /\ c \in Int
  BY <1>3 DEF D
<1>6. bits_left \in Int /\ rest \in Int
  BY <1>1, <1>2
<1>7. /\ one \in [D -> S]
      /\ one[c] = IF e \in 0..(bits_left - 1) THEN BitOf((rest + bits_left - 1) - e)
                  ELSE mem[c]
  <2>1. one \in [D -> S]
    <3>1. Byte \in Int /\ bit_pos \in Int
      BY <1>1
    <3> HIDE DEF bits_left
    <3>2. Put(mem, Byte, bit_pos, bits_left, rest) \in [D -> S]
      BY ONLY <1>3, <1>6, <3>1, PutFacts
    <3> QED BY <3>2 DEF one
  <2>2. one[c] = IF c - (ByteBits * Byte + bit_pos) \in 0..(bits_left - 1)
                 THEN BitOf(rest + bits_left - 1 - (c - (ByteBits * Byte + bit_pos)))
                 ELSE mem[c]
    BY <1>5 DEF one, Put, D
  <2>3. rest + bits_left - 1 - e = (rest + bits_left - 1) - e
    BY <1>1, <1>5, <1>6
  <2>4. c - (ByteBits * Byte + bit_pos) = e
    BY <1>1
  <2> HIDE DEF bits_left, e
  <2> QED BY <2>1, <2>2, <2>3, <2>4
<1>8. /\ two \in [D -> S]
      /\ two[c] = IF c - next \in 0..m THEN BitOf(top - (c - next)) ELSE one[c]
  <2>1. Byte \in Int
    BY <1>1
  <2>3. one \in [D -> S]
    BY <1>7
  <2> HIDE DEF top, m, n, bits_left, e
  <2>4. /\ two \in [D -> S] /\ two[c] = LoopBit(one, rest, bits_left, c)
    <3>1. rest \in Nat /\ bits_left \in Int /\ D \in SUBSET Int
      BY <1>2, <1>3, <1>6
    <3>2. \A bit \in Int : BitOf(bit) \in S
      BY <1>3
    <3>3. PutWholeBytes(one, rest, bits_left) \in [D -> S]
      BY ONLY <2>1, <2>3, <3>1, <3>2, WholeBytesPut
    <3>4. \A k \in D : PutWholeBytes(one, rest, bits_left)[k] = LoopBit(one, rest, bits_left, k)
      BY ONLY <2>1, <2>3, <3>1, <3>2, WholeBytesPut
    <3> QED BY <1>5, <3>3, <3>4 DEF two
  <2>5. LoopBit(one, rest, bits_left, c) =
          IF c - next \in 0..m THEN BitOf(top - (c - next)) ELSE one[c]
    <3> DEFINE ahead == c - next
    <3>1. LoopBit(one, rest, bits_left, c) =
            IF ahead \in 0..m
            THEN BitOf((rest + ByteBits) - 1 - bits_left - ahead) ELSE one[c]
      BY DEF LoopBit, next, m, n, whole
    <3>2. top - ahead = (rest + ByteBits) - 1 - bits_left - ahead
      BY <1>1, <1>2, <1>5, <1>6 DEF top
    <3> HIDE DEF ahead
    <3>3. LoopBit(one, rest, bits_left, c) = IF ahead \in 0..m THEN BitOf(top - ahead) ELSE one[c]
      BY <3>1, <3>2
    <3> QED BY <3>3 DEF ahead
  <2> QED BY <2>4, <2>5
<1>9. three[c] = IF c - last \in 0..(fin - 1) THEN BitOf(0 + fin - 1 - (c - last)) ELSE two[c]
  <2>1. DOMAIN two = D
    BY <1>8
  <2>2. three[c] = IF c - (last + 0) \in 0..(fin - 1)
                   THEN BitOf(0 + fin - 1 - (c - (last + 0))) ELSE two[c]
    BY <1>5, <2>1 DEF three, Put, last
  <2>3. last + 0 = last
    BY <1>1, <1>2
  <2> QED BY <2>2, <2>3
<1> DEFINE byte == c - next
           tail == c - last
<1>10. /\ byte = e - bits_left /\ tail = e - (bits_left + n) /\ e \in Int
       /\ count = bits_left + n + fin /\ count = rest + bits_left
       /\ bits_left \in Nat /\ bits_left > 0 /\ bits_left <= ByteBits
  BY <1>1, <1>2, <1>5 DEF rest
<1> HIDE DEF e, byte, tail, bits_left, n
<1>11. /\ top - byte = (rest + ByteBits - 1) - e
       /\ (rest + bits_left - 1) - e = count - 1 - e
       /\ 0 + fin - 1 - tail = count - 1 - e
  BY <1>1, <1>2, <1>10
<1>12. /\ e \in 0..(bits_left - 1) => e \in 0..(count - 1) /\ ~(byte \in 0..m) /\ ~(tail \in 0..(fin - 1))
       /\ byte \in 0..m => e \in 0..(count - 1) /\ ~(tail \in 0..(fin - 1))
       /\ tail \in 0..(fin - 1) => e \in 0..(count - 1) /\ ~(byte \in 0..m)
       /\ e \in 0..(count - 1) =>
            e \in 0..(bits_left - 1) \/ byte \in 0..m \/ tail \in 0..(fin - 1)
  BY <1>1, <1>2, <1>10
<1> HIDE DEF m, top
<1>13. set(count)[c] = IF e \in 0..(count - 1)
                       THEN IF byte \in 0..m
                            THEN BitOf((rest + ByteBits - 1) - e) ELSE BitOf(count - 1 - e)
                       ELSE mem[c]
  <2>1. /\ set(count)[c] = IF tail \in 0..(fin - 1) THEN BitOf(0 + fin - 1 - tail) ELSE two[c]
        /\ two[c] = IF byte \in 0..m THEN BitOf(top - byte) ELSE one[c]
        /\ one[c] = IF e \in 0..(bits_left - 1) THEN BitOf((rest + bits_left - 1) - e)
                    ELSE mem[c]
    BY <1>4, <1>7, <1>8, <1>9 DEF tail, byte
  <2> QED BY ONLY <1>11, <1>12, <2>1
<1> QED BY <1>13 DEF e, byte, m, n, next, rest, whole

\* The cases of a write that fills the cursor's byte: it is right from the front of
\* a byte, or if it has no whole bytes behind; otherwise the first of these differs.
LEMMA LongWrite ==
  ASSUME IteratorInv, BitsInv, Idle, NEW count \in 0..MaxCount, BitsAhead(count),
         count >= ByteBits - bit_pos, Byte < Bytes
  PROVE  Sound(count) <=> ~SetAborts(count) /\ set(count) = LowBitsSet(count)
<1> DEFINE D == DOMAIN mem
           S == KnownBits(writes + 1)
           rest == count - (ByteBits - bit_pos)
           whole == rest \div ByteBits
           fin == rest % ByteBits
           next == ByteBits * (Byte + 1)
           n == ByteBits * whole
           end == ByteBits * (Byte + whole + 1)
           total == ByteBits * Bytes
           same == writes * MaxCount
<1>1. /\ Byte \in Nat /\ Bytes \in Nat /\ bit_pos \in Nat /\ bit_pos < ByteBits
      /\ bit_at \in Nat /\ bit_at = ByteBits * Byte + bit_pos /\ ByteBits * Byte \in Nat
      /\ ByteBits \in Nat /\ ByteBits > 0 /\ total \in Nat
      /\ count \in Nat /\ MaxCount \in Nat /\ count <= MaxCount /\ writes \in Nat
  BY CursorPlaces, BitsAssumption DEF BitsInv
<1>2. /\ rest \in Nat /\ whole \in Nat /\ fin \in Nat /\ fin < ByteBits
      /\ rest = n + fin /\ n \in Nat /\ next = ByteBits * Byte + ByteBits
      /\ end = ByteBits * Byte + n + ByteBits
      /\ bit_at + count = end + fin /\ (whole = 0 <=> rest < ByteBits)
  BY <1>1, Cut
<1>3. bit_at + count <= total
  BY DEF BitsAhead
<1>4. /\ D = 0..(total - 1) /\ mem \in [D -> S] /\ D \in SUBSET Int
      /\ \A bit \in Int : BitOf(bit) \in S
      /\ \A bit \in 0..(MaxCount - 1) : BitOf(bit) = same + bit + 1
      /\ same \in Nat
  <2>1. writes \in Nat /\ mem \in [0..(ByteBits * Bytes - 1) -> KnownBits(writes)]
    BY DEF BitsInv
  <2>2. D = 0..(total - 1) /\ D \in SUBSET Int
    BY <1>1, <2>1
  <2> HIDE DEF D
  <2> QED BY <2>1, <2>2, BitOfFacts, KnownGrows
<1> DEFINE behind == Byte + whole + 1
<1>5. SetAborts(count) <=> behind = Bytes
  <2>1. rest >= 0 /\ Byte # Bytes
    BY <1>1, <1>2
  <2> HIDE DEF whole
  <2> QED BY <2>1 DEF SetAborts, whole
<1>6. SetAborts(count) <=> ~(bit_at + count < total)
  <2>1. behind \in Int /\ behind = Bytes => end = total
    BY <1>1, <1>2
  <2>2. behind > Bytes => total + ByteBits <= end
    BY <1>1, <2>1, Times
  <2>3. behind < Bytes => end + ByteBits <= total
    BY <1>1, <2>1, Times
  <2>4. behind < Bytes \/ behind = Bytes \/ behind > Bytes
    BY <1>1, <1>2
  <2>5. end \in Int
    BY <1>1, <1>2
  <2> HIDE DEF behind, end, total, rest
  <2> QED BY <1>1, <1>2, <1>3, <1>5, <2>1, <2>2, <2>3, <2>4, <2>5
<1>7. Sound(count) <=> ~SetAborts(count) /\ (bit_pos = 0 \/ whole = 0)
  <2>1. count = 0 => FALSE
    BY <1>1
  <2>2. bit_pos + count = ByteBits + rest
    BY <1>1
  <2>3. bit_pos + count \in ByteBits..(2 * ByteBits - 1) <=> rest < ByteBits
    <3> HIDE DEF rest
    <3> QED BY <1>1, <1>2, <2>2
  <2> HIDE DEF rest, whole
  <2> QED BY <1>2, <1>6, <2>1, <2>3 DEF Sound, total
<1> DEFINE e(c) == c - bit_at
<1>8. ASSUME NEW c \in D
      PROVE  set(count)[c] = IF e(c) \in 0..(count - 1)
                             THEN IF c - next \in 0..(n - 1)
                                  THEN BitOf((rest + ByteBits - 1) - e(c))
                                  ELSE BitOf(count - 1 - e(c))
                             ELSE mem[c]
  <2>1. c \in DOMAIN mem
    OBVIOUS
  <2> HIDE DEF D
  <2> QED BY <1>1, <2>1, SetBits
<1>9. LowBitsSet(count) = [c \in D |-> IF e(c) \in 0..(count - 1)
                                       THEN BitOf(count - 1 - e(c)) ELSE mem[c]]
  BY DEF LowBitsSet
<1>10. set(count) \in [D -> S]
  <2>1. Byte \in Int /\ bit_pos \in Int
    BY <1>1
  <2> HIDE DEF D, S
  <2> QED BY <1>1, <1>4, <2>1, SetTyped
<1>11. count = (ByteBits - bit_pos) + rest
  BY <1>1
<1> HIDE DEF D, S, rest, whole, fin, next, n, end, total, same
<1>12. ASSUME bit_pos = 0 \/ whole = 0
       PROVE  set(count) = LowBitsSet(count)
  <2>1. ASSUME NEW c \in D PROVE set(count)[c] = LowBitsSet(count)[c]
    <3>1. CASE whole = 0
      <4>1. n = 0
        BY <1>1, <3>1 DEF n
      <4>2. ~(c - next \in 0..(n - 1))
        BY <4>1
      <4> QED BY <1>8, <1>9, <4>2
    <3>2. CASE bit_pos = 0
      <4>1. rest + ByteBits = count
        BY <1>1, <1>2, <1>11, <3>2
      <4>2. (rest + ByteBits - 1) - e(c) = count - 1 - e(c)
        <5>1. c \in Int
          BY <1>4
        <5> QED BY <1>1, <1>2, <4>1, <5>1
      <4> QED BY <1>8, <1>9, <4>2
    <3> QED BY <1>12, <3>1, <3>2
  <2>2. set(count) = [c \in D |-> set(count)[c]]
    BY <1>10
  <2>3. LowBitsSet(count) = [c \in D |-> LowBitsSet(count)[c]]
    BY <1>9
  <2>4. [c \in D |-> set(count)[c]] = [c \in D |-> LowBitsSet(count)[c]]
    BY <2>1
  <2> QED BY <2>2, <2>3, <2>4
<1>13. ASSUME bit_pos # 0, whole # 0
       PROVE  set(count) # LowBitsSet(count)
  <2>1. n >= ByteBits
    <3>1. whole > 0 /\ whole \in Int
      BY <1>2, <1>13
    <3>2. ByteBits * 0 + ByteBits <= ByteBits * whole /\ ByteBits * 0 = 0
      BY <3>1, Times
    <3> QED BY <1>1, <1>2, <3>2 DEF n
  <2> DEFINE q == e(next)
             high == (rest + ByteBits - 1) - q
             right == count - 1 - q
  <2>2. next \in D
    BY <1>1, <1>2, <1>3, <1>4, <2>1
  <2>3. q = ByteBits - bit_pos /\ q \in 0..(count - 1) /\ next - next \in 0..(n - 1)
    BY <1>1, <1>2, <1>11, <2>1
  <2>4. set(count)[next] = BitOf(high) /\ LowBitsSet(count)[next] = BitOf(right)
    BY <1>8, <1>9, <2>2, <2>3
  <2>5. high = right + bit_pos /\ right \in 0..(MaxCount - 1) /\ high \in Int
        /\ high = (rest + bit_pos) - 1
    <3> HIDE DEF q
    <3> QED BY <1>1, <1>2, <1>11, <2>3
  <2> HIDE DEF high, right
  <2>6. high >= 0
    BY <1>1, <1>2, <2>1, <2>5
  <2>7. BitOf(high) # BitOf(right)
    <3>1. BitOf(right) = same + right + 1
      BY <1>4, <2>5
    <3>2. CASE high < MaxCount
      <4>1. BitOf(high) = same + high + 1
        BY <1>1, <1>4, <2>5, <2>6, <3>2
      <4> QED BY <1>1, <1>4, <1>13, <2>5, <3>1, <4>1
    <3>3. CASE ~(high < MaxCount)
      <4>1. BitOf(high) = 0
        BY <3>3 DEF BitOf, Zero
      <4>2. same + right + 1 # 0
        BY <1>1, <1>4, <2>5
      <4> QED BY <3>1, <4>1, <4>2
    <3> QED BY <3>2, <3>3
  <2> QED BY <2>4, <2>7
<1> QED BY <1>7, <1>12, <1>13

\* The cases of a write that stays in the cursor's byte: it goes to the front of
\* the byte, so that it is right there, or if there is nothing to write.
LEMMA ShortWrite ==
  ASSUME IteratorInv, BitsInv, Idle, NEW count \in 0..MaxCount,
         count < ByteBits - bit_pos, Byte < Bytes
  PROVE  Sound(count) <=> ~SetAborts(count) /\ set(count) = LowBitsSet(count)
<1> DEFINE D == DOMAIN mem
           here == ByteBits * Byte
           total == ByteBits * Bytes
           same == writes * MaxCount
           d(c) == c - here
           e(c) == c - bit_at
<1>1. /\ Byte \in Nat /\ Bytes \in Nat /\ bit_pos \in Nat /\ bit_pos < ByteBits
      /\ bit_at \in Nat /\ bit_at = here + bit_pos /\ here \in Nat
      /\ ByteBits \in Nat /\ ByteBits > 0 /\ total \in Nat /\ here + ByteBits <= total
      /\ count \in Nat /\ MaxCount \in Nat /\ count <= MaxCount /\ writes \in Nat
  <2>1. /\ Byte \in Nat /\ Bytes \in Nat /\ bit_pos \in Nat /\ bit_pos < ByteBits
        /\ bit_at \in Nat /\ bit_at = here + bit_pos /\ here \in Nat
        /\ ByteBits \in Nat /\ ByteBits > 0 /\ total \in Nat
    BY CursorPlaces
  <2>2. here + ByteBits <= total
    BY <2>1, Times
  <2>3. writes \in Nat /\ MaxCount \in Nat
    BY BitsAssumption DEF BitsInv
  <2>4. count \in Nat /\ count <= MaxCount
    BY <2>3
  <2> QED BY <2>1, <2>2, <2>3, <2>4
<1>2. ~SetAborts(count)
  <2>1. ~(count - (ByteBits - bit_pos) >= 0) /\ Byte # Bytes
    BY <1>1
  <2> QED BY <2>1 DEF SetAborts
<1>3. /\ D = 0..(total - 1) /\ \A c \in D : mem[c] \in Int /\ mem[c] <= same
      /\ \A bit \in 0..(MaxCount - 1) : BitOf(bit) = same + bit + 1
      /\ same \in Nat
  <2>1. writes \in Nat /\ mem \in [0..(ByteBits * Bytes - 1) -> KnownBits(writes)]
    BY DEF BitsInv
  <2> QED BY <2>1, BitOfFacts DEF KnownBits
<1>4. LowBitsSet(count) = [c \in D |-> IF e(c) \in 0..(count - 1)
                                       THEN BitOf(count - 1 - e(c)) ELSE mem[c]]
  BY DEF LowBitsSet
<1>5. set(count) = [c \in D |-> IF d(c) \in 0..(count - 1)
                                THEN BitOf(count - 1 - d(c)) ELSE mem[c]]
  <2>1. set(count) = Put(mem, Byte, 0, count, 0)
    BY <1>1 DEF set
  <2>2. set(count) = [c \in D |-> IF c - (here + 0) \in 0..(count - 1)
                                  THEN BitOf(0 + count - 1 - (c - (here + 0))) ELSE mem[c]]
    BY <2>1 DEF Put
  <2>3. here + 0 = here
    BY <1>1
  <2>4. ASSUME NEW c \in D PROVE 0 + count - 1 - (c - here) = count - 1 - d(c)
    <3>1. c \in Int
      BY <1>1, <1>3
    <3> HIDE DEF here
    <3> QED BY <1>1, <3>1
  <2> HIDE DEF D, here
  <2> QED BY <2>2, <2>3, <2>4
<1>6. Sound(count) <=> bit_pos = 0 \/ count = 0
  <2>1. ~(bit_pos + count \in ByteBits..(2 * ByteBits - 1)) /\ bit_at + count < total
    <3> HIDE DEF here, total
    <3> QED BY <1>1
  <2> QED BY <2>1 DEF Sound
<1> HIDE DEF D, here, total, same
<1>7. ASSUME bit_pos = 0 \/ count = 0 PROVE set(count) = LowBitsSet(count)
  <2>1. CASE bit_pos = 0
    <3>1. bit_at = here
      BY <1>1, <2>1
    <3> QED BY <1>4, <1>5, <3>1
  <2>2. CASE count = 0
    <3>1. 0..(count - 1) = {}
      BY <2>2
    <3> QED BY <1>4, <1>5, <3>1
  <2> QED BY <1>7, <2>1, <2>2
<1>8. ASSUME bit_pos # 0, count # 0 PROVE set(count) # LowBitsSet(count)
  <2>1. bit_at \in D
    BY <1>1, <1>3
  <2>2. e(bit_at) = 0 /\ 0 \in 0..(count - 1) /\ count - 1 - 0 = count - 1
        /\ count - 1 \in 0..(MaxCount - 1) /\ d(bit_at) = bit_pos
    BY <1>1, <1>8
  <2>3. LowBitsSet(count)[bit_at] = same + (count - 1) + 1
    BY <1>3, <1>4, <2>1, <2>2
  <2>4. CASE bit_pos \in 0..(count - 1)
    <3>1. set(count)[bit_at] = BitOf(count - 1 - bit_pos) /\ count - 1 - bit_pos \in 0..(MaxCount - 1)
      BY <1>1, <1>5, <2>1, <2>2, <2>4
    <3>2. set(count)[bit_at] = same + (count - 1 - bit_pos) + 1
      BY <1>3, <3>1
    <3> QED BY <1>1, <1>3, <1>8, <2>3, <3>2
  <2>5. CASE ~(bit_pos \in 0..(count - 1))
    <3>1. set(count)[bit_at] = mem[bit_at]
      BY <1>5, <2>1, <2>2, <2>5
    <3>2. mem[bit_at] <= same /\ mem[bit_at] \in Int
      BY <1>3, <2>1
    <3>3. same < same + (count - 1) + 1
      BY <1>1, <1>3, <1>8
    <3>4. mem[bit_at] # same + (count - 1) + 1
      BY <1>1, <1>3, <3>2, <3>3
    <3> QED BY <2>3, <3>1, <3>4
  <2> QED BY <2>4, <2>5
<1> QED BY <1>2, <1>6, <1>7, <1>8

\* set() puts the low count bits at the cursor and leaves every other bit,
\* where it is sound, and only there (buffer_bits.hpp:98-153).
THEOREM SetSound == BitsSpec => []SetsWhereSound
<1>1. ASSUME IteratorInv, BitsInv, Idle, NEW count \in 0..MaxCount, BitsAhead(count)
      PROVE  Sound(count) <=> ~SetAborts(count) /\ set(count) = LowBitsSet(count)
  <2>1. /\ Byte \in Nat /\ Bytes \in Nat /\ Byte <= Bytes /\ bit_pos \in Nat /\ bit_at \in Nat
        /\ Byte = Bytes => bit_pos = 0
        /\ bit_at = ByteBits * Byte + bit_pos /\ ByteBits * Bytes \in Nat
        /\ ByteBits \in Nat /\ count \in Nat /\ count \in Int
    BY <1>1, CursorPlaces, BitsAssumption
  <2>2. CASE Byte = Bytes
    <3>1. SetAborts(count)
      BY <2>2 DEF SetAborts
    <3>2. ~(bit_at + count < ByteBits * Bytes)
      BY <2>1, <2>2
    <3> QED BY <3>1, <3>2 DEF Sound
  <2>3. CASE Byte # Bytes /\ count < ByteBits - bit_pos
    <3>1. Byte < Bytes
      BY <2>1, <2>3
    <3> QED BY <1>1, <2>3, <3>1, ShortWrite
  <2>4. CASE Byte # Bytes /\ ~(count < ByteBits - bit_pos)
    <3>1. Byte < Bytes /\ count >= ByteBits - bit_pos
      BY <2>1, <2>4
    <3> QED BY <1>1, <3>1, LongWrite
  <2> QED BY <2>2, <2>3, <2>4
<1>2. CursorInv => SetsWhereSound
  <2>1. Idle => status = "running"
    BY DEF Idle, Settled
  <2> QED BY <1>1, <2>1 DEF CursorInv, SetsWhereSound
<1> QED BY <1>2, CursorStaysValid, PTL

\* "Set the low `count` bits from `bits` into the output and advance by `count`
\* bits" (buffer_bits.hpp:195) is what a write does if set() is sound.
THEOREM SoundWritesLowBits == AnyWrite = FALSE => (BitsSpec => WritesLowBits)
<1> SUFFICES ASSUME AnyWrite = FALSE PROVE BitsSpec => WritesLowBits
  OBVIOUS
<1>1. ASSUME SetsWhereSound, NEW count \in 0..MaxCount, Write(count), ~SetAborts(count)
      PROVE  mem' = LowBitsSet(count)
  <2>1. Idle /\ BitsAhead(count) /\ Sound(count) /\ mem' = set(count)
    BY <1>1 DEF Write
  <2> QED BY <1>1, <2>1 DEF SetsWhereSound
<1>2. SetsWhereSound /\ [BitsNext]_bits_vars =>
        [\A count \in 0..MaxCount : Write(count) /\ ~SetAborts(count) =>
           mem' = LowBitsSet(count)]_bits_vars
  BY <1>1
<1> QED BY <1>2, SetSound, PTL DEF BitsSpec, WritesLowBits

-----------------------------------------------------------------------------
(* The bytes of views *)

\* The sizes of views.
LEMMA SizesFacts ==
  ASSUME NEW V \in Seq(Views)
  PROVE  /\ SizesOf(V) \in Seq(Nat) /\ Len(SizesOf(V)) = Len(V) /\ Len(V) \in Nat
         /\ \A i \in 1..Len(V) : /\ SizesOf(V)[i] = V[i].size /\ V[i] \in Views
                                 /\ V[i].size \in Nat /\ V[i].from \in Nat
<1>1. /\ Len(V) \in Nat /\ DOMAIN V = 1..Len(V)
      /\ \A i \in 1..Len(V) : V[i] \in Views
  BY LenProperties, ElementOfSeq
<1>2. SizesOf(V) = [i \in 1..Len(V) |-> V[i].size]
  BY <1>1 DEF SizesOf
<1>3. \A i \in 1..Len(V) : V[i].size \in Nat /\ V[i].from \in Nat
  BY <1>1 DEF Views
<1> QED BY <1>1, <1>2, <1>3, IsASeq

\* The bytes in the first k buffers of some views.
LEMMA SumFacts ==
  ASSUME NEW V \in Seq(Views)
  PROVE  /\ Before(SizesOf(V), 0) = 0
         /\ \A k \in 0..Len(V) : Before(SizesOf(V), k) \in Nat
         /\ \A k \in 1..Len(V) : Before(SizesOf(V), k) = Before(SizesOf(V), k - 1) + V[k].size
         /\ \A k \in 0..Len(V), j \in 0..Len(V) :
              j <= k => Before(SizesOf(V), j) <= Before(SizesOf(V), k)
         /\ buffer_size(SizesOf(V)) = Before(SizesOf(V), Len(V))
         /\ buffer_size(SizesOf(V)) \in Nat
<1>1. SizesOf(V) \in Seq(Nat) /\ Len(SizesOf(V)) = Len(V) /\ Len(V) \in Nat
  BY SizesFacts
<1>2. ASSUME NEW k \in 0..Len(V), NEW j \in 0..Len(V), j <= k
      PROVE  Before(SizesOf(V), j) <= Before(SizesOf(V), k)
  <2>1. j \in 0..k
    BY <1>1, <1>2
  <2> QED BY <1>1, <2>1, BeforeMonotone
<1>3. \A k \in 1..Len(V) : SizesOf(V)[k] = V[k].size
  BY SizesFacts
<1> QED BY <1>1, <1>2, <1>3, BeforeFacts

\* The bytes of one view.
LEMMA ViewedFacts ==
  ASSUME NEW v \in Views
  PROVE  /\ ViewedBytes(v) \in Seq(Nat) /\ Len(ViewedBytes(v)) = v.size
         /\ \A o \in 1..v.size : ViewedBytes(v)[o] = v.from + o - 1
<1>1. v.size \in Nat /\ v.from \in Nat
  BY DEF Views
<1>2. \A o \in 1..v.size : v.from + o - 1 \in Nat
  BY <1>1
<1> QED BY <1>1, <1>2, IsASeq DEF ViewedBytes

\* The sequences of a flattening, and what it makes of the first few of them.
LEMMA Flattening ==
  ASSUME NEW S, NEW s \in Seq(Seq(S)), Len(s) # 0
  PROVE  \E f \in [1..Len(s) -> Seq(S)] :
           /\ f[1] = s[1] /\ \A k \in 2..Len(s) : f[k] = f[k - 1] \o s[k]
           /\ FlattenSeq(s) = f[Len(s)]
<1> DEFINE L == Len(s)
           Following(f) == [i \in 1..L |-> IF i = 1 THEN s[i] ELSE f[i - 1] \o s[i]]
           flatten == CHOOSE f : f = Following(f)
           F == [i \in 1..(L - 1) |-> [x \in Seq(S) |-> x \o s[i + 1]]]
<1>1. L \in Nat \ {0} /\ \A i \in 1..L : s[i] \in Seq(S)
  BY LenProperties, ElementOfSeq
<1>2. FlattenSeq(s) = flatten[L]
  BY <1>1 DEF FlattenSeq
<1> HIDE DEF L
<1>3. F \in [1..(L - 1) -> [Seq(S) -> Seq(S)]]
  <2>1. ASSUME NEW i \in 1..(L - 1), NEW x \in Seq(S) PROVE x \o s[i + 1] \in Seq(S)
    <3>1. i + 1 \in 1..L
      BY <1>1
    <3> QED BY <1>1, <3>1, ConcatProperties
  <2> QED BY <2>1
<1>4. PICK g \in [0..(L - 1) -> Seq(S)] :
        g[0] = s[1] /\ \A i \in 1..(L - 1) : g[i] = F[i][g[i - 1]]
  <2> DEFINE m == L - 1
             X == Seq(S)
  <2>1. s[1] \in X /\ m \in Nat /\ F \in [1..m -> [X -> X]]
    BY <1>1, <1>3
  <2> HIDE DEF F, m, X
  <2>2. Steps(X, m, s[1], F) # {}
    BY ONLY <2>1, StepsExist
  <2> QED BY <2>2 DEF m, X, Steps
<1> DEFINE h == [k \in 1..L |-> g[k - 1]]
<1>5. /\ h \in [1..L -> Seq(S)] /\ h[1] = s[1]
      /\ \A k \in 2..L : h[k] = h[k - 1] \o s[k]
  <2>1. \A k \in 1..L : k - 1 \in 0..(L - 1)
    BY <1>1
  <2>2. h \in [1..L -> Seq(S)] /\ h[1] = s[1]
    BY <1>1, <1>4, <2>1
  <2>3. ASSUME NEW k \in 2..L PROVE h[k] = h[k - 1] \o s[k]
    <3>1. k - 1 \in 1..(L - 1) /\ (k - 1) - 1 \in 0..(L - 1) /\ (k - 1) + 1 = k
          /\ k \in 1..L /\ k - 1 \in 1..L
      BY <1>1
    <3>2. g[k - 1] = F[k - 1][g[(k - 1) - 1]] /\ g[(k - 1) - 1] \in Seq(S)
      BY <1>4, <3>1
    <3>3. F[k - 1][g[(k - 1) - 1]] = g[(k - 1) - 1] \o s[k]
      BY <3>1, <3>2
    <3> QED BY <3>1, <3>2, <3>3
  <2> QED BY <2>2, <2>3
<1> HIDE DEF h
<1>6. h = Following(h)
  <2>1. ASSUME NEW i \in 1..L PROVE h[i] = Following(h)[i]
    <3>1. i = 1 \/ i \in 2..L
      BY <1>1
    <3> QED BY <1>5, <3>1
  <2>2. h = [i \in 1..L |-> h[i]]
    BY <1>5
  <2> QED BY <2>1, <2>2
<1>7. flatten = Following(flatten)
  <2> HIDE DEF Following
  <2> QED BY <1>6
<1> HIDE DEF flatten
<1>8. /\ flatten[1] = s[1] /\ \A k \in 2..L : flatten[k] = flatten[k - 1] \o s[k]
      /\ DOMAIN flatten = 1..L
  <2>1. 1 \in 1..L /\ \A k \in 2..L : k \in 1..L /\ k # 1
    BY <1>1
  <2>2. /\ \A k \in 1..L : flatten[k] = IF k = 1 THEN s[k] ELSE flatten[k - 1] \o s[k]
        /\ DOMAIN flatten = 1..L /\ flatten = [i \in 1..L |-> flatten[i]]
    BY ONLY <1>7
  <2> QED BY <2>1, <2>2
<1>9. flatten \in [1..L -> Seq(S)]
  <2> DEFINE T == {n \in 0..(L - 1) : flatten[n + 1] \in Seq(S)}
  <2>1. 0 \in T
    BY <1>1, <1>8
  <2>2. ASSUME NEW n \in 1..(L - 1), n - 1 \in T PROVE n \in T
    <3>1. n + 1 \in 2..L /\ n + 1 \in 1..L /\ (n + 1) - 1 = (n - 1) + 1 /\ n \in 0..(L - 1)
      BY <1>1
    <3>2. flatten[n + 1] = flatten[(n - 1) + 1] \o s[n + 1]
      BY <1>8, <3>1
    <3>3. flatten[(n - 1) + 1] \in Seq(S) /\ s[n + 1] \in Seq(S)
      BY <1>1, <2>2, <3>1
    <3>4. flatten[n + 1] \in Seq(S)
      BY <3>2, <3>3, ConcatProperties
    <3> QED BY <3>1, <3>4
  <2>3. 0..(L - 1) \subseteq T
    <3>1. L - 1 \in Nat
      BY <1>1
    <3> HIDE DEF T
    <3> QED BY <2>1, <2>2, <3>1, UpTo
  <2>4. ASSUME NEW i \in 1..L PROVE flatten[i] \in Seq(S)
    <3>1. i - 1 \in 0..(L - 1) /\ (i - 1) + 1 = i
      BY <1>1
    <3> QED BY <2>3, <3>1
  <2>5. flatten = [i \in 1..L |-> flatten[i]]
    BY ONLY <1>7
  <2> QED BY <2>4, <2>5
<1> QED BY <1>2, <1>8, <1>9 DEF L

\* The byte at a place in a buffer is so many bytes on in the bytes of all.
LEMMA BytesFacts ==
  ASSUME NEW V \in Seq(Views)
  PROVE  /\ BytesIn(V) \in Seq(Nat) /\ Len(BytesIn(V)) = Before(SizesOf(V), Len(V))
         /\ \A i \in 1..Len(V) : \A o \in 1..V[i].size :
              BytesIn(V)[Before(SizesOf(V), i - 1) + o] = V[i].from + o - 1
<1> DEFINE L == Len(V)
           B(k) == Before(SizesOf(V), k)
           s == [i \in DOMAIN V |-> ViewedBytes(V[i])]
<1>1. L \in Nat /\ \A i \in 1..L : V[i] \in Views /\ V[i].size \in Nat
  BY SizesFacts
<1>2. B(0) = 0 /\ (\A k \in 0..L : B(k) \in Nat) /\ \A k \in 1..L : B(k) = B(k - 1) + V[k].size
  BY SumFacts
<1>3. BytesIn(V) = FlattenSeq(s)
  BY DEF BytesIn
<1>4. s \in Seq(Seq(Nat)) /\ Len(s) = L /\ \A i \in 1..L : s[i] = ViewedBytes(V[i])
  <2>1. DOMAIN V = 1..L
    BY LenProperties
  <2>2. s = [i \in 1..L |-> ViewedBytes(V[i])]
    BY <2>1
  <2>3. \A i \in 1..L : ViewedBytes(V[i]) \in Seq(Nat)
    BY <1>1, ViewedFacts
  <2> HIDE DEF L, s
  <2>4. s \in [1..L -> Seq(Nat)]
    BY <2>2, <2>3
  <2>5. s \in Seq(Seq(Nat))
    BY ONLY <1>1, <2>4, SeqDef
  <2>6. DOMAIN s = 1..L /\ Len(s) \in Nat /\ DOMAIN s = 1..Len(s)
    BY ONLY <2>4, <2>5, LenProperties
  <2>7. Len(s) = L
    BY ONLY <1>1, <2>6
  <2> QED BY <2>2, <2>5, <2>7
<1> HIDE DEF L, B, s
<1>5. CASE L = 0
  <2>1. BytesIn(V) = s /\ s = << >>
    <3>1. Len(s) = 0
      BY <1>4, <1>5
    <3> QED BY <1>3, <1>4, <3>1, EmptySeq DEF FlattenSeq
  <2>2. Len(<< >>) = 0 /\ << >> \in Seq(Nat)
    BY EmptySeq
  <2> QED BY <1>2, <1>5, <2>1, <2>2 DEF L, B
<1>6. CASE L # 0
  <2>1. PICK f \in [1..L -> Seq(Nat)] :
          /\ f[1] = s[1] /\ \A k \in 2..L : f[k] = f[k - 1] \o s[k]
          /\ FlattenSeq(s) = f[L]
    BY <1>4, <1>6, Flattening
  <2> DEFINE Flat(k) == /\ Len(f[k]) = B(k)
                        /\ \A i \in 1..k : \A o \in 1..V[i].size :
                             f[k][B(i - 1) + o] = V[i].from + o - 1
             T == {n \in 0..(L - 1) : Flat(n + 1)}
  <2>2. ASSUME NEW k \in 1..L
        PROVE  /\ s[k] \in Seq(Nat) /\ Len(s[k]) = V[k].size
               /\ \A o \in 1..V[k].size : s[k][o] = V[k].from + o - 1
    BY <1>1, <1>4, ViewedFacts
  <2>3. 0 \in T
    <3>1. 1 \in 1..L /\ 1 - 1 = 0 /\ 0 \in 0..(L - 1) /\ 0 + 1 = 1 /\ 1 \in 0..L
      BY <1>1, <1>6
    <3>2. B(1) = V[1].size /\ V[1].size \in Nat
      BY <1>1, <1>2, <3>1
    <3>3. Len(f[1]) = B(1)
      BY <2>1, <2>2, <3>1, <3>2
    <3>4. ASSUME NEW i \in 1..1, NEW o \in 1..V[i].size
          PROVE  f[1][B(i - 1) + o] = V[i].from + o - 1
      <4>1. i = 1 /\ B(i - 1) = 0 /\ o \in 1..V[1].size /\ 0 + o = o
        BY <1>2, <3>1, <3>2
      <4>2. s[1][o] = V[1].from + o - 1
        BY <2>2, <3>1, <4>1
      <4>3. B(i - 1) + o = o
        BY <4>1
      <4> QED BY <2>1, <4>1, <4>2, <4>3
    <3> QED BY <3>1, <3>3, <3>4
  <2>4. ASSUME NEW n \in 1..(L - 1), n - 1 \in T PROVE n \in T
    <3> DEFINE k == n + 1
    <3>1. /\ k \in 2..L /\ k \in 1..L /\ k - 1 \in 1..L /\ k - 1 \in 0..L /\ k \in 0..L
          /\ k - 1 = (n - 1) + 1 /\ n \in 0..(L - 1) /\ k \in Nat
      BY <1>1
    <3>2. Flat(k - 1)
      BY <2>4, <3>1
    <3> HIDE DEF k
    <3>3. /\ f[k] = f[k - 1] \o s[k] /\ f[k - 1] \in Seq(Nat) /\ s[k] \in Seq(Nat)
          /\ Len(f[k - 1]) = B(k - 1) /\ Len(s[k]) = V[k].size
      BY <2>1, <2>2, <3>1, <3>2
    <3>4. /\ B(k) = B(k - 1) + V[k].size /\ B(k - 1) \in Nat /\ V[k].size \in Nat
      BY <1>1, <1>2, <3>1
    <3>5. /\ Len(f[k]) = B(k)
          /\ \A p \in 1..B(k) :
               f[k][p] = IF p <= B(k - 1) THEN f[k - 1][p] ELSE s[k][p - B(k - 1)]
      <4> DEFINE a == f[k - 1]
                 b == s[k]
      <4>1. a \in Seq(Nat) /\ b \in Seq(Nat)
        BY <3>3
      <4>2. /\ Len(a \o b) = Len(a) + Len(b)
            /\ \A p \in 1..(Len(a) + Len(b)) :
                 (a \o b)[p] = IF p <= Len(a) THEN a[p] ELSE b[p - Len(a)]
        <5> HIDE DEF a, b
        <5> QED BY ONLY <4>1, ConcatProperties
      <4>3. f[k] = a \o b /\ Len(a) = B(k - 1) /\ Len(b) = V[k].size
        BY <3>3
      <4>4. Len(a) + Len(b) = B(k)
        BY <3>4, <4>3
      <4> QED BY ONLY <4>2, <4>3, <4>4
    <3>6. ASSUME NEW i \in 1..k, NEW o \in 1..V[i].size
          PROVE  f[k][B(i - 1) + o] = V[i].from + o - 1
      <4>1. i \in 1..L /\ i \in Nat /\ V[i].size \in Nat /\ i - 1 \in 0..L
        BY <1>1, <3>1
      <4>2. B(i) = B(i - 1) + V[i].size /\ B(i - 1) \in Nat
        BY <1>2, <4>1
      <4>3. CASE i = k
        <5> DEFINE p == B(i - 1) + o
        <5>0. B(i - 1) = B(k - 1) /\ V[i].size = V[k].size
          BY <4>3
        <5>1. p \in 1..B(k) /\ ~(p <= B(k - 1)) /\ p - B(k - 1) = o
          BY ONLY <3>4, <5>0, o \in 1..V[i].size
        <5> HIDE DEF p
        <5>2. f[k][p] = s[k][o]
          BY <3>5, <5>1
        <5> QED BY <2>2, <3>1, <4>3, <5>2 DEF p
      <4>4. CASE i # k
        <5>1. i \in 1..(k - 1) /\ i \in 0..L /\ i <= k - 1
          BY <3>1, <4>1, <4>4
        <5>2. B(i) <= B(k - 1) /\ B(i) \in Nat
          BY <1>2, <3>1, <5>1, SumFacts DEF B, L
        <5> DEFINE p == B(i - 1) + o
        <5>3. p \in 1..B(k) /\ p <= B(k - 1)
          <6>1. p \in Nat /\ p >= 1 /\ p <= B(i)
            BY ONLY <4>1, <4>2, o \in 1..V[i].size
          <6> HIDE DEF p
          <6> QED BY ONLY <3>4, <5>2, <6>1
        <5>4. f[k - 1][p] = V[i].from + o - 1
          BY <3>2, <5>1
        <5> HIDE DEF p
        <5>5. f[k][p] = f[k - 1][p]
          BY <3>5, <5>3
        <5> QED BY <5>4, <5>5 DEF p
      <4> QED BY <4>3, <4>4
    <3>7. Flat(k)
      BY <3>3, <3>4, <3>5, <3>6
    <3> QED BY <3>1, <3>7 DEF k
  <2>5. L - 1 \in Nat /\ L - 1 \in 0..(L - 1) /\ (L - 1) + 1 = L /\ L \in 1..L
    BY <1>1, <1>6
  <2> HIDE DEF T
  <2>6. 0..(L - 1) \subseteq T
    BY <2>3, <2>4, <2>5, UpTo
  <2>7. L - 1 \in T
    BY <2>5, <2>6
  <2>8. Flat(L)
    BY <2>5, <2>7 DEF T
  <2>9. BytesIn(V) = f[L] /\ f[L] \in Seq(Nat)
    BY <1>3, <2>1, <2>5
  <2> QED BY <2>8, <2>9 DEF L, B
<1> QED BY <1>5, <1>6

\* Every byte is at some place in some buffer.
LEMMA PlaceOfByte ==
  ASSUME NEW V \in Seq(Views), NEW p \in 1..Before(SizesOf(V), Len(V))
  PROVE  \E i \in 1..Len(V) : \E o \in 1..V[i].size : p = Before(SizesOf(V), i - 1) + o
<1> DEFINE L == Len(V)
           B(k) == Before(SizesOf(V), k)
           Holds(i) == \E o \in 1..V[i].size : p = B(i - 1) + o
           T == {n \in 0..L : p <= B(n) => \E i \in 1..n : Holds(i)}
<1>1. L \in Nat /\ \A i \in 1..L : V[i].size \in Nat
  BY SizesFacts
<1>2. B(0) = 0 /\ (\A k \in 0..L : B(k) \in Nat) /\ \A k \in 1..L : B(k) = B(k - 1) + V[k].size
  BY SumFacts
<1>3. p \in Nat /\ p >= 1 /\ p <= B(L)
  <2>1. L \in 0..L
    BY <1>1
  <2> QED BY <1>2, <2>1
<1> HIDE DEF L, B
<1>4. 0 \in T
  BY <1>1, <1>2, <1>3
<1>5. ASSUME NEW n \in 1..L, n - 1 \in T PROVE n \in T
  <2>1. n \in 0..L /\ n - 1 \in 0..L /\ n \in 1..n /\ \A i \in 1..(n - 1) : i \in 1..n
    BY <1>1
  <2>2. B(n) = B(n - 1) + V[n].size /\ B(n - 1) \in Nat /\ V[n].size \in Nat
    BY <1>1, <1>2, <2>1
  <2>3. CASE p <= B(n - 1)
    BY <1>5, <2>1, <2>3
  <2>4. CASE ~(p <= B(n - 1)) /\ p <= B(n)
    <3>1. p - B(n - 1) \in 1..V[n].size /\ p = B(n - 1) + (p - B(n - 1))
      BY <1>3, <2>2, <2>4
    <3>2. Holds(n)
      BY <3>1
    <3> QED BY <2>1, <3>2
  <2>5. CASE ~(p <= B(n))
    BY <2>1, <2>5
  <2> QED BY <2>3, <2>4, <2>5
<1> HIDE DEF T
<1>6. 0..L \subseteq T
  BY <1>1, <1>4, <1>5, UpTo
<1>7. L \in T
  BY <1>1, <1>6
<1> QED BY <1>3, <1>7 DEF T, L, B

\* One view more has its bytes behind those of the others.
LEMMA AppendBytes ==
  ASSUME NEW V \in Seq(Views), NEW v \in Views
  PROVE  BytesIn(Append(V, v)) = BytesIn(V) \o ViewedBytes(v)
<1> DEFINE W == Append(V, v)
           L == Len(V)
           B(k) == Before(SizesOf(V), k)
           C(k) == Before(SizesOf(W), k)
           x == BytesIn(V) \o ViewedBytes(v)
           S == {n \in 0..L : C(n) = B(n)}
<1>1. /\ W \in Seq(Views) /\ Len(W) = L + 1 /\ W[L + 1] = v /\ L \in Nat
      /\ \A i \in 1..L : W[i] = V[i]
  BY AppendProperties, LenProperties
<1>2. /\ \A i \in 1..L : V[i] \in Views /\ V[i].size \in Nat
      /\ v.size \in Nat /\ v.from \in Nat
  BY SizesFacts DEF Views
<1>3. B(0) = 0 /\ (\A k \in 0..L : B(k) \in Nat) /\ \A k \in 1..L : B(k) = B(k - 1) + V[k].size
  BY SumFacts
<1> HIDE DEF W
<1>4. /\ C(0) = 0 /\ (\A k \in 0..(L + 1) : C(k) \in Nat)
      /\ \A k \in 1..(L + 1) : C(k) = C(k - 1) + W[k].size
  BY <1>1, SumFacts
<1> HIDE DEF L, B, C
<1>5. \A k \in 0..L : C(k) = B(k)
  <2>1. 0 \in S
    BY <1>1, <1>3, <1>4
  <2>2. ASSUME NEW n \in 1..L, n - 1 \in S PROVE n \in S
    <3>1. n \in 1..(L + 1) /\ n \in 0..L /\ W[n] = V[n]
      BY <1>1
    <3>2. C(n) = C(n - 1) + V[n].size /\ B(n) = B(n - 1) + V[n].size /\ C(n - 1) = B(n - 1)
      BY <1>3, <1>4, <2>2, <3>1
    <3> QED BY <3>1, <3>2
  <2>3. 0..L \subseteq S
    <3> HIDE DEF S
    <3> QED BY <1>1, <2>1, <2>2, UpTo
  <2> QED BY <2>3
<1>6. C(L + 1) = B(L) + v.size /\ B(L) \in Nat
  <2>1. L + 1 \in 1..(L + 1) /\ (L + 1) - 1 = L /\ L \in 0..L
    BY <1>1
  <2> QED BY <1>1, <1>3, <1>4, <1>5, <2>1
<1>7. /\ BytesIn(V) \in Seq(Nat) /\ Len(BytesIn(V)) = B(L)
      /\ \A i \in 1..L : \A o \in 1..V[i].size : BytesIn(V)[B(i - 1) + o] = V[i].from + o - 1
  BY BytesFacts DEF L, B
<1>8. /\ BytesIn(W) \in Seq(Nat) /\ Len(BytesIn(W)) = C(L + 1)
      /\ \A i \in 1..(L + 1) : \A o \in 1..W[i].size :
           BytesIn(W)[C(i - 1) + o] = W[i].from + o - 1
  BY <1>1, BytesFacts DEF C
<1>9. /\ ViewedBytes(v) \in Seq(Nat) /\ Len(ViewedBytes(v)) = v.size
      /\ \A o \in 1..v.size : ViewedBytes(v)[o] = v.from + o - 1
  BY ViewedFacts
<1>10. /\ x \in Seq(Nat) /\ Len(x) = B(L) + v.size
       /\ \A p \in 1..(B(L) + v.size) :
            x[p] = IF p <= B(L) THEN BytesIn(V)[p] ELSE ViewedBytes(v)[p - B(L)]
  <2> DEFINE a == BytesIn(V)
             b == ViewedBytes(v)
  <2>1. a \in Seq(Nat) /\ b \in Seq(Nat) /\ Len(a) = B(L) /\ Len(b) = v.size
    BY <1>7, <1>9
  <2> HIDE DEF a, b
  <2>2. /\ a \o b \in Seq(Nat) /\ Len(a \o b) = Len(a) + Len(b)
        /\ \A p \in 1..(Len(a) + Len(b)) :
             (a \o b)[p] = IF p <= Len(a) THEN a[p] ELSE b[p - Len(a)]
    BY ONLY <2>1, ConcatProperties
  <2>3. x = a \o b
    BY DEF x, a, b
  <2> QED BY <2>1, <2>2, <2>3 DEF a, b
<1>11. ASSUME NEW p \in 1..(B(L) + v.size) PROVE BytesIn(W)[p] = x[p]
  <2>1. CASE p <= B(L)
    <3>1. p \in 1..B(L)
      BY <1>6, <2>1
    <3>2. PICK i \in 1..L : \E o \in 1..V[i].size : p = B(i - 1) + o
      BY <3>1, PlaceOfByte DEF L, B
    <3>3. PICK o \in 1..V[i].size : p = B(i - 1) + o
      BY <3>2
    <3>4. i \in 1..(L + 1) /\ W[i] = V[i] /\ i - 1 \in 0..L
      BY <1>1
    <3>5. BytesIn(W)[C(i - 1) + o] = V[i].from + o - 1 /\ C(i - 1) = B(i - 1)
      BY <1>5, <1>8, <3>4
    <3>6. BytesIn(V)[B(i - 1) + o] = V[i].from + o - 1
      BY <1>7
    <3> QED BY <1>10, <2>1, <3>3, <3>5, <3>6
  <2>2. CASE ~(p <= B(L))
    <3> DEFINE o == p - B(L)
    <3>0. L + 1 \in 1..(L + 1) /\ (L + 1) - 1 = L /\ L \in 0..L
      BY ONLY <1>1
    <3>1. o \in 1..v.size /\ B(L) + o = p
      BY ONLY <1>2, <1>6, <2>2, p \in 1..(B(L) + v.size)
    <3> HIDE DEF o
    <3>2. BytesIn(W)[C(L) + o] = v.from + o - 1 /\ C(L) = B(L)
      BY <1>1, <1>5, <1>8, <3>0, <3>1
    <3>3. ViewedBytes(v)[o] = v.from + o - 1
      BY <1>9, <3>1
    <3> QED BY <1>10, <2>2, <3>1, <3>2, <3>3 DEF o
  <2> QED BY <2>1, <2>2
<1>12. BytesIn(W) = x
  <2> HIDE DEF x
  <2>1. Len(BytesIn(W)) = Len(x) /\ \A p \in 1..Len(x) : BytesIn(W)[p] = x[p]
    BY <1>6, <1>8, <1>10, <1>11
  <2> QED BY <1>8, <1>10, <2>1, SeqEqual
<1> QED BY <1>12 DEF W, x

\* Part of a buffer, from o bytes on, has the bytes of all from there on.
LEMMA PartOfBytes ==
  ASSUME NEW V \in Seq(Views), NEW i \in 1..Len(V), NEW o \in Nat, NEW z \in Nat,
         o + z <= V[i].size
  PROVE  /\ Before(SizesOf(V), i - 1) + o + z <= Len(BytesIn(V))
         /\ ViewedBytes(Buffer(V[i].from + o, z)) =
              SubSeq(BytesIn(V), Before(SizesOf(V), i - 1) + o + 1,
                     Before(SizesOf(V), i - 1) + o + z)
<1> DEFINE b == Before(SizesOf(V), i - 1)
           v == Buffer(V[i].from + o, z)
           all == BytesIn(V)
           part == SubSeq(all, b + o + 1, b + o + z)
<1>1. /\ Len(V) \in Nat /\ i \in Nat /\ V[i].size \in Nat /\ V[i].from \in Nat
      /\ i - 1 \in 0..Len(V) /\ i \in 0..Len(V) /\ Len(V) \in 0..Len(V) /\ i <= Len(V)
  BY SizesFacts
<1>2. /\ b \in Nat /\ Before(SizesOf(V), i) = b + V[i].size
      /\ Before(SizesOf(V), i) <= Before(SizesOf(V), Len(V))
      /\ Before(SizesOf(V), Len(V)) \in Nat
  BY <1>1, SumFacts
<1>3. /\ all \in Seq(Nat) /\ Len(all) = Before(SizesOf(V), Len(V))
      /\ \A q \in 1..V[i].size : all[b + q] = V[i].from + q - 1
  BY BytesFacts
<1> HIDE DEF b, all
<1>4. b + o + z <= Len(all)
  BY <1>1, <1>2, <1>3
<1>5. v \in Views /\ v.size = z /\ v.from = V[i].from + o
  BY <1>1 DEF Buffer, Views
<1> HIDE DEF v
<1>6. /\ ViewedBytes(v) \in Seq(Nat) /\ Len(ViewedBytes(v)) = z
      /\ \A q \in 1..z : ViewedBytes(v)[q] = V[i].from + o + q - 1
  BY <1>5, ViewedFacts
<1>7. /\ part \in Seq(Nat) /\ Len(part) = z
      /\ \A q \in 1..z : part[q] = all[b + o + q]
  <2> DEFINE m == b + o + 1
             n == b + o + z
  <2>1. m \in Int /\ n \in Int /\ n - m + 1 = z /\ (m <= n <=> z # 0)
    BY <1>2
  <2>2. \A k \in m..n : all[k] \in Nat
    <3>1. \A k \in m..n : k \in 1..Len(all)
      BY <1>2, <1>4
    <3> QED BY <1>3, <3>1, ElementOfSeq
  <2>3. \A q \in 1..z : m + q - 1 = b + o + q
    BY <1>2
  <2> HIDE DEF m, n
  <2>4. /\ SubSeq(all, m, n) \in Seq(Nat)
        /\ Len(SubSeq(all, m, n)) = IF m <= n THEN n - m + 1 ELSE 0
        /\ \A q \in 1..(n - m + 1) : SubSeq(all, m, n)[q] = all[m + q - 1]
    BY <2>1, <2>2, SubSeqProperties
  <2>5. part = SubSeq(all, m, n)
    BY DEF m, n
  <2> QED BY <2>1, <2>3, <2>4, <2>5
<1>8. ASSUME NEW q \in 1..z PROVE ViewedBytes(v)[q] = part[q]
  <2>1. o + q \in 1..V[i].size /\ b + (o + q) = b + o + q
        /\ V[i].from + (o + q) - 1 = V[i].from + o + q - 1
    BY <1>1, <1>2
  <2>2. all[b + (o + q)] = V[i].from + (o + q) - 1
    BY <1>3, <2>1
  <2> QED BY <1>6, <1>7, <2>1, <2>2
<1>9. ViewedBytes(v) = part
  <2> HIDE DEF part
  <2> QED BY <1>6, <1>7, <1>8, SeqEqual
<1> QED BY <1>4, <1>9 DEF b, v, all

\* The buffers from the n-th on.
LEMMA SuffixFacts ==
  ASSUME NEW V \in Seq(Views), NEW n \in 1..(Len(V) + 1), NEW A, A = SubSeq(V, n, Len(V))
  PROVE  /\ A \in Seq(Views) /\ Len(A) = Len(V) - n + 1
         /\ \A i \in 1..Len(A) : A[i] = V[n + i - 1] /\ n + i - 1 \in 1..Len(V)
         /\ \A k \in 0..Len(A) :
              Before(SizesOf(V), n - 1 + k) = Before(SizesOf(V), n - 1) + Before(SizesOf(A), k)
<1> DEFINE L == Len(V)
           B(k) == Before(SizesOf(V), k)
           C(k) == Before(SizesOf(A), k)
           S == {k \in 0..Len(A) : B(n - 1 + k) = B(n - 1) + C(k)}
<1>1. L \in Nat /\ \A i \in 1..L : V[i] \in Views /\ V[i].size \in Nat
  BY SizesFacts
<1>2. B(0) = 0 /\ (\A k \in 0..L : B(k) \in Nat) /\ \A k \in 1..L : B(k) = B(k - 1) + V[k].size
  BY SumFacts
<1>3. A \in Seq(Views) /\ Len(A) = L - n + 1 /\ \A i \in 1..(L - n + 1) : A[i] = V[n + i - 1]
  <2> HIDE DEF L
  <2>1. n \in Int /\ L \in Int /\ \A i \in n..L : V[i] \in Views
    BY <1>1 DEF L
  <2>2. /\ SubSeq(V, n, L) \in Seq(Views)
        /\ Len(SubSeq(V, n, L)) = IF n <= L THEN L - n + 1 ELSE 0
        /\ \A i \in 1..(L - n + 1) : SubSeq(V, n, L)[i] = V[n + i - 1]
    BY <2>1, SubSeqProperties
  <2>3. A = SubSeq(V, n, L) /\ n <= L + 1
    BY <1>1 DEF L
  <2> QED BY <1>1, <2>1, <2>2, <2>3
<1>4. C(0) = 0 /\ (\A k \in 0..Len(A) : C(k) \in Nat)
      /\ \A k \in 1..Len(A) : C(k) = C(k - 1) + A[k].size
  BY <1>3, SumFacts
<1>5. n \in 1..(L + 1)
  OBVIOUS
<1> HIDE DEF L, B, C
<1>6. Len(A) \in Nat /\ n - 1 \in 0..L
  BY <1>1, <1>3, <1>5
<1>7. 0 \in S
  BY <1>2, <1>4, <1>6
<1>8. ASSUME NEW k \in 1..Len(A), k - 1 \in S PROVE k \in S
  <2>1. /\ k \in 0..Len(A) /\ n - 1 + k \in 1..L /\ (n - 1 + k) - 1 = n - 1 + (k - 1)
        /\ n + k - 1 = n - 1 + k /\ k - 1 \in 0..Len(A) /\ n - 1 + (k - 1) \in 0..L
    BY <1>1, <1>3, <1>5
  <2>2. B(n - 1 + k) = B(n - 1 + (k - 1)) + V[n - 1 + k].size
    BY <1>2, <2>1
  <2>3. A[k] = V[n - 1 + k] /\ C(k) = C(k - 1) + A[k].size
    BY <1>3, <1>4, <2>1
  <2>4. /\ C(k - 1) \in Nat /\ B(n - 1) \in Nat /\ B(n - 1 + (k - 1)) = B(n - 1) + C(k - 1)
        /\ V[n - 1 + k].size \in Nat
    BY <1>1, <1>2, <1>4, <1>6, <1>8, <2>1
  <2>5. B(n - 1 + k) = B(n - 1) + C(k)
    BY <2>2, <2>3, <2>4
  <2> QED BY <2>1, <2>5
<1>9. 0..Len(A) \subseteq S
  <2> HIDE DEF S
  <2> QED BY <1>6, <1>7, <1>8, UpTo
<1>10. \A i \in 1..Len(A) : n + i - 1 \in 1..L
  BY <1>1, <1>3, <1>5
<1> QED BY <1>3, <1>9, <1>10 DEF L, B, C

\* Their bytes are those behind the bytes of the ones before them.
LEMMA SuffixBytes ==
  ASSUME NEW V \in Seq(Views), NEW n \in 1..(Len(V) + 1), NEW A, A = SubSeq(V, n, Len(V))
  PROVE  BytesIn(A) = SubSeq(BytesIn(V), Before(SizesOf(V), n - 1) + 1, Len(BytesIn(V)))
<1> DEFINE L == Len(V)
           B(k) == Before(SizesOf(V), k)
           C(k) == Before(SizesOf(A), k)
           b == B(n - 1)
           all == BytesIn(V)
           rest == SubSeq(all, b + 1, Len(all))
<1>1. L \in Nat /\ n \in 1..(L + 1)
  BY SizesFacts
<1>2. (\A k \in 0..L : B(k) \in Nat) /\ \A k, j \in 0..L : j <= k => B(j) <= B(k)
  BY SumFacts
<1>3. /\ A \in Seq(Views) /\ Len(A) = L - n + 1
      /\ \A i \in 1..Len(A) : A[i] = V[n + i - 1] /\ n + i - 1 \in 1..L
      /\ \A k \in 0..Len(A) : B(n - 1 + k) = B(n - 1) + C(k)
  BY SuffixFacts
<1>4. \A k \in 0..Len(A) : C(k) \in Nat
  BY <1>3, SumFacts
<1>5. /\ all \in Seq(Nat) /\ Len(all) = B(L)
      /\ \A i \in 1..L : \A o \in 1..V[i].size : all[B(i - 1) + o] = V[i].from + o - 1
  BY BytesFacts
<1>6. /\ BytesIn(A) \in Seq(Nat) /\ Len(BytesIn(A)) = C(Len(A))
      /\ \A i \in 1..Len(A) : \A o \in 1..A[i].size :
           BytesIn(A)[C(i - 1) + o] = A[i].from + o - 1
  BY <1>3, BytesFacts
<1> HIDE DEF L, B, C
<1>7. b \in Nat /\ Len(A) \in Nat /\ Len(all) = b + C(Len(A)) /\ C(Len(A)) \in Nat
  <2>1. n - 1 \in 0..L /\ Len(A) \in Nat /\ n - 1 + Len(A) = L /\ Len(A) \in 0..Len(A)
    BY <1>1, <1>3
  <2> QED BY <1>2, <1>3, <1>4, <1>5, <2>1
<1> HIDE DEF b, all
<1>8. /\ rest \in Seq(Nat) /\ Len(rest) = C(Len(A))
      /\ \A p \in 1..C(Len(A)) : rest[p] = all[b + p]
  <2> DEFINE m == b + 1
             l == Len(all)
  <2>1. m \in Int /\ l \in Int /\ l - m + 1 = C(Len(A)) /\ (m <= l <=> C(Len(A)) # 0)
    BY <1>7
  <2>2. \A k \in m..l : all[k] \in Nat
    <3>1. \A k \in m..l : k \in 1..l
      BY <1>7
    <3> QED BY <1>5, <3>1, ElementOfSeq
  <2>3. \A p \in 1..C(Len(A)) : m + p - 1 = b + p
    BY <1>7
  <2> HIDE DEF m, l
  <2>4. /\ SubSeq(all, m, l) \in Seq(Nat)
        /\ Len(SubSeq(all, m, l)) = IF m <= l THEN l - m + 1 ELSE 0
        /\ \A p \in 1..(l - m + 1) : SubSeq(all, m, l)[p] = all[m + p - 1]
    BY <2>1, <2>2, SubSeqProperties
  <2>5. rest = SubSeq(all, m, l)
    BY DEF m, l
  <2> QED BY <1>7, <2>1, <2>3, <2>4, <2>5
<1>9. ASSUME NEW p \in 1..C(Len(A)) PROVE BytesIn(A)[p] = rest[p]
  <2>1. PICK i \in 1..Len(A) : \E o \in 1..A[i].size : p = C(i - 1) + o
    BY <1>3, PlaceOfByte DEF C
  <2>2. PICK o \in 1..A[i].size : p = C(i - 1) + o
    BY <2>1
  <2> DEFINE j == n + i - 1
  <2>3. j \in 1..L /\ A[i] = V[j] /\ j - 1 = n - 1 + (i - 1) /\ i - 1 \in 0..Len(A)
    <3>1. j - 1 = n - 1 + (i - 1) /\ i - 1 \in 0..Len(A)
      BY <1>1, <1>7
    <3> QED BY <1>3, <3>1
  <2> HIDE DEF j
  <2>4. B(j - 1) = b + C(i - 1) /\ C(i - 1) \in Nat
    BY <1>3, <1>4, <2>3 DEF b
  <2>5. all[B(j - 1) + o] = V[j].from + o - 1
    BY <1>5, <2>3
  <2>6. BytesIn(A)[p] = A[i].from + o - 1
    BY <1>6, <2>2
  <2>7. A[i].size \in Nat
    BY <1>3, SizesFacts
  <2>8. B(j - 1) + o = b + p
    BY <1>7, <2>2, <2>4, <2>7
  <2> QED BY <1>8, <2>3, <2>5, <2>6, <2>8
<1>10. BytesIn(A) = rest
  <2> HIDE DEF rest
  <2> QED BY <1>6, <1>8, <1>9, SeqEqual
<1> QED BY <1>10 DEF b, all, B

-----------------------------------------------------------------------------
(* The invariant of a buffers_consumer *)

OfOperands ==
  \E list \in Operands : range = Concatenation(list) /\ operand_bytes = BytesOfOperands(list)

\* What a running consume() has left to do
LeftToDo == IF to_consume = NoCall THEN 0 ELSE to_consume

\* The consumer is at the k-th buffer.  Outside of consume() it has left a buffer
\* only for bytes of it, and so stands behind no empty one.
StandsAt(k) ==
  /\ seq_it = Iterators(range)[k]
  /\ consumed = Before(SizesOf(Buffers), k - 1) + elem_offset + LeftToDo
  /\ Single => to_consume = NoCall /\ k = 1 /\ elem_offset + remaining <= Buffers[1].size
  /\ ~Single /\ elem_offset # 0 => k <= Len(Buffers) /\ elem_offset < Buffers[k].size
  /\ ~Single /\ LeftToDo = 0 /\ elem_offset = 0 => k = 1 \/ Buffers[k - 1].size > 0

ConsumerInv ==
  /\ OfOperands /\ aborted = FALSE
  /\ to_consume \in Nat \cup {NoCall}
  /\ elem_offset \in Nat /\ remaining \in Nat /\ consumed \in Nat
  /\ consumed <= SizeOfRange /\ LeftToDo <= remaining
  /\ \E k \in 1..(Len(Buffers) + 1) : StandsAt(k)

\* The buffers of a range, and its iterators.
LEMMA RangeFacts ==
  ASSUME OfOperands
  PROVE  /\ Buffers \in Seq(Views) /\ Len(Buffers) \in Nat
         /\ Len(Iterators(range)) = Len(Buffers) + 1
         /\ \A k \in 1..Len(Buffers) :
              /\ Increment(range, Iterators(range)[k]) = Iterators(range)[k + 1]
              /\ Dereference(range, Iterators(range)[k]) = Buffers[k]
              /\ Buffers[k].size \in Nat /\ Buffers[k].from \in Nat
         /\ \A j, k \in 1..(Len(Buffers) + 1) :
              Iterators(range)[j] = Iterators(range)[k] => j = k
         /\ Iterators(range)[1] = BeginOf(range)
         /\ Iterators(range)[Len(Buffers) + 1] = EndOf(range)
         /\ Single => Len(Buffers) = 1
         /\ SizeOfRange = Before(SizesOf(Buffers), Len(Buffers))
<1> DEFINE its == Iterators(range)
           L == Len(its) - 1
<1>1. IsRange(range)
  BY RangesAssumption DEF OfOperands
<1>2. /\ Len(its) \in Nat \ {0}
      /\ its[1] = BeginOf(range) /\ its[Len(its)] = EndOf(range)
      /\ \A j, k \in 1..Len(its) : its[j] = its[k] => j = k
      /\ \A k \in 1..(Len(its) - 1) : /\ Increment(range, its[k]) = its[k + 1]
                                      /\ Dereference(range, its[k]) \in Views
      /\ Single => Len(its) = 2
  BY <1>1 DEF IsRange, Single
<1>3. Buffers = [k \in 1..L |-> Dereference(range, its[k])]
  BY DEF Buffers, BuffersOf
<1> HIDE DEF its
<1>4. L \in Nat /\ Buffers \in [1..L -> Views]
  BY <1>2, <1>3
<1>5. Buffers \in Seq(Views) /\ Len(Buffers) = L
  <2> HIDE DEF L
  <2>1. Buffers \in Seq(Views)
    BY ONLY <1>4, SeqDef
  <2>2. DOMAIN Buffers = 1..L /\ Len(Buffers) \in Nat /\ DOMAIN Buffers = 1..Len(Buffers)
    BY ONLY <1>4, <2>1, LenProperties
  <2> QED BY ONLY <1>4, <2>1, <2>2
<1>6. L + 1 = Len(its)
  BY <1>2
<1>7. \A k \in 1..L : /\ Increment(range, its[k]) = its[k + 1]
                      /\ Dereference(range, its[k]) = Buffers[k]
  BY <1>2, <1>3
<1>8. \A k \in 1..L : Buffers[k].size \in Nat /\ Buffers[k].from \in Nat
  BY <1>4 DEF Views
<1>9. Single => L = 1
  BY <1>2
<1>10. SizeOfRange = Before(SizesOf(Buffers), Len(Buffers))
  BY <1>5, SumFacts DEF SizeOfRange
<1> QED BY <1>2, <1>4, <1>5, <1>6, <1>7, <1>8, <1>9, <1>10 DEF its

\* Where a consumer is, in numbers.
LEMMA ConsumerPlaces ==
  ASSUME OfOperands, NEW k \in 1..(Len(Buffers) + 1), seq_it = Iterators(range)[k]
  PROVE  /\ AtEnd <=> k = Len(Buffers) + 1
         /\ ~AtEnd => /\ k \in 1..Len(Buffers) /\ Increment(range, seq_it) = Iterators(range)[k + 1]
                      /\ Dereference(range, seq_it) = Buffers[k]
                      /\ Unconsumed.size = Buffers[k].size - elem_offset
                      /\ Unconsumed.from = Buffers[k].from + elem_offset
         /\ Before(SizesOf(Buffers), k - 1) \in Nat
         /\ ~AtEnd => Before(SizesOf(Buffers), k) = Before(SizesOf(Buffers), k - 1) + Buffers[k].size
<1> DEFINE L == Len(Buffers)
<1>1. /\ L \in Nat /\ Buffers \in Seq(Views)
      /\ \A j \in 1..(L + 1) : Iterators(range)[j] = Iterators(range)[k] => j = k
      /\ Iterators(range)[L + 1] = EndOf(range)
      /\ \A j \in 1..L : /\ Increment(range, Iterators(range)[j]) = Iterators(range)[j + 1]
                         /\ Dereference(range, Iterators(range)[j]) = Buffers[j]
  BY RangeFacts
<1>2. (\A j \in 0..L : Before(SizesOf(Buffers), j) \in Nat)
      /\ \A j \in 1..L : Before(SizesOf(Buffers), j) = Before(SizesOf(Buffers), j - 1) + Buffers[j].size
  BY <1>1, SumFacts
<1> HIDE DEF L
<1>3. k \in 1..(L + 1) /\ L + 1 \in 1..(L + 1) /\ k - 1 \in 0..L
  BY <1>1 DEF L
<1>4. AtEnd <=> k = L + 1
  BY <1>1, <1>3 DEF AtEnd
<1>5. ASSUME ~AtEnd
      PROVE  /\ k \in 1..L /\ Increment(range, seq_it) = Iterators(range)[k + 1]
             /\ Dereference(range, seq_it) = Buffers[k]
  BY <1>1, <1>3, <1>4, <1>5
<1>6. ASSUME ~AtEnd
      PROVE  /\ Unconsumed.size = Buffers[k].size - elem_offset
             /\ Unconsumed.from = Buffers[k].from + elem_offset
  BY <1>5, <1>6 DEF Unconsumed, Plus, Buffer
<1> QED BY <1>2, <1>3, <1>4, <1>5, <1>6 DEF L

\* To show that a step preserves the invariant, to say where the consumer goes.
LEMMA ConsumerMoves ==
  ASSUME ConsumerInv, UNCHANGED fixed, aborted' = FALSE,
         to_consume' \in Nat \cup {NoCall}, elem_offset' \in Nat, remaining' \in Nat,
         consumed' \in Nat, NEW left, left = IF to_consume' = NoCall THEN 0 ELSE to_consume',
         consumed' <= SizeOfRange, left <= remaining',
         NEW k \in 1..(Len(Buffers) + 1), seq_it' = Iterators(range)[k],
         consumed' = Before(SizesOf(Buffers), k - 1) + elem_offset' + left,
         Single => to_consume' = NoCall /\ k = 1 /\ elem_offset' + remaining' <= Buffers[1].size,
         ~Single /\ elem_offset' # 0 => k <= Len(Buffers) /\ elem_offset' < Buffers[k].size,
         ~Single /\ left = 0 /\ elem_offset' = 0 => k = 1 \/ Buffers[k - 1].size > 0
  PROVE  ConsumerInv'
<1>1. range' = range /\ operand_bytes' = operand_bytes
  BY DEF fixed
<1>2. OfOperands' /\ Buffers' = Buffers
  BY <1>1 DEF ConsumerInv, OfOperands, Buffers
<1>3. SizeOfRange' = SizeOfRange /\ Single' = Single
  BY <1>1, <1>2 DEF SizeOfRange, Single
<1>4. LeftToDo' = left
  BY DEF LeftToDo, NoCall
<1>5. StandsAt(k)'
  BY <1>1, <1>2, <1>3, <1>4 DEF StandsAt
<1>6. k \in 1..(Len(Buffers') + 1)
  BY <1>2
<1> QED BY <1>2, <1>3, <1>4, <1>5, <1>6 DEF ConsumerInv

\* The invariant holds of a new consumer.
LEMMA ConsumerInitInv == ConsumerInit => ConsumerInv
<1> SUFFICES ASSUME ConsumerInit PROVE ConsumerInv
  OBVIOUS
<1>1. PICK list \in Operands, clamp_size \in 0..MaxClamp :
        /\ range = Concatenation(list) /\ operand_bytes = BytesOfOperands(list)
        /\ seq_it = BeginOf(range) /\ elem_offset = 0 /\ aborted = FALSE
        /\ remaining = IF Single THEN Clamped(Dereference(range, seq_it), clamp_size).size
                       ELSE clamp_size
        /\ to_consume = NoCall /\ consumed = 0
  BY DEF ConsumerInit
<1>2. OfOperands
  BY <1>1 DEF OfOperands
<1>3. /\ Len(Buffers) \in Nat /\ Buffers \in Seq(Views) /\ seq_it = Iterators(range)[1]
      /\ SizeOfRange = Before(SizesOf(Buffers), Len(Buffers))
      /\ Single => Len(Buffers) = 1
      /\ \A k \in 1..Len(Buffers) :
           Dereference(range, Iterators(range)[k]) = Buffers[k] /\ Buffers[k].size \in Nat
  BY <1>1, <1>2, RangeFacts
<1>4. Before(SizesOf(Buffers), 0) = 0 /\ SizeOfRange \in Nat
  <2>1. Len(Buffers) \in 0..Len(Buffers)
    BY <1>3
  <2> QED BY <1>3, <2>1, SumFacts
<1>5. clamp_size \in Nat
  BY BoundsAssumption
<1>6. ASSUME Single PROVE remaining \in Nat /\ remaining <= Buffers[1].size
  <2>0. Len(Buffers) = 1 /\ 1 \in 1..1
    BY <1>3, <1>6
  <2>1. Dereference(range, seq_it) = Buffers[1] /\ Buffers[1].size \in Nat
    BY <1>3, <2>0
  <2>2. remaining = IF clamp_size < Buffers[1].size
                    THEN [Buffers[1] EXCEPT !.size = clamp_size].size ELSE Buffers[1].size
    BY <1>1, <1>6, <2>1 DEF Clamped
  <2>3. [Buffers[1] EXCEPT !.size = clamp_size].size = clamp_size
    <3>1. Buffers[1] \in Views
      BY <1>3, <1>6, ElementOfSeq
    <3> QED BY <3>1 DEF Views
  <2> QED BY <1>5, <2>1, <2>2, <2>3
<1>7. remaining \in Nat
  BY <1>1, <1>5, <1>6
<1>8. LeftToDo = 0
  BY <1>1 DEF LeftToDo
<1>9. StandsAt(1) /\ 1 \in 1..(Len(Buffers) + 1)
  <2>1. Single => elem_offset + remaining <= Buffers[1].size
    BY <1>1, <1>6, <1>7
  <2> QED BY <1>1, <1>3, <1>4, <1>8, <2>1 DEF StandsAt
<1> QED BY <1>1, <1>2, <1>4, <1>7, <1>8, <1>9 DEF ConsumerInv

\* The consumer in numbers: what a step needs of the invariant.
LEMMA ConsumerNumbers ==
  ASSUME ConsumerInv
  PROVE  /\ to_consume \in Nat \cup {NoCall} /\ elem_offset \in Nat /\ remaining \in Nat
         /\ consumed \in Nat /\ SizeOfRange \in Nat /\ consumed <= SizeOfRange
         /\ LeftToDo <= remaining /\ aborted = FALSE
         /\ \E k \in 1..(Len(Buffers) + 1) :
              /\ StandsAt(k) /\ k \in Nat /\ Len(Buffers) \in Nat
              /\ AtEnd => /\ elem_offset = 0 \/ Single
                          /\ ~Single => consumed = SizeOfRange + LeftToDo
<1>1. OfOperands
  BY DEF ConsumerInv
<1>2. /\ Len(Buffers) \in Nat /\ Buffers \in Seq(Views)
      /\ SizeOfRange = Before(SizesOf(Buffers), Len(Buffers))
  BY <1>1, RangeFacts
<1>3. SizeOfRange \in Nat
  <2>1. Len(Buffers) \in 0..Len(Buffers)
    BY <1>2
  <2> QED BY <1>2, <2>1, SumFacts
<1>4. PICK k \in 1..(Len(Buffers) + 1) : StandsAt(k)
  BY DEF ConsumerInv
<1>5. ASSUME AtEnd, ~Single PROVE elem_offset = 0 /\ consumed = SizeOfRange + LeftToDo
  <2>1. k = Len(Buffers) + 1 /\ Len(Buffers) = k - 1
    BY <1>1, <1>2, <1>4, <1>5, ConsumerPlaces DEF StandsAt
  <2>2. elem_offset = 0
    BY <1>2, <1>4, <1>5, <2>1 DEF StandsAt
  <2>3. consumed = Before(SizesOf(Buffers), k - 1) + elem_offset + LeftToDo
    BY <1>4 DEF StandsAt
  <2>4. consumed = SizeOfRange + 0 + LeftToDo
    BY <1>2, <2>1, <2>2, <2>3
  <2> QED BY <1>3, <2>2, <2>4
<1>6. k \in Nat
  BY <1>2
<1> QED BY <1>2, <1>3, <1>4, <1>5, <1>6 DEF ConsumerInv

\* consume(n) of what is left starts its loop: neither assertion fires.
LEMMA ConsumeInv ==
  ASSUME ConsumerInv, NEW n \in Nat, Consume(n)
  PROVE  ConsumerInv'
<1>1. PICK k \in 1..(Len(Buffers) + 1) :
        /\ StandsAt(k) /\ k \in Nat /\ Len(Buffers) \in Nat
        /\ AtEnd => /\ elem_offset = 0 \/ Single
                    /\ ~Single => consumed = SizeOfRange + LeftToDo
  BY ConsumerNumbers
<1>2. /\ elem_offset \in Nat /\ remaining \in Nat /\ consumed \in Nat /\ SizeOfRange \in Nat
      /\ aborted = FALSE
  BY ConsumerNumbers
<1>3. /\ to_consume = NoCall /\ ~Single /\ n <= remaining /\ consumed + n <= SizeOfRange
  BY DEF Consume, Consumes
<1>4. LeftToDo = 0
  BY <1>3 DEF LeftToDo
<1>5. ~(n # 0 /\ (AtEnd \/ remaining = 0))
  <2>1. CASE AtEnd
    BY <1>1, <1>2, <1>3, <1>4, <2>1
  <2>2. CASE remaining = 0
    BY <1>3, <2>2
  <2> QED BY <2>1, <2>2
<1>6. /\ to_consume' = n /\ consumed' = consumed + n
      /\ UNCHANGED <<fixed, seq_it, elem_offset, remaining, aborted>>
  BY <1>5 DEF Consume
<1>7. n # NoCall
  BY DEF NoCall
<1>8. /\ seq_it = Iterators(range)[k]
      /\ consumed = Before(SizesOf(Buffers), k - 1) + elem_offset + LeftToDo
      /\ elem_offset # 0 => k <= Len(Buffers) /\ elem_offset < Buffers[k].size
      /\ elem_offset = 0 => k = 1 \/ Buffers[k - 1].size > 0
  BY <1>1, <1>3, <1>4 DEF StandsAt
<1>9. Before(SizesOf(Buffers), k - 1) \in Nat
  BY <1>8, ConsumerPlaces DEF ConsumerInv
<1>10. consumed + n = Before(SizesOf(Buffers), k - 1) + elem_offset + n /\ consumed + n \in Nat
  BY <1>2, <1>4, <1>8, <1>9
<1> QED BY <1>2, <1>3, <1>6, <1>7, <1>8, <1>10, ConsumerMoves

\* consume(n) of one buffer.
LEMMA ConsumeSingleInv ==
  ASSUME ConsumerInv, NEW n \in Nat, ConsumeSingle(n)
  PROVE  ConsumerInv'
<1>1. PICK k \in 1..(Len(Buffers) + 1) : StandsAt(k)
  BY ConsumerNumbers
<1>2. /\ elem_offset \in Nat /\ remaining \in Nat /\ consumed \in Nat /\ SizeOfRange \in Nat
      /\ aborted = FALSE
  BY ConsumerNumbers
<1>3. /\ to_consume = NoCall /\ Single /\ n <= remaining /\ consumed + n <= SizeOfRange
      /\ elem_offset' = elem_offset + n /\ remaining' = remaining - n
      /\ consumed' = consumed + n
      /\ UNCHANGED <<fixed, seq_it, aborted, to_consume>>
  BY DEF ConsumeSingle, Consumes
<1>4. LeftToDo = 0
  BY <1>3 DEF LeftToDo
<1>5. /\ seq_it = Iterators(range)[k] /\ k = 1
      /\ consumed = Before(SizesOf(Buffers), k - 1) + elem_offset
      /\ elem_offset + remaining <= Buffers[1].size
  <2>1. /\ seq_it = Iterators(range)[k] /\ k = 1
        /\ consumed = Before(SizesOf(Buffers), k - 1) + elem_offset + 0
        /\ elem_offset + remaining <= Buffers[1].size
    BY <1>1, <1>3, <1>4 DEF StandsAt
  <2>2. Before(SizesOf(Buffers), k - 1) \in Nat
    BY <2>1, ConsumerPlaces DEF ConsumerInv
  <2> QED BY <1>2, <2>1, <2>2
<1>6. Before(SizesOf(Buffers), k - 1) \in Nat
  BY <1>5, ConsumerPlaces DEF ConsumerInv
<1>7. /\ elem_offset' \in Nat /\ remaining' \in Nat /\ consumed' \in Nat
      /\ consumed' = Before(SizesOf(Buffers), k - 1) + elem_offset' + 0
      /\ elem_offset' + remaining' = elem_offset + remaining
  BY <1>2, <1>3, <1>5, <1>6
<1> DEFINE left == 0
<1>8. /\ left = IF to_consume' = NoCall THEN 0 ELSE to_consume'
      /\ left <= remaining' /\ consumed' <= SizeOfRange /\ elem_offset' + remaining' <= Buffers[1].size
      /\ consumed' = Before(SizesOf(Buffers), k - 1) + elem_offset' + left
      /\ to_consume' = NoCall /\ aborted' = FALSE /\ seq_it' = Iterators(range)[k]
  BY <1>2, <1>3, <1>5, <1>7
<1> HIDE DEF left
<1> QED BY <1>3, <1>5, <1>7, <1>8, ConsumerMoves

\* The loop ends inside a buffer.
LEMMA SkipIntoInv ==
  ASSUME ConsumerInv, SkipInto
  PROVE  ConsumerInv'
<1>1. PICK k \in 1..(Len(Buffers) + 1) : StandsAt(k)
  BY ConsumerNumbers
<1>2. /\ elem_offset \in Nat /\ remaining \in Nat /\ consumed \in Nat /\ SizeOfRange \in Nat
      /\ consumed <= SizeOfRange /\ LeftToDo <= remaining
      /\ to_consume \in Nat \cup {NoCall} /\ aborted = FALSE
  BY ConsumerNumbers
<1>3. /\ to_consume # NoCall /\ to_consume # 0 /\ ~AtEnd
      /\ to_consume < Unconsumed.size
      /\ elem_offset' = elem_offset + to_consume /\ remaining' = remaining - to_consume
      /\ to_consume' = 0
      /\ UNCHANGED <<fixed, seq_it, aborted, consumed>>
  BY DEF SkipInto, InLoop
<1>4. /\ LeftToDo = to_consume /\ to_consume \in Nat /\ 0 # NoCall
  BY <1>2, <1>3 DEF LeftToDo, NoCall
<1>5. /\ seq_it = Iterators(range)[k] /\ ~Single
      /\ consumed = Before(SizesOf(Buffers), k - 1) + elem_offset + to_consume
  BY <1>1, <1>3, <1>4 DEF StandsAt
<1>6. /\ Before(SizesOf(Buffers), k - 1) \in Nat /\ k \in 1..Len(Buffers)
      /\ Unconsumed.size = Buffers[k].size - elem_offset
  BY <1>3, <1>5, ConsumerPlaces DEF ConsumerInv
<1>7. Buffers[k].size \in Nat /\ k <= Len(Buffers)
  BY <1>6, RangeFacts DEF ConsumerInv
<1>8. /\ elem_offset' \in Nat /\ remaining' \in Nat /\ elem_offset' # 0
      /\ consumed = Before(SizesOf(Buffers), k - 1) + elem_offset' + 0
      /\ elem_offset' < Buffers[k].size
  <2>1. PICK s \in Nat, b \in Nat : s = Buffers[k].size /\ b = Before(SizesOf(Buffers), k - 1)
    BY <1>6, <1>7
  <2>2. to_consume < s - elem_offset /\ consumed = b + elem_offset + to_consume
    BY <1>3, <1>5, <1>6, <2>1
  <2>3. /\ elem_offset' = elem_offset + to_consume /\ remaining' = remaining - to_consume
        /\ to_consume <= remaining /\ to_consume # 0
    BY <1>2, <1>3, <1>4
  <2>4. /\ elem_offset' \in Nat /\ remaining' \in Nat /\ elem_offset' # 0
        /\ consumed = b + elem_offset' + 0 /\ elem_offset' < s
    BY ONLY <1>2, <1>4, <2>2, <2>3, s \in Nat, b \in Nat
  <2> QED BY <2>1, <2>4
<1> DEFINE left == 0
<1>9. /\ left = IF to_consume' = NoCall THEN 0 ELSE to_consume'
      /\ left <= remaining' /\ consumed' <= SizeOfRange /\ consumed' \in Nat
      /\ consumed' = Before(SizesOf(Buffers), k - 1) + elem_offset' + left
      /\ to_consume' \in Nat \cup {NoCall} /\ aborted' = FALSE /\ seq_it' = Iterators(range)[k]
  BY <1>2, <1>3, <1>4, <1>5, <1>8
<1> HIDE DEF left
<1> QED BY <1>3, <1>5, <1>7, <1>8, <1>9, ConsumerMoves

\* The loop leaves a buffer behind, which may be an empty one, or goes on.
LEMMA DiscardInv ==
  ASSUME ConsumerInv, Discard
  PROVE  ConsumerInv'
<1>1. PICK k \in 1..(Len(Buffers) + 1) : StandsAt(k) /\ Len(Buffers) \in Nat
  BY ConsumerNumbers
<1>2. /\ elem_offset \in Nat /\ remaining \in Nat /\ consumed \in Nat /\ SizeOfRange \in Nat
      /\ consumed <= SizeOfRange /\ LeftToDo <= remaining
      /\ to_consume \in Nat \cup {NoCall} /\ aborted = FALSE
  BY ConsumerNumbers
<1>3. /\ to_consume # NoCall /\ to_consume # 0 /\ ~AtEnd
      /\ to_consume >= Unconsumed.size
      /\ elem_offset' = 0 /\ seq_it' = Increment(range, seq_it)
      /\ remaining' = remaining - Unconsumed.size
      /\ to_consume' = to_consume - Unconsumed.size
      /\ UNCHANGED <<fixed, aborted, consumed>>
  BY DEF Discard, InLoop
<1>4. LeftToDo = to_consume /\ to_consume \in Nat
  BY <1>2, <1>3 DEF LeftToDo
<1>5. /\ seq_it = Iterators(range)[k] /\ ~Single
      /\ consumed = Before(SizesOf(Buffers), k - 1) + elem_offset + to_consume
      /\ elem_offset # 0 => elem_offset < Buffers[k].size
  BY <1>1, <1>3, <1>4 DEF StandsAt
<1>6. /\ Before(SizesOf(Buffers), k - 1) \in Nat /\ k \in 1..Len(Buffers)
      /\ Unconsumed.size = Buffers[k].size - elem_offset
      /\ Increment(range, seq_it) = Iterators(range)[k + 1]
      /\ Before(SizesOf(Buffers), k) = Before(SizesOf(Buffers), k - 1) + Buffers[k].size
  BY <1>3, <1>5, ConsumerPlaces DEF ConsumerInv
<1>7. Buffers[k].size \in Nat
  BY <1>6, RangeFacts DEF ConsumerInv
<1>8. /\ to_consume' \in Nat /\ remaining' \in Nat /\ to_consume' <= remaining'
      /\ consumed = Before(SizesOf(Buffers), k) + 0 + to_consume'
      /\ to_consume' = 0 => Buffers[k].size > 0
  <2>1. PICK s \in Nat, b \in Nat : s = Buffers[k].size /\ b = Before(SizesOf(Buffers), k - 1)
    BY <1>6, <1>7
  <2>2. /\ Unconsumed.size = s - elem_offset /\ consumed = b + elem_offset + to_consume
        /\ Before(SizesOf(Buffers), k) = b + s
        /\ elem_offset # 0 => elem_offset < s
    BY <1>5, <1>6, <2>1
  <2>3. /\ to_consume' = to_consume - (s - elem_offset) /\ to_consume # 0
        /\ remaining' = remaining - (s - elem_offset)
        /\ to_consume <= remaining /\ to_consume >= s - elem_offset
    BY <1>2, <1>3, <1>4, <2>2
  <2>4. /\ to_consume' \in Nat /\ remaining' \in Nat /\ to_consume' <= remaining'
        /\ consumed = (b + s) + 0 + to_consume'
        /\ to_consume' = 0 => s > 0
    BY ONLY <1>2, <1>4, <2>2, <2>3, s \in Nat, b \in Nat
  <2>5. Before(SizesOf(Buffers), k) = b + s
    BY <2>2
  <2>6. consumed = Before(SizesOf(Buffers), k) + 0 + to_consume'
    BY ONLY <2>4, <2>5
  <2>7. to_consume' = 0 => Buffers[k].size > 0
    BY <2>1, <2>4
  <2> QED BY <2>4, <2>6, <2>7
<1>9. /\ k + 1 \in 1..(Len(Buffers) + 1) /\ (k + 1) - 1 = k
  BY <1>1, <1>6
<1>10. to_consume' # NoCall
  BY <1>8 DEF NoCall
<1> DEFINE j == k + 1
           left == to_consume'
<1>11. /\ j \in 1..(Len(Buffers) + 1) /\ seq_it' = Iterators(range)[j]
       /\ consumed' = Before(SizesOf(Buffers), j - 1) + elem_offset' + left
       /\ left = 0 => Buffers[j - 1].size > 0
       /\ left = IF to_consume' = NoCall THEN 0 ELSE to_consume'
  BY <1>3, <1>6, <1>8, <1>9, <1>10
<1>12. /\ to_consume' \in Nat \cup {NoCall} /\ remaining' \in Nat /\ elem_offset' \in Nat
       /\ consumed' \in Nat /\ consumed' <= SizeOfRange /\ left <= remaining'
       /\ UNCHANGED fixed /\ aborted' = FALSE /\ elem_offset' = 0
  BY <1>2, <1>3, <1>8
<1> HIDE DEF j, left
<1> QED BY <1>5, <1>11, <1>12, ConsumerMoves

\* The loop has run out of bytes to consume before it runs out of buffers.
LEMMA ConsumeReturnsInv ==
  ASSUME ConsumerInv, ConsumeReturns
  PROVE  ConsumerInv'
<1>1. PICK k \in 1..(Len(Buffers) + 1) :
        /\ StandsAt(k)
        /\ AtEnd => /\ elem_offset = 0 \/ Single
                    /\ ~Single => consumed = SizeOfRange + LeftToDo
  BY ConsumerNumbers
<1>2. /\ elem_offset \in Nat /\ remaining \in Nat /\ consumed \in Nat /\ SizeOfRange \in Nat
      /\ consumed <= SizeOfRange /\ LeftToDo <= remaining
      /\ to_consume \in Nat \cup {NoCall} /\ aborted = FALSE
  BY ConsumerNumbers
<1>3. to_consume # NoCall /\ (to_consume = 0 \/ AtEnd)
  BY DEF ConsumeReturns
<1>4. LeftToDo = to_consume /\ to_consume \in Nat /\ ~Single
  BY <1>1, <1>2, <1>3 DEF LeftToDo, StandsAt
<1>5. to_consume = 0
  BY <1>1, <1>2, <1>3, <1>4
<1>6. /\ to_consume' = NoCall
      /\ UNCHANGED <<fixed, seq_it, elem_offset, remaining, aborted, consumed>>
  BY <1>5 DEF ConsumeReturns
<1>7. /\ seq_it = Iterators(range)[k]
      /\ consumed = Before(SizesOf(Buffers), k - 1) + elem_offset + 0
      /\ elem_offset # 0 => k <= Len(Buffers) /\ elem_offset < Buffers[k].size
      /\ elem_offset = 0 => k = 1 \/ Buffers[k - 1].size > 0
  BY <1>1, <1>4, <1>5 DEF StandsAt
<1> DEFINE left == 0
<1>8. /\ left = IF to_consume' = NoCall THEN 0 ELSE to_consume'
      /\ left <= remaining' /\ consumed' <= SizeOfRange
      /\ consumed' = Before(SizesOf(Buffers), k - 1) + elem_offset' + left
      /\ to_consume' \in Nat \cup {NoCall} /\ aborted' = FALSE /\ seq_it' = Iterators(range)[k]
      /\ elem_offset' \in Nat /\ remaining' \in Nat /\ consumed' \in Nat
  BY <1>2, <1>6, <1>7
<1>9. /\ elem_offset' # 0 => k <= Len(Buffers) /\ elem_offset' < Buffers[k].size
      /\ elem_offset' = 0 => k = 1 \/ Buffers[k - 1].size > 0
      /\ UNCHANGED fixed
  BY <1>6, <1>7
<1> HIDE DEF left
<1> QED BY <1>4, <1>8, <1>9, ConsumerMoves

\* The invariant of a buffers_consumer holds in every state.
THEOREM ConsumerStaysValid == ConsumerSpec => []ConsumerInv
<1>1. ASSUME ConsumerInv, [ConsumerNext]_consumer_vars PROVE ConsumerInv'
  <2>1. CASE \E n \in 0..MaxClamp : Consume(n) \/ ConsumeSingle(n)
    <3>1. \A n \in 0..MaxClamp : n \in Nat
      BY BoundsAssumption
    <3> QED BY <1>1, <2>1, <3>1, ConsumeInv, ConsumeSingleInv
  <2>2. CASE SkipInto
    BY <1>1, <2>2, SkipIntoInv
  <2>3. CASE Discard
    BY <1>1, <2>3, DiscardInv
  <2>4. CASE ConsumeReturns
    BY <1>1, <2>4, ConsumeReturnsInv
  <2>5. CASE UNCHANGED consumer_vars
    BY <1>1, <2>5 DEF consumer_vars, fixed, ConsumerInv, OfOperands, LeftToDo, StandsAt,
      Buffers, SizeOfRange, Single
  <2> QED BY <1>1, <2>1, <2>2, <2>3, <2>4, <2>5 DEF ConsumerNext
<1> QED BY <1>1, ConsumerInitInv, PTL DEF ConsumerSpec

-----------------------------------------------------------------------------
(* What the consumer shows *)

\* The o-th byte of the k-th buffer is the p-th of all: o is inside the buffer, or
\* the buffer before it has bytes.
IsPlaceOf(seq, p, k, o) ==
  /\ p = Before(seq, k - 1) + o
  /\ o # 0 => k <= Len(seq) /\ o < seq[k]
  /\ o = 0 => k = 1 \/ seq[k - 1] > 0

\* One consume() of p bytes goes to the only place with p bytes before it that
\* is inside a buffer or behind one that has bytes.
LEMMA ConsumedAtOnce ==
  ASSUME NEW seq \in Seq(Nat), NEW p \in Nat, NEW n \in Nat, p <= buffer_size(seq), p <= n,
         NEW k \in 1..(Len(seq) + 1), NEW o \in Nat, IsPlaceOf(seq, p, k, o),
         NEW c, c = consume(buffers_consumer(seq, n), p)
  PROVE  c.bufs = seq /\ c.it = k /\ c.off = o /\ c.rem = n - p
<1> DEFINE L == Len(seq)
           B(i) == Before(seq, i)
           c0 == buffers_consumer(seq, n)
           r == n - p
           j == IF o = 0 THEN k - 1 ELSE k
           HoldsIt(l) == B(l) >= p /\ \A i \in 1..(l - 1) : B(i) < p
           last == CHOOSE l \in 1..L : HoldsIt(l)
<1>1. L \in Nat /\ \A i \in 1..L : seq[i] \in Nat
  BY LenProperties, ElementOfSeq
<1>2. /\ B(0) = 0 /\ \A i \in 0..L : B(i) \in Nat
      /\ \A i \in 1..L : B(i) = B(i - 1) + seq[i]
      /\ buffer_size(seq) = B(L)
  BY BeforeFacts
<1>3. \A l \in 0..L : \A i \in 0..l : B(i) <= B(l)
  BY BeforeMonotone
<1>4. /\ c0 = [bufs |-> seq, it |-> 1, off |-> 0, rem |-> n, status |-> "running"]
      /\ c = consume(c0, p)
  BY DEF buffers_consumer
<1>5. Position(c0) = 0 /\ c0.rem = n /\ c0.bufs = seq /\ c0.it = 1
  <2>1. Position(c0) = B(1 - 1) + 0
    BY <1>4 DEF Position
  <2> HIDE DEF B, c0
  <2> QED BY <1>2, <1>4, <2>1
<1> HIDE DEF c0, L
<1>6. k \in 1..(L + 1) /\ k \in Nat /\ k - 1 \in 0..L
  BY <1>1 DEF L
<1>7. /\ p = B(k - 1) + o /\ B(k - 1) \in Nat /\ r \in Nat
      /\ o # 0 => k \in 1..L /\ o < seq[k]
      /\ o = 0 => k = 1 \/ seq[k - 1] > 0
  BY <1>2, <1>6 DEF L, IsPlaceOf
<1> HIDE DEF B
<1>8. CASE p = 0
  <2>1. c = c0
    BY <1>4, <1>8 DEF consume
  <2>2. o = 0 /\ B(k - 1) = 0
    BY <1>7, <1>8
  <2>3. k = 1
    <3>1. SUFFICES ASSUME k # 1 PROVE FALSE
      OBVIOUS
    <3>2. k - 1 \in 1..L /\ (k - 1) - 1 \in 0..L
      BY <1>1, <1>6, <3>1
    <3>3. B(k - 1) = B((k - 1) - 1) + seq[k - 1] /\ B((k - 1) - 1) \in Nat /\ seq[k - 1] \in Nat
      BY <1>1, <1>2, <3>2
    <3>4. seq[k - 1] > 0 /\ B(k - 1) = 0
      BY <1>7, <2>2, <3>1
    <3> QED BY ONLY <3>3, <3>4
  <2> QED BY <1>4, <1>8, <2>1, <2>2, <2>3
<1>9. CASE p # 0
  <2>1. L # 0
    BY <1>2, <1>9 DEF L, B
  <2>2. ~empty(c0) /\ ~(p > buffer_size(c0.bufs) - Position(c0))
    <3>1. ~AtStop(c0)
      BY <1>1, <1>5, <2>1 DEF AtStop, L
    <3>2. L \in 0..L
      BY <1>1
    <3>3. buffer_size(seq) \in Nat
      BY <1>2, <3>2
    <3> QED BY <1>5, <1>9, <3>1, <3>3 DEF empty
  <2>3. Position(c0) + p = p /\ n - p = r
    BY <1>5
  <2>4. c = [Landed(c0, p) EXCEPT !.rem = r]
    BY <1>4, <1>5, <1>9, <2>2, <2>3 DEF consume
  <2>5. Landed(c0, p) = IF B(last) = p
                        THEN [c0 EXCEPT !.it = last + 1, !.off = 0]
                        ELSE [c0 EXCEPT !.it = last, !.off = p - B(last - 1)]
    <3> DEFINE found == CHOOSE l \in c0.it..Len(c0.bufs) :
                          /\ Before(c0.bufs, l) >= p
                          /\ \A i \in c0.it..(l - 1) : Before(c0.bufs, i) < p
    <3>1. last = found
      BY <1>5 DEF L, B
    <3>2. Landed(c0, p) = IF Before(c0.bufs, found) = p
                          THEN [c0 EXCEPT !.it = found + 1, !.off = 0]
                          ELSE [c0 EXCEPT !.it = found, !.off = p - Before(c0.bufs, found - 1)]
      BY DEF Landed
    <3> HIDE DEF last, found
    <3> QED BY <1>5, <3>1, <3>2 DEF B
  <2>6. j \in 1..L /\ B(j) \in Nat /\ B(j - 1) \in Nat /\ B(j) = B(j - 1) + seq[j]
        /\ seq[j] \in Nat /\ j - 1 \in 0..L /\ j \in Nat
    <3>1. o = 0 => k # 1
      BY <1>2, <1>7, <1>9
    <3>2. j \in 1..L
      BY <1>1, <1>6, <1>7, <3>1
    <3>3. j - 1 \in 0..L /\ j \in 0..L /\ j \in Nat
      BY <1>1, <3>2
    <3> HIDE DEF j
    <3> QED BY <1>1, <1>2, <3>2, <3>3
  <2>7. /\ B(j) >= p /\ B(j - 1) < p /\ (B(j) = p <=> o = 0)
        /\ o = 0 => k = j + 1
        /\ o # 0 => k = j /\ o = p - B(j - 1)
    <3>1. CASE o = 0
      <4>1. j = k - 1 /\ B(j) = p /\ k # 1
        BY <1>2, <1>7, <1>9, <3>1
      <4>2. seq[j] > 0
        BY <1>7, <3>1, <4>1
      <4> HIDE DEF j
      <4> QED BY <1>6, <2>6, <3>1, <4>1, <4>2
    <3>2. CASE o # 0
      <4>1. j = k
        BY <3>2
      <4> HIDE DEF j
      <4>2. p = B(j - 1) + o /\ o < seq[j]
        BY <1>7, <3>2, <4>1
      <4>3. PICK b \in Nat, s \in Nat : b = B(j - 1) /\ s = seq[j]
        BY <2>6
      <4>4. B(j) = b + s /\ p = b + o /\ o < s /\ o \in Nat
        BY <2>6, <4>2, <4>3
      <4>5. B(j) >= p /\ b < p /\ B(j) # p /\ o = p - b
        BY ONLY <3>2, <4>4, b \in Nat, s \in Nat
      <4> QED BY <3>2, <4>1, <4>3, <4>5
    <3> QED BY <3>1, <3>2
  <2> HIDE DEF j
  <2>8. HoldsIt(j)
    <3>1. ASSUME NEW i \in 1..(j - 1) PROVE B(i) < p
      <4>1. i \in 0..(j - 1) /\ i \in 0..L
        BY <1>1, <2>6
      <4>2. B(i) <= B(j - 1) /\ B(i) \in Nat
        BY <1>2, <1>3, <2>6, <4>1
      <4> QED BY <2>6, <2>7, <4>2
    <3> QED BY <2>7, <3>1
  <2>9. ASSUME NEW l \in 1..L, HoldsIt(l) PROVE l = j
    <3>1. CASE l < j
      <4>1. l \in 1..(j - 1) /\ l \in 0..L
        BY <1>1, <2>6, <3>1
      <4>2. B(l) < p /\ B(l) >= p /\ B(l) \in Nat
        BY <1>2, <2>8, <2>9, <4>1
      <4> QED BY <4>2
    <3>2. CASE l > j
      <4>1. j \in 1..(l - 1)
        BY <1>1, <2>6, <3>2
      <4>2. B(j) < p
        BY <2>9, <4>1
      <4> QED BY <2>6, <2>7, <4>2
    <3> QED BY <1>1, <2>6, <3>1, <3>2
  <2>10. last = j
    <3> HIDE DEF HoldsIt
    <3> QED BY <2>6, <2>8, <2>9
  <2> HIDE DEF last
  <2>11. CASE o = 0
    <3>1. c = [[c0 EXCEPT !.it = k, !.off = 0] EXCEPT !.rem = r]
      BY <2>4, <2>5, <2>7, <2>10, <2>11
    <3> QED BY <1>4, <2>11, <3>1
  <2>12. CASE o # 0
    <3>1. c = [[c0 EXCEPT !.it = k, !.off = o] EXCEPT !.rem = r]
      BY <2>4, <2>5, <2>7, <2>10, <2>12
    <3> QED BY <1>4, <2>12, <3>1
  <2> QED BY <2>11, <2>12
<1> QED BY <1>8, <1>9

\* The size of a view clamped.
LEMMA ClampedSize ==
  ASSUME NEW from, NEW size, NEW m
  PROVE  /\ Clamped(Buffer(from, size), m) = Buffer(from, IF m < size THEN m ELSE size)
         /\ Buffer(from, size).size = size /\ Buffer(from, size).from = from
BY DEF Clamped, Buffer

\* The size of what next(n) returns.
LEMMA NextPartSize ==
  ASSUME ~AtEnd, NEW n
  PROVE  NextPart(n) = Buffer(Unconsumed.from,
           IF Smaller(n, remaining) < Unconsumed.size THEN Smaller(n, remaining)
           ELSE Unconsumed.size)
<1> DEFINE u == Dereference(range, seq_it)
           m == Smaller(n, remaining)
<1>1. Unconsumed = Buffer(u.from + elem_offset, u.size - elem_offset)
  BY DEF Unconsumed, Plus
<1>2. NextPart(n) = Clamped(Unconsumed, m)
  BY DEF NextPart
<1> HIDE DEF u, m
<1>3. Unconsumed = Buffer(Unconsumed.from, Unconsumed.size)
  BY <1>1, ClampedSize
<1> QED BY <1>2, <1>3, ClampedSize DEF m

\* The invariant says where a consumer is that is not in consume().
LEMMA ConsumesAsOneInv == ConsumerInv => ConsumesAsOne
<1> SUFFICES ASSUME ConsumerInv, to_consume = NoCall, NEW n \in 0..MaxClamp
             PROVE  LET flat == consume(buffers_consumer(SizesOf(Buffers), remaining + consumed),
                                        consumed)
                    IN NextPart(n).size = NextSize(flat, n)
  BY DEF ConsumesAsOne, ConsumerInv
<1> DEFINE L == Len(Buffers)
           sizes == SizesOf(Buffers)
           flat == consume(buffers_consumer(sizes, remaining + consumed), consumed)
<1>1. OfOperands
  BY DEF ConsumerInv
<1>2. /\ Buffers \in Seq(Views) /\ L \in Nat
      /\ Single => L = 1
      /\ SizeOfRange = Before(sizes, L)
      /\ \A i \in 1..L : Buffers[i].size \in Nat
  BY <1>1, RangeFacts
<1>3. /\ sizes \in Seq(Nat) /\ Len(sizes) = L /\ \A i \in 1..L : sizes[i] = Buffers[i].size
      /\ buffer_size(sizes) = SizeOfRange /\ Before(sizes, 0) = 0
  BY <1>2, SizesFacts, SumFacts
<1>4. PICK k \in 1..(L + 1) : StandsAt(k)
  BY DEF ConsumerInv
<1>5. /\ elem_offset \in Nat /\ remaining \in Nat /\ consumed \in Nat
      /\ consumed <= buffer_size(sizes) /\ LeftToDo = 0 /\ n \in Nat
  BY <1>3, BoundsAssumption DEF ConsumerInv, LeftToDo
<1>6. /\ seq_it = Iterators(range)[k]
      /\ consumed = Before(sizes, k - 1) + elem_offset + 0
      /\ Single => k = 1 /\ elem_offset + remaining <= Buffers[1].size
      /\ ~Single /\ elem_offset # 0 => k <= L /\ elem_offset < Buffers[k].size
      /\ ~Single /\ elem_offset = 0 => k = 1 \/ Buffers[k - 1].size > 0
  BY <1>4, <1>5 DEF StandsAt
<1>7. /\ AtEnd <=> k = L + 1
      /\ ~AtEnd => k \in 1..L /\ Unconsumed.size = Buffers[k].size - elem_offset
      /\ Before(sizes, k - 1) \in Nat
      /\ ~AtEnd => Before(sizes, k) = Before(sizes, k - 1) + Buffers[k].size
  BY <1>1, <1>6, ConsumerPlaces
<1>8. consumed = Before(sizes, k - 1) + elem_offset
  BY <1>5, <1>6, <1>7
<1> DEFINE clamp == remaining + consumed
<1>13. /\ flat = consume(buffers_consumer(sizes, clamp), consumed)
       /\ clamp \in Nat /\ consumed <= clamp /\ clamp - consumed = remaining
  BY <1>5
<1> HIDE DEF sizes, L, flat, clamp
<1>14. /\ sizes \in Seq(Nat) /\ consumed \in Nat /\ clamp \in Nat
       /\ consumed <= buffer_size(sizes) /\ consumed <= clamp
       /\ flat = consume(buffers_consumer(sizes, clamp), consumed)
  BY <1>3, <1>5, <1>13
<1>15. ASSUME NEW i \in 1..(Len(sizes) + 1), NEW o \in Nat, IsPlaceOf(sizes, consumed, i, o)
       PROVE  flat.bufs = sizes /\ flat.it = i /\ flat.off = o /\ flat.rem = remaining
  <2>1. flat.bufs = sizes /\ flat.it = i /\ flat.off = o /\ flat.rem = clamp - consumed
    BY ONLY <1>14, <1>15, ConsumedAtOnce
  <2> QED BY <1>13, <2>1
<1>9. /\ AtEnd => NextPart(n).size = 0
      /\ ~AtEnd => NextPart(n).size = IF Smaller(n, remaining) < Unconsumed.size
                                      THEN Smaller(n, remaining) ELSE Unconsumed.size
  BY NextPartSize, ClampedSize DEF NextPart
<1>10. CASE flat.bufs = sizes /\ flat.it = k /\ flat.off = elem_offset /\ flat.rem = remaining
  <2>1. CASE AtEnd
    <3>1. AtStop(flat)
      BY <1>2, <1>3, <1>7, <1>10, <2>1 DEF AtStop
    <3> QED BY <1>9, <2>1, <3>1 DEF NextSize, flat, sizes
  <2>2. CASE ~AtEnd
    <3>1. ~AtStop(flat) /\ flat.bufs[flat.it] = Buffers[k].size
      BY <1>2, <1>3, <1>7, <1>10, <2>2 DEF AtStop
    <3>2. NextSize(flat, n) = Smaller(Smaller(n, remaining), Unconsumed.size)
      BY <1>7, <1>10, <2>2, <3>1 DEF NextSize
    <3>3. NextPart(n).size = NextSize(flat, n)
      <4> DEFINE m == Smaller(n, remaining)
                 z == Unconsumed.size
      <4>1. m \in Nat /\ z \in Int
        BY <1>2, <1>5, <1>7, <2>2 DEF Smaller
      <4>2. NextPart(n).size = (IF m < z THEN m ELSE z) /\ NextSize(flat, n) = Smaller(m, z)
        BY <1>9, <2>2, <3>2
      <4> HIDE DEF m, z
      <4> QED BY <4>1, <4>2 DEF Smaller
    <3> QED BY <3>3 DEF flat, sizes
  <2> QED BY <2>1, <2>2
<1>11. CASE ~Single
  <2>1. IsPlaceOf(sizes, consumed, k, elem_offset)
    <3>1. /\ elem_offset # 0 => k <= Len(sizes) /\ elem_offset < sizes[k]
          /\ elem_offset = 0 => k = 1 \/ sizes[k - 1] > 0
      BY <1>2, <1>3, <1>6, <1>11
    <3> QED BY <1>8, <3>1 DEF IsPlaceOf
  <2>2. k \in 1..(Len(sizes) + 1)
    BY <1>3, <1>4
  <2>3. flat.bufs = sizes /\ flat.it = k /\ flat.off = elem_offset /\ flat.rem = remaining
    BY <1>5, <1>15, <2>1, <2>2
  <2> QED BY <1>10, <2>3
<1>12. CASE Single
  <2>1. k = 1 /\ L = 1 /\ elem_offset + remaining <= Buffers[1].size /\ 1 \in 1..L
    BY <1>2, <1>6, <1>12 DEF L
  <2>2. /\ Before(sizes, 0) = 0 /\ consumed = elem_offset /\ Buffers[1].size \in Nat
        /\ sizes[1] = Buffers[1].size /\ Len(sizes) = 1
    BY <1>2, <1>3, <1>5, <1>8, <2>1
  <2>3. CASE elem_offset = 0 \/ elem_offset < Buffers[1].size
    <3>1. IsPlaceOf(sizes, consumed, k, elem_offset) /\ k \in 1..(Len(sizes) + 1)
      BY <1>8, <2>1, <2>2, <2>3 DEF IsPlaceOf
    <3>2. flat.bufs = sizes /\ flat.it = k /\ flat.off = elem_offset /\ flat.rem = remaining
      BY <1>5, <1>15, <3>1
    <3> QED BY <1>10, <3>2
  <2>4. CASE elem_offset # 0 /\ ~(elem_offset < Buffers[1].size)
    <3>1. elem_offset = Buffers[1].size /\ remaining = 0 /\ Buffers[1].size > 0
      <4>1. PICK s \in Nat : s = Buffers[1].size
        BY <2>2
      <4>2. elem_offset + remaining <= s /\ elem_offset # 0 /\ ~(elem_offset < s)
        BY <2>1, <2>4, <4>1
      <4> QED BY <1>5, <4>1, <4>2
    <3>2. ~AtEnd /\ Before(sizes, 1) = elem_offset
      <4>1. ~AtEnd
        BY <1>7, <2>1
      <4>2. Before(sizes, k) = Before(sizes, k - 1) + Buffers[k].size /\ k - 1 = 0
        BY <1>7, <2>1, <4>1
      <4> QED BY <2>1, <2>2, <3>1, <4>1, <4>2
    <3>0. PICK j \in Nat, o \in Nat : j = 2 /\ o = 0
      OBVIOUS
    <3>3. j \in 1..(Len(sizes) + 1) /\ o \in Nat /\ IsPlaceOf(sizes, consumed, j, o)
      BY <1>5, <2>2, <3>0, <3>1, <3>2 DEF IsPlaceOf
    <3>4. flat.bufs = sizes /\ flat.it = j /\ flat.off = o /\ flat.rem = remaining
      BY <1>15, <3>3
    <3>5. AtStop(flat)
      <4>1. flat.it = 2 /\ Len(flat.bufs) = 1
        BY <2>2, <3>0, <3>4
      <4> QED BY <4>1 DEF AtStop
    <3>6. NextPart(n).size = 0
      <4>1. Unconsumed.size = 0
        <5>1. PICK s \in Nat : s = Buffers[1].size
          BY <2>2
        <5>2. Unconsumed.size = s - s
          BY <1>7, <2>1, <3>1, <3>2, <5>1
        <5> QED BY <5>2
      <4>2. ~(Smaller(n, remaining) < 0)
        BY <1>5 DEF Smaller
      <4> QED BY <1>9, <3>2, <4>1, <4>2
    <3> QED BY <3>5, <3>6 DEF NextSize, flat, sizes
  <2> QED BY <1>5, <2>3, <2>4
<1> QED BY <1>11, <1>12

\* After any calls of consume() the next parts are those of a flat sequence of
\* the same buffers, of which one consume() took all the bytes, and no assertion
\* fires: for every range, clamp and order of calls (buffers_consumer.hpp:65-122).
THEOREM ManyConsumeAsOne == ConsumerSpec => []ConsumesAsOne
BY ConsumerStaysValid, ConsumesAsOneInv, PTL

-----------------------------------------------------------------------------
(* The bytes ahead *)

\* Part of a sequence.
LEMMA PartFacts ==
  ASSUME NEW S, NEW s \in Seq(S), NEW a \in Nat, NEW b \in Nat, a <= b, b <= Len(s)
  PROVE  /\ SubSeq(s, a + 1, b) \in Seq(S) /\ Len(SubSeq(s, a + 1, b)) = b - a
         /\ \A q \in 1..(b - a) : SubSeq(s, a + 1, b)[q] = s[a + q]
<1> DEFINE m == a + 1
<1>1. m \in Int /\ b \in Int /\ b - m + 1 = b - a /\ (m <= b <=> b - a # 0)
  OBVIOUS
<1>2. \A k \in m..b : s[k] \in S
  <2>1. \A k \in m..b : k \in 1..Len(s)
    BY LenProperties
  <2> QED BY <2>1, ElementOfSeq
<1>3. \A q \in 1..(b - a) : m + q - 1 = a + q
  OBVIOUS
<1> HIDE DEF m
<1>4. /\ SubSeq(s, m, b) \in Seq(S)
      /\ Len(SubSeq(s, m, b)) = IF m <= b THEN b - m + 1 ELSE 0
      /\ \A q \in 1..(b - m + 1) : SubSeq(s, m, b)[q] = s[m + q - 1]
  BY <1>1, <1>2, SubSeqProperties
<1> QED BY <1>1, <1>3, <1>4 DEF m

\* Part of what is behind the first elements is part of the whole.
LEMMA PartOfRest ==
  ASSUME NEW S, NEW s \in Seq(S), NEW a \in Nat, NEW b \in Nat, NEW c \in Nat,
         b <= c, a + c <= Len(s), NEW t, t = SubSeq(s, a + 1, Len(s))
  PROVE  SubSeq(t, b + 1, c) = SubSeq(s, a + b + 1, a + c)
<1> DEFINE x == SubSeq(t, b + 1, c)
           y == SubSeq(s, a + b + 1, a + c)
<1>1. Len(s) \in Nat /\ a <= Len(s) /\ c <= Len(s) - a /\ a + b \in Nat /\ a + c \in Nat
      /\ a + b <= a + c
  BY LenProperties
<1>2. /\ t \in Seq(S) /\ Len(t) = Len(s) - a
      /\ \A q \in 1..(Len(s) - a) : t[q] = s[a + q]
  BY <1>1, PartFacts
<1>3. /\ x \in Seq(S) /\ Len(x) = c - b /\ \A q \in 1..(c - b) : x[q] = t[b + q]
  <2> HIDE DEF x
  <2>1. c <= Len(t) /\ x = SubSeq(t, b + 1, c)
    BY <1>1, <1>2 DEF x
  <2> QED BY ONLY <1>2, <2>1, PartFacts, b \in Nat, c \in Nat, b <= c
<1>4. /\ y \in Seq(S) /\ Len(y) = c - b /\ \A q \in 1..(c - b) : y[q] = s[a + b + q]
  <2>1. PICK d \in Nat, e \in Nat : d = a + b /\ e = a + c
    OBVIOUS
  <2>2. e - d = c - b /\ d <= e /\ e <= Len(s) /\ y = SubSeq(s, d + 1, e)
    BY <1>1, <2>1
  <2> HIDE DEF y
  <2>3. /\ y \in Seq(S) /\ Len(y) = e - d /\ \A q \in 1..(e - d) : y[q] = s[d + q]
    BY ONLY <2>2, PartFacts, d \in Nat, e \in Nat, s \in Seq(S)
  <2> QED BY <2>1, <2>2, <2>3
<1>5. ASSUME NEW q \in 1..(c - b) PROVE x[q] = y[q]
  <2>1. b + q \in 1..(Len(s) - a) /\ a + (b + q) = a + b + q
    BY <1>1
  <2> QED BY <1>2, <1>3, <1>4, <2>1
<1> HIDE DEF x, y
<1>6. x = y
  BY <1>3, <1>4, <1>5, SeqEqual
<1> QED BY <1>6 DEF x, y

\* What concatenations have are the bytes of what they were made of: the initial
\* states of a run that checks OperandsAhead show it.
OperandsKept ==
  \A list \in Operands : BytesIn(BuffersOf(Concatenation(list))) = BytesOfOperands(list)

\* Outside of consume(): where the consumer is, and what is ahead of it.
LEMMA AheadFacts ==
  ASSUME ConsumerInv, to_consume = NoCall
  PROVE  \E k \in 1..(Len(Buffers) + 1) :
           /\ StandsAt(k) /\ Place = k /\ Ahead = SubSeq(Buffers, k, Len(Buffers))
           /\ consumed = Before(SizesOf(Buffers), k - 1) + elem_offset
           /\ k <= Len(Buffers) => elem_offset <= Buffers[k].size
           /\ k = Len(Buffers) + 1 => elem_offset = 0
<1> DEFINE its == Iterators(range)
<1>1. OfOperands /\ elem_offset \in Nat /\ remaining \in Nat
  BY DEF ConsumerInv
<1>2. /\ Buffers \in Seq(Views) /\ Len(Buffers) \in Nat /\ Len(its) = Len(Buffers) + 1
      /\ \A i, j \in 1..(Len(Buffers) + 1) : its[i] = its[j] => i = j
      /\ \A i \in 1..Len(Buffers) : Buffers[i].size \in Nat
      /\ Single => Len(Buffers) = 1
  BY <1>1, RangeFacts
<1>3. PICK k \in 1..(Len(Buffers) + 1) : StandsAt(k)
  BY DEF ConsumerInv
<1>4. /\ seq_it = its[k] /\ consumed = Before(SizesOf(Buffers), k - 1) + elem_offset + 0
      /\ Single => k = 1 /\ elem_offset + remaining <= Buffers[1].size
      /\ ~Single /\ elem_offset # 0 => k <= Len(Buffers) /\ elem_offset < Buffers[k].size
  BY <1>3 DEF StandsAt, LeftToDo
<1> HIDE DEF its
<1>5. Place = k
  BY <1>2, <1>4 DEF Place, its
<1>6. Before(SizesOf(Buffers), k - 1) \in Nat
  BY <1>1, <1>4, ConsumerPlaces DEF its
<1>7. consumed = Before(SizesOf(Buffers), k - 1) + elem_offset
  BY <1>1, <1>4, <1>6
<1>8. k <= Len(Buffers) => elem_offset <= Buffers[k].size
  <2>1. SUFFICES ASSUME k <= Len(Buffers) PROVE elem_offset <= Buffers[k].size
    OBVIOUS
  <2>2. PICK z \in Nat : z = Buffers[k].size
    BY <1>2, <2>1
  <2>3. CASE Single
    BY <1>1, <1>4, <2>2, <2>3
  <2>4. CASE ~Single
    BY <1>1, <1>4, <2>2, <2>4
  <2> QED BY <2>3, <2>4
<1>9. k = Len(Buffers) + 1 => elem_offset = 0
  BY <1>1, <1>2, <1>4
<1> QED BY <1>3, <1>5, <1>7, <1>8, <1>9 DEF Ahead

\* The invariant and the operands give the bytes ahead.
LEMMA OperandsAheadInv ==
  ASSUME OperandsKept, ConsumerInv
  PROVE  OperandsAhead
<1> SUFFICES ASSUME to_consume = NoCall
             PROVE  SubSeq(BytesIn(Ahead), elem_offset + 1, Len(BytesIn(Ahead)))
                      = SubSeq(operand_bytes, consumed + 1, Len(operand_bytes))
  BY DEF OperandsAhead
<1> DEFINE all == BytesIn(Buffers)
           b(k) == Before(SizesOf(Buffers), k - 1)
<1>1. OfOperands /\ elem_offset \in Nat /\ consumed \in Nat /\ consumed <= SizeOfRange
  BY DEF ConsumerInv
<1>2. operand_bytes = all
  BY <1>1 DEF OfOperands, OperandsKept, Buffers
<1>3. /\ Buffers \in Seq(Views) /\ SizeOfRange = Before(SizesOf(Buffers), Len(Buffers))
  BY <1>1, RangeFacts
<1>4. all \in Seq(Nat) /\ Len(all) = SizeOfRange /\ SizeOfRange \in Nat
  BY <1>3, BytesFacts, LenProperties
<1>5. PICK k \in 1..(Len(Buffers) + 1) :
        /\ StandsAt(k) /\ Place = k /\ Ahead = SubSeq(Buffers, k, Len(Buffers))
        /\ consumed = b(k) + elem_offset
  BY AheadFacts
<1>6. b(k) \in Nat
  BY <1>1, <1>5, ConsumerPlaces DEF StandsAt
<1>7. BytesIn(Ahead) = SubSeq(all, b(k) + 1, Len(all))
  BY <1>3, <1>5, SuffixBytes
<1> HIDE DEF all, b
<1> DEFINE a == b(k)
           t == BytesIn(Ahead)
<1>8. a \in Nat /\ a <= Len(all) /\ t = SubSeq(all, a + 1, Len(all)) /\ consumed = a + elem_offset
  BY <1>1, <1>4, <1>5, <1>6, <1>7
<1> HIDE DEF a, t
<1>9. Len(t) = Len(all) - a
  BY ONLY <1>4, <1>8, PartFacts
<1>10. Len(t) \in Nat /\ elem_offset <= Len(t) /\ a + Len(t) = Len(all)
  BY ONLY <1>1, <1>4, <1>8, <1>9
<1>11. SubSeq(t, elem_offset + 1, Len(t)) = SubSeq(all, a + elem_offset + 1, a + Len(t))
  BY ONLY <1>1, <1>4, <1>8, <1>10, PartOfRest
<1> QED BY <1>2, <1>8, <1>10, <1>11 DEF t

\* What is ahead are the bytes of the operands that are not consumed, in order,
\* for every range that has the bytes of its operands (buffers_consumer.hpp:65-122).
THEOREM OperandsStayAhead == OperandsKept => (ConsumerSpec => []OperandsAhead)
<1> SUFFICES ASSUME OperandsKept PROVE ConsumerSpec => []OperandsAhead
  OBVIOUS
<1>1. ConsumerInv => OperandsAhead
  BY OperandsAheadInv
<1> QED BY <1>1, ConsumerStaysValid, PTL

-----------------------------------------------------------------------------
(* The vector that next() fills *)

VecStart(m) == [bufs |-> << >>, it |-> seq_it, elem_offset |-> elem_offset, left |-> m]

\* A step of the loop
VecStep(v) ==
  LET buf == Clamped(Plus(Dereference(range, v.it), v.elem_offset), v.left)
  IN IF v.it = EndOf(range) \/ v.left = 0 THEN v
     ELSE [bufs |-> Append(v.bufs, buf), it |-> Increment(range, v.it),
           elem_offset |-> 0, left |-> v.left - buf.size]

\* The bytes that j of the buffers ahead have to give
Reach(j) == IF j = 0 THEN 0 ELSE Before(SizesOf(Ahead), j) - elem_offset

\* The loop has been through j buffers: what the vector has are the next bytes,
\* all those of the j buffers if there are more to prepare
FilledTo(v, m, j) ==
  /\ v.it = Iterators(range)[Place + j]
  /\ v.elem_offset = IF j = 0 THEN elem_offset ELSE 0
  /\ v.bufs \in Seq(Views) /\ v.left \in 0..m
  /\ elem_offset + (m - v.left) <= Len(BytesIn(Ahead))
  /\ BytesIn(v.bufs) = SubSeq(BytesIn(Ahead), elem_offset + 1, elem_offset + (m - v.left))
  /\ IF v.left = 0 THEN m <= Reach(j) ELSE m - v.left = Reach(j)

\* The steps of the loop exist.
LEMMA VecSteps ==
  ASSUME OfOperands, NEW k \in 1..(Len(Buffers) + 1), seq_it = Iterators(range)[k],
         elem_offset \in Nat, NEW m \in Nat
  PROVE  \E f : /\ f[0] = VecStart(m) /\ \A i \in 1..SmallSize : f[i] = VecStep(f[i - 1])
                /\ VecNext(m) = f[SmallSize].bufs
<1> DEFINE L == Len(Buffers)
           Its == {Iterators(range)[i] : i \in 1..(L + 1)}
           Parts == [from : Int, size : Int]
           X == [bufs : Seq(Parts), it : Its, elem_offset : Nat, left : Int]
           F == [i \in 1..SmallSize |-> [v \in X |-> VecStep(v)]]
           Following(f) == [i \in 0..SmallSize |-> IF i = 0 THEN VecStart(m) ELSE VecStep(f[i - 1])]
           filled == CHOOSE f : f = Following(f)
<1>1. /\ L \in Nat /\ Iterators(range)[L + 1] = EndOf(range)
      /\ \A i \in 1..L : /\ Increment(range, Iterators(range)[i]) = Iterators(range)[i + 1]
                         /\ Dereference(range, Iterators(range)[i]) = Buffers[i]
                         /\ Buffers[i].size \in Nat /\ Buffers[i].from \in Nat
  BY RangeFacts
<1>2. SmallSize \in Nat
  BY BoundsAssumption
<1>3. VecStart(m) \in X
  <2>1. seq_it \in Its
    OBVIOUS
  <2>2. << >> \in Seq(Parts) /\ m \in Int
    BY EmptySeq
  <2> HIDE DEF Its, Parts
  <2> QED BY <2>1, <2>2 DEF VecStart
<1>4. ASSUME NEW v \in X PROVE VecStep(v) \in X
  <2> DEFINE u == Dereference(range, v.it)
             part == Plus(u, v.elem_offset)
             buf == Clamped(part, v.left)
  <2>1. VecStep(v) = IF v.it = EndOf(range) \/ v.left = 0 THEN v
                     ELSE [bufs |-> Append(v.bufs, buf), it |-> Increment(range, v.it),
                           elem_offset |-> 0, left |-> v.left - buf.size]
    BY DEF VecStep
  <2>2. CASE v.it = EndOf(range) \/ v.left = 0
    BY <2>1, <2>2
  <2>3. CASE ~(v.it = EndOf(range) \/ v.left = 0)
    <3>1. PICK i \in 1..(L + 1) : v.it = Iterators(range)[i]
      OBVIOUS
    <3>2. i \in 1..L /\ i + 1 \in 1..(L + 1)
      BY <1>1, <2>3, <3>1
    <3>3. Increment(range, v.it) \in Its
      BY <1>1, <3>1, <3>2
    <3>4. u.from \in Nat /\ u.size \in Nat
      BY <1>1, <3>1, <3>2
    <3>5. buf \in Parts
      <4>1. v.elem_offset \in Nat /\ v.left \in Int
        OBVIOUS
      <4>2. part = Buffer(u.from + v.elem_offset, u.size - v.elem_offset)
        BY DEF Plus
      <4> HIDE DEF u, part
      <4>3. buf = Buffer(u.from + v.elem_offset, IF v.left < u.size - v.elem_offset
                                                 THEN v.left ELSE u.size - v.elem_offset)
        BY <4>2, ClampedSize
      <4> QED BY <3>4, <4>1, <4>3 DEF Buffer
    <3>6. Append(v.bufs, buf) \in Seq(Parts)
      <4>1. v.bufs \in Seq(Parts)
        OBVIOUS
      <4> HIDE DEF buf, Parts
      <4> QED BY ONLY <3>5, <4>1, AppendProperties
    <3>7. v.left - buf.size \in Int
      <4>1. buf.size \in Int /\ v.left \in Int
        <5> HIDE DEF buf
        <5> QED BY <3>5
      <4> QED BY <4>1
    <3> HIDE DEF buf, Its, Parts, u, part
    <3> QED BY <2>1, <2>3, <3>3, <3>6, <3>7
  <2> QED BY <2>2, <2>3
<1>5. F \in [1..SmallSize -> [X -> X]]
  <2> HIDE DEF X
  <2> QED BY <1>4
<1>6. PICK g \in [0..SmallSize -> X] :
        g[0] = VecStart(m) /\ \A i \in 1..SmallSize : g[i] = F[i][g[i - 1]]
  <2> HIDE DEF F, X
  <2>1. Steps(X, SmallSize, VecStart(m), F) # {}
    BY ONLY <1>2, <1>3, <1>5, StepsExist
  <2> QED BY <2>1 DEF Steps
<1> HIDE DEF X
<1>7. \A i \in 1..SmallSize : g[i] = VecStep(g[i - 1])
  <2>1. \A i \in 1..SmallSize : i - 1 \in 0..SmallSize
    BY <1>2
  <2> QED BY <1>6, <2>1
<1>8. g = Following(g)
  <2>1. ASSUME NEW i \in 0..SmallSize PROVE g[i] = Following(g)[i]
    <3>1. i = 0 \/ i \in 1..SmallSize
      BY <1>2
    <3>2. i \in 1..SmallSize => i # 0
      BY <1>2
    <3> QED BY <1>6, <1>7, <3>1, <3>2
  <2>2. g = [i \in 0..SmallSize |-> g[i]]
    BY <1>6
  <2> QED BY <2>1, <2>2
<1>9. filled = Following(filled)
  <2> HIDE DEF Following
  <2> QED BY <1>8
<1>10. VecNext(m) = filled[SmallSize].bufs
  BY DEF VecNext, VecStart, VecStep
<1> HIDE DEF filled
<1>11. \A i \in 0..SmallSize :
         filled[i] = IF i = 0 THEN VecStart(m) ELSE VecStep(filled[i - 1])
  BY ONLY <1>9
<1>12. 0 \in 0..SmallSize /\ \A i \in 1..SmallSize : i \in 0..SmallSize /\ i # 0
  BY <1>2
<1> QED BY <1>10, <1>11, <1>12

\* The buffers ahead, as a loop from the iterator on meets them.
LEMMA AheadPlaces ==
  ASSUME ConsumerInv, to_consume = NoCall
  PROVE  /\ Ahead \in Seq(Views) /\ Len(Ahead) \in Nat
         /\ Place \in 1..(Len(Buffers) + 1) /\ seq_it = Iterators(range)[Place]
         /\ \A j \in 0..Len(Ahead) :
              Iterators(range)[Place + j] = EndOf(range) <=> j = Len(Ahead)
         /\ \A j \in 0..(Len(Ahead) - 1) :
              /\ Dereference(range, Iterators(range)[Place + j]) = Ahead[j + 1]
              /\ Increment(range, Iterators(range)[Place + j]) = Iterators(range)[Place + (j + 1)]
         /\ \A j \in 1..Len(Ahead) : Ahead[j].size \in Nat /\ Ahead[j].from \in Nat
         /\ Len(Ahead) # 0 => elem_offset <= Ahead[1].size
         /\ Len(Ahead) = 0 => elem_offset = 0
<1> DEFINE its == Iterators(range)
           L == Len(Buffers)
           A == Ahead
<1>1. OfOperands
  BY DEF ConsumerInv
<1>2. PICK k \in 1..(L + 1) :
        /\ StandsAt(k) /\ Place = k /\ Ahead = SubSeq(Buffers, k, L)
        /\ k <= L => elem_offset <= Buffers[k].size
        /\ k = L + 1 => elem_offset = 0
  BY AheadFacts
<1>3. /\ L \in Nat /\ Buffers \in Seq(Views)
      /\ \A i, j \in 1..(L + 1) : its[i] = its[j] => i = j
      /\ its[L + 1] = EndOf(range)
      /\ \A i \in 1..L : Increment(range, its[i]) = its[i + 1] /\ Dereference(range, its[i]) = Buffers[i]
  BY <1>1, RangeFacts
<1>4. /\ A \in Seq(Views) /\ Len(A) = L - k + 1
      /\ \A i \in 1..Len(A) : A[i] = Buffers[k + i - 1] /\ k + i - 1 \in 1..L
  BY <1>2, <1>3, SuffixFacts
<1>5. \A j \in 1..Len(A) : A[j].size \in Nat /\ A[j].from \in Nat
  BY <1>4, SizesFacts
<1>6. seq_it = its[k]
  BY <1>2 DEF StandsAt
<1> HIDE DEF its, L, A
<1>7. Len(A) \in Nat /\ k \in Nat
  BY <1>2, <1>3, <1>4
<1>8. ASSUME NEW j \in 0..Len(A) PROVE its[k + j] = EndOf(range) <=> j = Len(A)
  <2>1. k + j \in 1..(L + 1) /\ L + 1 \in 1..(L + 1) /\ (k + j = L + 1 <=> j = Len(A))
    BY <1>2, <1>3, <1>4, <1>7
  <2> QED BY <1>3, <2>1
<1>9. ASSUME NEW j \in 0..(Len(A) - 1)
      PROVE  /\ Dereference(range, its[k + j]) = A[j + 1]
             /\ Increment(range, its[k + j]) = its[k + (j + 1)]
  <2>1. j + 1 \in 1..Len(A) /\ k + (j + 1) - 1 = k + j /\ (k + j) + 1 = k + (j + 1)
    BY <1>7
  <2>2. A[j + 1] = Buffers[k + j] /\ k + j \in 1..L
    BY <1>4, <2>1
  <2> QED BY <1>3, <2>1, <2>2
<1>10. ASSUME Len(A) # 0 PROVE elem_offset <= A[1].size
  <2>1. k <= L /\ 1 \in 1..Len(A) /\ k + 1 - 1 = k
    BY <1>2, <1>3, <1>4, <1>7, <1>10
  <2> QED BY <1>2, <1>4, <2>1 DEF L
<1>11. ASSUME Len(A) = 0 PROVE elem_offset = 0
  <2>1. k = L + 1
    BY <1>3, <1>4, <1>7, <1>11
  <2> QED BY <1>2, <2>1 DEF L
<1> QED BY <1>2, <1>4, <1>5, <1>6, <1>7, <1>8, <1>9, <1>10, <1>11 DEF its, L, A

\* A step of the loop that takes a buffer has what is ahead up to there.
LEMMA FillsOneMore ==
  ASSUME ConsumerInv, to_consume = NoCall, NEW m \in Nat, NEW v, NEW j \in 0..Len(Ahead),
         FilledTo(v, m, j), v.left # 0, j # Len(Ahead)
  PROVE  j + 1 \in 0..Len(Ahead) /\ FilledTo(VecStep(v), m, j + 1)
<1> DEFINE A == Ahead
           its == Iterators(range)
           all == BytesIn(A)
           C(i) == Before(SizesOf(A), i)
           e == elem_offset
           w == VecStep(v)
<1>1. /\ A \in Seq(Views) /\ Len(A) \in Nat
      /\ \A i \in 0..Len(A) : its[Place + i] = EndOf(range) <=> i = Len(A)
      /\ \A i \in 0..(Len(A) - 1) : /\ Dereference(range, its[Place + i]) = A[i + 1]
                                    /\ Increment(range, its[Place + i]) = its[Place + (i + 1)]
      /\ \A i \in 1..Len(A) : A[i].size \in Nat /\ A[i].from \in Nat
      /\ Len(A) # 0 => e <= A[1].size
  BY AheadPlaces
<1>2. e \in Nat
  BY DEF ConsumerInv
<1>3. /\ C(0) = 0 /\ (\A i \in 0..Len(A) : C(i) \in Nat)
      /\ \A i \in 1..Len(A) : C(i) = C(i - 1) + A[i].size
  BY <1>1, SumFacts
<1>4. /\ v.it = its[Place + j] /\ v.elem_offset = IF j = 0 THEN e ELSE 0
      /\ v.bufs \in Seq(Views) /\ v.left \in 0..m
      /\ e + (m - v.left) <= Len(all)
      /\ BytesIn(v.bufs) = SubSeq(all, e + 1, e + (m - v.left))
      /\ m - v.left = IF j = 0 THEN 0 ELSE C(j) - e
  BY DEF FilledTo, Reach
<1>5. all \in Seq(Nat) /\ Len(all) \in Nat
  BY <1>1, BytesFacts, LenProperties
<1> DEFINE u == A[j + 1]
           o == v.elem_offset
           l == v.left
           z == IF l < u.size - o THEN l ELSE u.size - o
           buf == Buffer(u.from + o, z)
<1>6. j \in Nat /\ j # Len(A) /\ j \in 0..(Len(A) - 1) /\ j + 1 \in 1..Len(A)
      /\ j + 1 \in 0..Len(A) /\ (j + 1) - 1 = j /\ j + 1 # 0
  BY <1>1
<1>7. w = [bufs |-> Append(v.bufs, buf), it |-> its[Place + (j + 1)], elem_offset |-> 0,
           left |-> l - z]
  <2>1. v.it # EndOf(range) /\ Dereference(range, v.it) = u
        /\ Increment(range, v.it) = its[Place + (j + 1)]
    BY <1>1, <1>4, <1>6
  <2> DEFINE q == Clamped(Plus(Dereference(range, v.it), v.elem_offset), v.left)
  <2>2. w = [bufs |-> Append(v.bufs, q), it |-> Increment(range, v.it),
             elem_offset |-> 0, left |-> v.left - q.size]
    BY <2>1 DEF VecStep
  <2>3. q = Clamped(Buffer(u.from + o, u.size - o), l)
    BY <2>1 DEF Plus
  <2> HIDE DEF q, u, o, l, w
  <2>4. q = buf /\ buf.size = z
    BY <2>3, ClampedSize
  <2> QED BY <2>1, <2>2, <2>4 DEF l
<1>8. u.size \in Nat /\ u.from \in Nat /\ u \in Views
  BY <1>1, <1>6, ElementOfSeq DEF Views
<1>9. o \in Nat /\ o <= u.size
  <2>1. CASE j = 0
    BY <1>1, <1>2, <1>4, <1>6, <2>1
  <2>2. CASE j # 0
    BY <1>4, <1>8, <2>2
  <2> QED BY <2>1, <2>2
<1>10. l \in Nat /\ l # 0 /\ l <= m
  BY <1>4
<1> HIDE DEF A, its, all, C, e, w, u, o, l
<1>11. z \in Nat /\ o + z <= u.size /\ z <= l /\ (z = l \/ z = u.size - o)
  BY <1>8, <1>9, <1>10
<1> DEFINE done == m - l
           c == C(j)
           s == u.size
<1>12. done \in Nat /\ c \in Nat /\ s \in Nat /\ C(j + 1) = c + s /\ c + o = e + done
       /\ e + done <= Len(all) /\ BytesIn(v.bufs) = SubSeq(all, e + 1, e + done)
  <2>1. c \in Nat /\ C(j + 1) = c + s /\ s \in Nat
    BY <1>3, <1>6, <1>8 DEF u
  <2>2. done \in Nat
    BY <1>10
  <2>3. c + o = e + done
    <3>1. CASE j = 0
      <4>1. c = 0 /\ o = e /\ done = 0
        BY <1>3, <1>4, <3>1 DEF o, l
      <4> QED BY <1>2, <4>1
    <3>2. CASE j # 0
      <4>1. o = 0 /\ done = c - e
        BY <1>4, <3>2 DEF o, l
      <4> HIDE DEF c, done
      <4> QED BY <1>2, <2>1, <2>2, <4>1
    <3> QED BY <3>1, <3>2
  <2> QED BY <1>4, <2>1, <2>2, <2>3 DEF l
<1> HIDE DEF z, c, s
<1>13. /\ c + o + z <= Len(all)
       /\ ViewedBytes(buf) = SubSeq(all, c + o + 1, c + o + z)
  <2>1. /\ Before(SizesOf(A), (j + 1) - 1) + o + z <= Len(BytesIn(A))
        /\ ViewedBytes(Buffer(A[j + 1].from + o, z)) =
             SubSeq(BytesIn(A), Before(SizesOf(A), (j + 1) - 1) + o + 1,
                    Before(SizesOf(A), (j + 1) - 1) + o + z)
    BY <1>1, <1>6, <1>9, <1>11, PartOfBytes DEF u
  <2> QED BY <1>6, <2>1 DEF c, C, all, u
<1>14. buf \in Views
  BY <1>8, <1>9, <1>11 DEF Buffer, Views
<1> HIDE DEF buf, done
<1>15. BytesIn(Append(v.bufs, buf)) = SubSeq(all, e + 1, e + (done + z))
       /\ Append(v.bufs, buf) \in Seq(Views) /\ e + (done + z) <= Len(all)
  <2>1. BytesIn(Append(v.bufs, buf)) = BytesIn(v.bufs) \o ViewedBytes(buf)
    BY <1>4, <1>14, AppendBytes
  <2>2. Append(v.bufs, buf) \in Seq(Views)
    BY <1>4, <1>14, AppendProperties
  <2>3. c + o + z = e + (done + z) /\ c + o + 1 = (e + done) + 1
        /\ e + (done + z) <= Len(all)
    BY <1>2, <1>9, <1>11, <1>12, <1>13
  <2>4. BytesIn(Append(v.bufs, buf))
          = SubSeq(all, e + 1, e + done) \o SubSeq(all, (e + done) + 1, e + (done + z))
    BY <1>12, <1>13, <2>1, <2>3
  <2>5. SubSeq(all, e + 1, e + done) \o SubSeq(all, (e + done) + 1, e + (done + z))
          = SubSeq(all, e + 1, e + (done + z))
    <3>1. PICK a \in Nat, b \in Nat, d \in Nat : a = e + 1 /\ b = e + done /\ d = e + (done + z)
      BY <1>2, <1>11, <1>12
    <3>2. a \in 1..(Len(all) + 1) /\ b \in (a - 1)..Len(all) /\ d \in b..Len(all)
      BY <1>2, <1>5, <1>11, <1>12, <2>3, <3>1
    <3>3. SubSeq(all, a, b) \o SubSeq(all, b + 1, d) = SubSeq(all, a, d)
      BY <1>5, <3>2, ConcatAdjacentSubSeq
    <3> QED BY <3>1, <3>3
  <2> QED BY <2>2, <2>3, <2>4, <2>5
<1>16. l - z \in 0..m /\ m - (l - z) = done + z /\ (l - z # 0 => z = s - o)
  BY <1>10, <1>11 DEF done, s
<1>17. IF l - z = 0 THEN m <= C(j + 1) - e ELSE m - (l - z) = C(j + 1) - e
  <2>1. done + z <= C(j + 1) - e
    BY <1>2, <1>9, <1>11, <1>12 DEF s
  <2>2. l - z # 0 => done + z = C(j + 1) - e
    <3>1. SUFFICES ASSUME l - z # 0 PROVE done + z = C(j + 1) - e
      OBVIOUS
    <3>2. z = s - o /\ C(j + 1) = c + s /\ c + o = e + done
      BY <1>12, <1>16, <3>1
    <3>3. done + z = (c + s) - e
      BY <1>2, <1>9, <1>12, <3>2
    <3> QED BY <3>2, <3>3
  <2>3. l - z = 0 => m = done + z
    BY <1>10, <1>11 DEF done
  <2> QED BY <1>16, <2>1, <2>2, <2>3
<1>18. FilledTo(w, m, j + 1)
  <2>1. /\ w.bufs = Append(v.bufs, buf) /\ w.it = its[Place + (j + 1)] /\ w.elem_offset = 0
        /\ w.left = l - z
    BY <1>7
  <2> QED BY <1>6, <1>15, <1>16, <1>17, <2>1 DEF FilledTo, Reach, its, all, e, C, A
<1> QED BY <1>6, <1>18 DEF w, A

\* All the steps of the loop.
LEMMA FilledByLoop ==
  ASSUME ConsumerInv, to_consume = NoCall, NEW m \in Nat
  PROVE  \E v : \E j \in 0..Len(Ahead) :
           /\ FilledTo(v, m, j) /\ VecNext(m) = v.bufs /\ j <= SmallSize
           /\ v.left = 0 \/ j = SmallSize \/ j = Len(Ahead)
<1> DEFINE Through(v, i) == \E j \in 0..Len(Ahead) :
             FilledTo(v, m, j) /\ j <= i /\ (v.left = 0 \/ j = i \/ j = Len(Ahead))
<1>1. /\ Ahead \in Seq(Views) /\ Len(Ahead) \in Nat
      /\ Place \in 1..(Len(Buffers) + 1) /\ seq_it = Iterators(range)[Place]
      /\ \A j \in 0..Len(Ahead) : Iterators(range)[Place + j] = EndOf(range) <=> j = Len(Ahead)
  BY AheadPlaces
<1>2. OfOperands /\ elem_offset \in Nat /\ Len(Buffers) \in Nat
  BY RangeFacts DEF ConsumerInv
<1>3. SmallSize \in Nat
  BY BoundsAssumption
<1>4. PICK f : /\ f[0] = VecStart(m) /\ \A i \in 1..SmallSize : f[i] = VecStep(f[i - 1])
               /\ VecNext(m) = f[SmallSize].bufs
  <2>1. PICK k \in 1..(Len(Buffers) + 1) : k = Place /\ seq_it = Iterators(range)[k]
    BY <1>1
  <2> QED BY ONLY <1>2, <2>1, VecSteps, m \in Nat
<1>5. Through(f[0], 0)
  <2> DEFINE v == f[0]
             all == BytesIn(Ahead)
  <2>1. v.bufs = << >> /\ v.it = seq_it /\ v.elem_offset = elem_offset /\ v.left = m
    BY <1>4 DEF VecStart
  <2>2. all \in Seq(Nat) /\ elem_offset <= Len(all)
    <3>1. all \in Seq(Nat) /\ Len(all) = Before(SizesOf(Ahead), Len(Ahead))
      BY <1>1, BytesFacts
    <3>2. /\ Before(SizesOf(Ahead), 0) = 0
          /\ \A i \in 0..Len(Ahead) : Before(SizesOf(Ahead), i) \in Nat
          /\ \A i \in 1..Len(Ahead) :
               Before(SizesOf(Ahead), i) = Before(SizesOf(Ahead), i - 1) + Ahead[i].size
          /\ \A i \in 0..Len(Ahead), h \in 0..Len(Ahead) :
               h <= i => Before(SizesOf(Ahead), h) <= Before(SizesOf(Ahead), i)
      BY <1>1, SumFacts
    <3>3. CASE Len(Ahead) = 0
      BY <3>1, <3>2, <3>3, AheadPlaces
    <3>4. CASE Len(Ahead) # 0
      <4>1. elem_offset <= Ahead[1].size /\ Ahead[1].size \in Nat
        <5>1. 1 \in 1..Len(Ahead)
          BY <1>1, <3>4
        <5> QED BY <3>4, <5>1, AheadPlaces
      <4>2. /\ 1 \in 1..Len(Ahead) /\ 1 \in 0..Len(Ahead) /\ Len(Ahead) \in 0..Len(Ahead)
            /\ 1 <= Len(Ahead) /\ 1 - 1 = 0
        BY <1>1, <3>4
      <4>3. Before(SizesOf(Ahead), 1) = 0 + Ahead[1].size
        BY <3>2, <4>2
      <4>4. Before(SizesOf(Ahead), 1) <= Before(SizesOf(Ahead), Len(Ahead))
            /\ Before(SizesOf(Ahead), Len(Ahead)) \in Nat
        BY <3>2, <4>2
      <4>5. PICK z \in Nat : z = Ahead[1].size
        BY <4>1
      <4>6. elem_offset <= z /\ z <= Len(all) /\ Len(all) \in Nat
        BY <3>1, <4>1, <4>3, <4>4, <4>5
      <4> QED BY <1>2, <3>1, <4>6
    <3> QED BY <3>3, <3>4
  <2>3. BytesIn(<< >>) = << >> /\ << >> \in Seq(Views)
    <3>1. /\ << >> \in Seq(Views) /\ Len(<< >>) = 0 /\ Before(SizesOf(<< >>), 0) = 0
      BY EmptySeq, SumFacts
    <3>2. BytesIn(<< >>) \in Seq(Nat) /\ Len(BytesIn(<< >>)) = 0
      BY <3>1, BytesFacts
    <3> QED BY <3>1, <3>2, EmptySeq
  <2>4. SubSeq(all, elem_offset + 1, elem_offset + 0) = << >>
    <3>1. elem_offset + 0 = elem_offset /\ elem_offset - elem_offset = 0
      BY <1>2
    <3>2. /\ SubSeq(all, elem_offset + 1, elem_offset) \in Seq(Nat)
          /\ Len(SubSeq(all, elem_offset + 1, elem_offset)) = 0
      BY <1>2, <2>2, <3>1, PartFacts
    <3> QED BY <3>1, <3>2, EmptySeq
  <2>5. m - v.left = 0 /\ elem_offset + (m - v.left) = elem_offset + 0
    BY <2>1
  <2>6. Place + 0 = Place /\ 0 \in 0..Len(Ahead)
    BY <1>1, <1>2
  <2>7. Reach(0) = 0
    BY DEF Reach
  <2> HIDE DEF v, all
  <2>8. FilledTo(v, m, 0)
    <3>1. IF v.left = 0 THEN m <= Reach(0) ELSE m - v.left = Reach(0)
      BY <2>1, <2>5, <2>7
    <3>2. /\ v.it = Iterators(range)[Place + 0] /\ v.elem_offset = elem_offset
          /\ v.bufs \in Seq(Views) /\ v.left \in 0..m
      BY <1>1, <2>1, <2>3, <2>6
    <3>3. /\ elem_offset + (m - v.left) <= Len(all)
          /\ BytesIn(v.bufs) = SubSeq(all, elem_offset + 1, elem_offset + (m - v.left))
      <4>1. elem_offset + (m - v.left) = elem_offset
        BY <1>2, <2>5
      <4>2. SubSeq(all, elem_offset + 1, elem_offset) = << >>
        BY <1>2, <2>4
      <4> QED BY <2>1, <2>2, <2>3, <4>1, <4>2
    <3> QED BY <3>1, <3>2, <3>3 DEF FilledTo, all
  <2> QED BY <2>6, <2>8 DEF v
<1>6. ASSUME NEW i \in 1..SmallSize, Through(f[i - 1], i - 1)
      PROVE  Through(f[i], i)
  <2> DEFINE v == f[i - 1]
  <2>1. f[i] = VecStep(v) /\ i \in Nat
    BY <1>4, <1>3
  <2>2. PICK j \in 0..Len(Ahead) :
          FilledTo(v, m, j) /\ j <= i - 1 /\ (v.left = 0 \/ j = i - 1 \/ j = Len(Ahead))
    BY <1>6
  <2>3. j \in Nat /\ j <= i /\ (j + 1 <= i) /\ (j = i - 1 => j + 1 = i)
    BY <1>1, <2>1, <2>2
  <2> HIDE DEF v
  <2>4. CASE v.left = 0 \/ j = Len(Ahead)
    <3>1. v.it = Iterators(range)[Place + j]
      BY <2>2 DEF FilledTo
    <3>2. v.it = EndOf(range) \/ v.left = 0
      BY <1>1, <2>4, <3>1
    <3>3. f[i] = v
      BY <2>1, <3>2 DEF VecStep
    <3> QED BY <2>2, <2>3, <2>4, <3>3
  <2>5. CASE ~(v.left = 0 \/ j = Len(Ahead))
    <3>1. j + 1 \in 0..Len(Ahead) /\ FilledTo(f[i], m, j + 1)
      BY <2>1, <2>2, <2>5, FillsOneMore
    <3>2. j + 1 = i /\ j + 1 <= i
      BY <2>2, <2>3, <2>5
    <3> QED BY <3>1, <3>2
  <2> QED BY <2>4, <2>5
<1>7. Through(f[SmallSize], SmallSize)
  <2> DEFINE T == {i \in 0..SmallSize : Through(f[i], i)}
  <2> HIDE DEF Through
  <2>1. 0 \in T
    BY <1>3, <1>5
  <2>2. ASSUME NEW i \in 1..SmallSize, i - 1 \in T PROVE i \in T
    <3>1. i \in 0..SmallSize
      BY <1>3
    <3> QED BY <1>6, <2>2, <3>1
  <2> HIDE DEF T
  <2>3. 0..SmallSize \subseteq T
    BY <1>3, <2>1, <2>2, UpTo
  <2>4. SmallSize \in T
    BY <1>3, <2>3
  <2> QED BY <2>4 DEF T
<1> QED BY <1>4, <1>7

\* What the loop has filled is what VectorFilled says.
LEMMA VectorFilledInv == ConsumerInv => VectorFilled
<1> DEFINE min == Smaller(SmallSize, Len(Ahead))
           in_reach == Before(SizesOf(Ahead), min) - elem_offset
<1> SUFFICES ASSUME ConsumerInv, to_consume = NoCall, NEW n \in 0..MaxClamp
             PROVE  BytesIn(vec_next(n)) =
                      SubSeq(BytesIn(Ahead), elem_offset + 1,
                             elem_offset + Smaller(n, Smaller(remaining, in_reach)))
  BY DEF VectorFilled
<1> DEFINE m == Smaller(n, remaining)
           C(i) == Before(SizesOf(Ahead), i)
           e == elem_offset
<1>1. m \in Nat /\ n \in Nat /\ remaining \in Nat /\ e \in Nat
  BY BoundsAssumption DEF ConsumerInv, Smaller
<1>2. PICK v : \E j \in 0..Len(Ahead) :
        /\ FilledTo(v, m, j) /\ VecNext(m) = v.bufs /\ j <= SmallSize
        /\ v.left = 0 \/ j = SmallSize \/ j = Len(Ahead)
  BY <1>1, FilledByLoop
<1>3. PICK j \in 0..Len(Ahead) :
        /\ FilledTo(v, m, j) /\ VecNext(m) = v.bufs /\ j <= SmallSize
        /\ v.left = 0 \/ j = SmallSize \/ j = Len(Ahead)
  BY <1>2
<1>4. /\ Ahead \in Seq(Views) /\ Len(Ahead) \in Nat
      /\ \A i \in 1..Len(Ahead) : Ahead[i].size \in Nat
      /\ Len(Ahead) # 0 => e <= Ahead[1].size
      /\ Len(Ahead) = 0 => e = 0
  BY AheadPlaces
<1>5. /\ C(0) = 0 /\ \A i \in 0..Len(Ahead) : C(i) \in Nat
      /\ \A i \in 1..Len(Ahead) : C(i) = C(i - 1) + Ahead[i].size
      /\ \A i \in 0..Len(Ahead), h \in 0..Len(Ahead) : h <= i => C(h) <= C(i)
  BY <1>4, SumFacts
<1>6. SmallSize \in Nat /\ SmallSize # 0
  BY BoundsAssumption
<1>7. /\ v.left \in 0..m /\ BytesIn(v.bufs) = SubSeq(BytesIn(Ahead), e + 1, e + (m - v.left))
      /\ IF v.left = 0 THEN m <= Reach(j) ELSE m - v.left = Reach(j)
  BY <1>3 DEF FilledTo
<1>8. Reach(j) = IF j = 0 THEN 0 ELSE C(j) - e
  BY DEF Reach
<1>9. /\ min \in 0..Len(Ahead) /\ min \in Nat /\ j <= min /\ j \in Nat
      /\ j = SmallSize \/ j = Len(Ahead) => j = min
  BY <1>3, <1>4, <1>6 DEF Smaller
<1> HIDE DEF min, C
<1>10. C(min) \in Nat /\ C(j) \in Nat /\ C(j) <= C(min) /\ in_reach = C(min) - e
  BY <1>5, <1>9 DEF C
<1>11. e <= C(min)
  <2>1. CASE Len(Ahead) = 0
    BY <1>4, <1>10, <2>1
  <2>2. CASE Len(Ahead) # 0
    <3>1. 1 \in 1..Len(Ahead) /\ 1 \in 0..Len(Ahead) /\ 1 <= min /\ 1 - 1 = 0
      BY <1>4, <1>6, <2>2 DEF min, Smaller
    <3>2. PICK s \in Nat : s = Ahead[1].size
      BY <1>4, <3>1
    <3>3. C(1) = 0 + s /\ e <= s /\ C(1) <= C(min)
      BY <1>4, <1>5, <1>9, <2>2, <3>1, <3>2
    <3> QED BY <1>1, <1>10, <3>3
  <2> QED BY <2>1, <2>2
<1> HIDE DEF m, e, in_reach
<1>12. m - v.left = Smaller(m, in_reach)
  <2> DEFINE l == v.left
  <2>1. in_reach \in Nat /\ l \in 0..m
    BY <1>1, <1>7, <1>10, <1>11
  <2>2. CASE l = 0
    <3>1. m <= in_reach
      <4>1. CASE j = 0
        <5>1. m <= 0
          BY <1>7, <1>8, <2>2, <4>1
        <5> QED BY <1>1, <2>1, <5>1
      <4>2. CASE j # 0
        <5>1. m <= C(j) - e
          BY <1>7, <1>8, <2>2, <4>2
        <5> QED BY <1>1, <1>10, <5>1
      <4> QED BY <4>1, <4>2
    <3> QED BY <1>1, <2>1, <2>2, <3>1 DEF Smaller
  <2>3. CASE l # 0
    <3>1. j = min /\ m - l = Reach(j)
      BY <1>3, <1>7, <1>9, <2>3
    <3>2. m - l = in_reach
      <4>1. CASE j = 0
        <5>1. Len(Ahead) = 0
          BY <1>3, <1>6, <2>3, <4>1
        <5>2. e = 0 /\ C(min) = 0
          BY <1>4, <1>5, <3>1, <4>1, <5>1 DEF e
        <5> QED BY <1>8, <1>10, <3>1, <4>1, <5>2
      <4>2. CASE j # 0
        BY <1>8, <1>10, <3>1, <4>2
      <4> QED BY <4>1, <4>2
    <3>3. ~(m < in_reach)
      BY <1>1, <2>1, <3>2
    <3> QED BY <3>2, <3>3 DEF Smaller
  <2> QED BY <2>2, <2>3
<1>13. Smaller(n, Smaller(remaining, in_reach)) = Smaller(m, in_reach)
  BY <1>1, <1>10 DEF Smaller, m
<1>14. vec_next(n) = v.bufs
  BY <1>3 DEF vec_next, m
<1>15. BytesIn(vec_next(n)) = SubSeq(BytesIn(Ahead), e + 1, e + (m - v.left))
  BY <1>7, <1>14
<1> QED BY <1>12, <1>13, <1>15 DEF e, in_reach, min

\* The vector that next() fills has the bytes that come next, up to what was
\* asked for, the clamp and the last buffer it has room for, for every range,
\* size of the vector and state of the consumer (buffers_consumer.hpp:144-169).
THEOREM VectorStaysFilled == ConsumerSpec => []VectorFilled
BY ConsumerStaysValid, VectorFilledInv, PTL
=============================================================================
