------------------------- MODULE TransformPipeProofs -------------------------
(***************************************************************************)
(* The theorems about TransformPipe: the sink and the source keep every    *)
(* byte at one place and in order, lose and withhold bytes only when they  *)
(* are stuck, and trip no assertion.                                       *)
(*                                                                         *)
(* The properties speak of sequences, the code of indices into a buffer    *)
(* that moves its bytes.  The inductive invariant names the bytes by their *)
(* positions in the two streams.  SinkInv: while commit() runs, the window *)
(* shows the last databuf positions made; what has got through, what the   *)
(* transformer keeps back and the positions still to be read are, in a     *)
(* row, all that were made but for the lost.  SourceInv: the window shows  *)
(* the positions behind those consumed, and the transformer keeps the ones *)
(* behind these, up to the last taken from the pipe.                       *)
(*                                                                         *)
(* The argument goes through operators and not through the machine.  A     *)
(* round of buffer_transform splits the sequence of what the transformer   *)
(* has kept and the input in two (PassedOn, PassedOnStream), and the       *)
(* operations of a buffer keep, drop or write a part of what its window    *)
(* shows (GrowStep, ConsumeStep, StoreStep, from DynBufLemmas).  An        *)
(* action then only adds up positions.                                     *)
(***************************************************************************)
EXTENDS TransformPipe, DynBufLemmas, SequenceTheorems, TLAPS

\* The sink computes with the operators of its parts.
LEMMA SinkOps ==
  ASSUME NEW b, NEW n, NEW t, NEW res, NEW s, NEW m
  PROVE  /\ Sink!Ok(b) <=> Ok(b)
         /\ Sink!dynbuf_safe_grow_size(b, n) = dynbuf_safe_grow_size(b, n)
         /\ Sink!grow(b, n) = grow(b, n)
         /\ Sink!grow_threw(b, n) = grow_threw(b, n)
         /\ Sink!consume(b, n) = consume(b, n)
         /\ Sink!Window(b) = Window(b)
         /\ Sink!Written(t, res, s) = Written(t, res, s)
         /\ Sink!Transformed(t, res, s) = Transformed(t, res, s)
         /\ Sink!Results(t, n, m) = Results(t, n, m)
         /\ Sink!LastRound(res, res) <=> LastRound(res, res)
         /\ Sink!Smaller(n, m) = Smaller(n, m)
<1> USE DEF Sink!Asserted, Asserted, Sink!Smaller, Smaller,
            Sink!Ok, Ok, Sink!Shifts, Shifts, Sink!Fixed, Fixed,
            Sink!WithStorage, WithStorage, Sink!WithWindow, WithWindow,
            Sink!Resized, Resized, Sink!Cells, Cells,
            Sink!CopiedDown, CopiedDown, Sink!Moved, Moved,
            Sink!Narrowed, Narrowed, Sink!Truncated, Truncated, Sink!Rejects, Rejects
<1>1. Sink!dynbuf_safe_grow_size(b, n) = dynbuf_safe_grow_size(b, n)
  BY DEF Sink!dynbuf_safe_grow_size, dynbuf_safe_grow_size, Sink!max_size, max_size
<1>2. \A c, k : Sink!Extended(c, k) = Extended(c, k)
  BY DEF Sink!Extended, Extended
<1>3. \A c, k : Sink!StorageGrown(c, k) = StorageGrown(c, k)
  BY DEF Sink!StorageGrown, StorageGrown, Sink!max_size, max_size
<1>4. \A c, k : Sink!GrowthSize(c, k) = GrowthSize(c, k)
  BY DEF Sink!GrowthSize, GrowthSize, Sink!Larger, Larger, Sink!TailRoom, TailRoom
<1>5. \A c, k : Sink!GrownInStorage(c, k) = GrownInStorage(c, k)
  BY <1>2, <1>3, <1>4 DEF Sink!GrownInStorage, GrownInStorage, Sink!TailRoom, TailRoom
<1>6. Sink!grow(b, n) = grow(b, n)
  BY <1>2, <1>3, <1>5
     DEF Sink!grow, grow, Sink!Compacted, Compacted, Sink!TailRoom, TailRoom
<1>7. Sink!grow_threw(b, n) = grow_threw(b, n)
  BY DEF Sink!grow_threw, grow_threw, Sink!Compacted, Compacted
<1>8. Sink!consume(b, n) = consume(b, n)
  BY DEF Sink!consume, consume
<1>9. Sink!Window(b) = Window(b)
  BY DEF Sink!Window, Window
<1>10. Sink!Written(t, res, s) = Written(t, res, s)
  BY DEF Sink!Written, Written, Sink!Known, Known
<1>11. Sink!Transformed(t, res, s) = Transformed(t, res, s)
  BY DEF Sink!Transformed, Transformed, Sink!Known, Known
<1>12. Sink!Results(t, n, m) = Results(t, n, m)
  BY DEF Sink!Results, Results
<1>13. Sink!LastRound(res, res) <=> LastRound(res, res)
  BY DEF Sink!LastRound, LastRound
<1> QED BY <1>1, <1>6, <1>7, <1>8, <1>9, <1>10, <1>11, <1>12, <1>13

\* And so does the source.
LEMMA SourceOps ==
  ASSUME NEW b, NEW n, NEW t, NEW res, NEW s, NEW m
  PROVE  /\ Source!Ok(b) <=> Ok(b)
         /\ Source!dynbuf_safe_grow_size(b, n) = dynbuf_safe_grow_size(b, n)
         /\ Source!grow(b, n) = grow(b, n)
         /\ Source!grow_threw(b, n) = grow_threw(b, n)
         /\ Source!consume(b, n) = consume(b, n)
         /\ Source!Window(b) = Window(b)
         /\ Source!Written(t, res, s) = Written(t, res, s)
         /\ Source!Transformed(t, res, s) = Transformed(t, res, s)
         /\ Source!Results(t, n, m) = Results(t, n, m)
         /\ Source!LastRound(res, res) <=> LastRound(res, res)
         /\ Source!Smaller(n, m) = Smaller(n, m)
<1> USE DEF Source!Asserted, Asserted, Source!Smaller, Smaller,
            Source!Ok, Ok, Source!Shifts, Shifts, Source!Fixed, Fixed,
            Source!WithStorage, WithStorage, Source!WithWindow, WithWindow,
            Source!Resized, Resized, Source!Cells, Cells,
            Source!CopiedDown, CopiedDown, Source!Moved, Moved,
            Source!Narrowed, Narrowed, Source!Truncated, Truncated, Source!Rejects, Rejects
<1>1. Source!dynbuf_safe_grow_size(b, n) = dynbuf_safe_grow_size(b, n)
  BY DEF Source!dynbuf_safe_grow_size, dynbuf_safe_grow_size, Source!max_size, max_size
<1>2. \A c, k : Source!Extended(c, k) = Extended(c, k)
  BY DEF Source!Extended, Extended
<1>3. \A c, k : Source!StorageGrown(c, k) = StorageGrown(c, k)
  BY DEF Source!StorageGrown, StorageGrown, Source!max_size, max_size
<1>4. \A c, k : Source!GrowthSize(c, k) = GrowthSize(c, k)
  BY DEF Source!GrowthSize, GrowthSize, Source!Larger, Larger, Source!TailRoom, TailRoom
<1>5. \A c, k : Source!GrownInStorage(c, k) = GrownInStorage(c, k)
  BY <1>2, <1>3, <1>4 DEF Source!GrownInStorage, GrownInStorage, Source!TailRoom, TailRoom
<1>6. Source!grow(b, n) = grow(b, n)
  BY <1>2, <1>3, <1>5
     DEF Source!grow, grow, Source!Compacted, Compacted, Source!TailRoom, TailRoom
<1>7. Source!grow_threw(b, n) = grow_threw(b, n)
  BY DEF Source!grow_threw, grow_threw, Source!Compacted, Compacted
<1>8. Source!consume(b, n) = consume(b, n)
  BY DEF Source!consume, consume
<1>9. Source!Window(b) = Window(b)
  BY DEF Source!Window, Window
<1>10. Source!Written(t, res, s) = Written(t, res, s)
  BY DEF Source!Written, Written, Source!Known, Known
<1>11. Source!Transformed(t, res, s) = Transformed(t, res, s)
  BY DEF Source!Transformed, Transformed, Source!Known, Known
<1>12. Source!Results(t, n, m) = Results(t, n, m)
  BY DEF Source!Results, Results
<1>13. Source!LastRound(res, res) <=> LastRound(res, res)
  BY DEF Source!LastRound, LastRound
<1> QED BY <1>1, <1>6, <1>7, <1>8, <1>9, <1>10, <1>11, <1>12, <1>13

-----------------------------------------------------------------------------
(* Streams as sequences *)

\* The n positions of a stream behind its first k
PositionsFrom(k, n) == [i \in 1..n |-> k + i]

\* They are a sequence.
LEMMA PositionsFacts ==
  ASSUME NEW k \in Nat, NEW n \in Nat
  PROVE  /\ PositionsFrom(k, n) \in Seq(Nat)
         /\ Len(PositionsFrom(k, n)) = n
         /\ \A i \in 1..n : PositionsFrom(k, n)[i] = k + i
BY DEF PositionsFrom

\* What is left when the first of them are gone
LEMMA TailOfPositions ==
  ASSUME NEW k \in Nat, NEW n \in Nat, NEW m \in Nat, m <= n
  PROVE  SubSeq(PositionsFrom(k, n), m + 1, n) = PositionsFrom(k + m, n - m)
BY DEF PositionsFrom

\* Two parts in a row
LEMMA JoinPositions ==
  ASSUME NEW k \in Nat, NEW n \in Nat, NEW m \in Nat
  PROVE  PositionsFrom(k, n) \o PositionsFrom(k + n, m) = PositionsFrom(k, n + m)
BY DEF PositionsFrom

\* In the order of the stream, and each once
Increasing(s) == \A i, j \in DOMAIN s : i < j => s[i] < s[j]

\* The first n positions, in order, but for those of L
AllBut(s, n, L) == Increasing(s) /\ Range(s) = (1..n) \ L

\* More positions are put behind them.
LEMMA JoinAllBut ==
  ASSUME NEW s \in Seq(Nat), NEW m \in Nat, NEW n \in Nat, NEW L, L \subseteq 1..m,
         AllBut(s, m, L)
  PROVE  AllBut(s \o PositionsFrom(m, n), m + n, L)
<1> DEFINE t == PositionsFrom(m, n)
           u == s \o t
<1>0. Increasing(s) /\ Range(s) = (1..m) \ L
  BY DEF AllBut
<1>1. t \in Seq(Nat) /\ Len(t) = n /\ \A i \in 1..n : t[i] = m + i
  BY PositionsFacts
<1> HIDE DEF t
<1>2. /\ u \in Seq(Nat) /\ Len(u) = Len(s) + n
      /\ \A i \in 1..(Len(s) + n) : u[i] = IF i <= Len(s) THEN s[i] ELSE t[i - Len(s)]
  BY <1>1, ConcatProperties
<1>3. Range(u) = Range(s) \cup Range(t)
  BY <1>1, RangeConcatenation
<1> HIDE DEF u
<1>4. Len(s) \in Nat /\ DOMAIN s = 1..Len(s) /\ DOMAIN u = 1..(Len(s) + n) /\ DOMAIN t = 1..n
  BY <1>1, <1>2
<1>5. ASSUME NEW i \in 1..Len(s) PROVE s[i] \in Nat /\ s[i] <= m
  <2>1. s[i] \in Range(s)
    BY <1>4 DEF Range
  <2> QED BY <1>0, <2>1
<1>6. Increasing(u)
  <2> SUFFICES ASSUME NEW i \in 1..(Len(s) + n), NEW j \in 1..(Len(s) + n), i < j
               PROVE  u[i] < u[j]
    BY <1>4 DEF Increasing
  <2>1. CASE j <= Len(s)
    <3>1. i \in 1..Len(s) /\ j \in 1..Len(s)
      BY <1>4, <2>1
    <3>2. i <= Len(s) /\ u[i] = s[i] /\ u[j] = s[j]
      BY <1>2, <1>4, <2>1, <3>1
    <3>3. s[i] < s[j]
      BY <1>0, <1>4, <3>1 DEF Increasing
    <3> QED BY <3>2, <3>3
  <2>2. CASE i <= Len(s) /\ ~(j <= Len(s))
    <3>1. i \in 1..Len(s) /\ j - Len(s) \in 1..n
      BY <1>4, <2>2
    <3>2. u[i] = s[i] /\ u[j] = m + (j - Len(s))
      BY <1>1, <1>2, <2>2, <3>1
    <3> QED BY <1>5, <3>1, <3>2
  <2>3. CASE ~(i <= Len(s))
    <3>1. i - Len(s) \in 1..n /\ j - Len(s) \in 1..n /\ ~(j <= Len(s))
      BY <1>4, <2>3
    <3>2. u[i] = m + (i - Len(s)) /\ u[j] = m + (j - Len(s))
      BY <1>1, <1>2, <2>3, <3>1
    <3> QED BY <1>4, <3>2
  <2> QED BY <2>1, <2>2, <2>3
<1>7. Range(t) = (m + 1)..(m + n)
  <2>1. ASSUME NEW x \in (m + 1)..(m + n) PROVE x - m \in 1..n /\ m + (x - m) = x
    OBVIOUS
  <2>2. ASSUME NEW i \in 1..n PROVE m + i \in (m + 1)..(m + n)
    OBVIOUS
  <2>3. ASSUME NEW x \in Range(t) PROVE x \in (m + 1)..(m + n)
    <3>1. PICK i \in 1..n : x = t[i]
      BY <1>4 DEF Range
    <3> QED BY <1>1, <2>2, <3>1
  <2>4. ASSUME NEW x \in (m + 1)..(m + n) PROVE x \in Range(t)
    <3>1. t[x - m] = x /\ x - m \in DOMAIN t
      BY <1>1, <1>4, <2>1
    <3> QED BY <3>1 DEF Range
  <2> QED BY <2>3, <2>4
<1> QED BY <1>0, <1>3, <1>6, <1>7 DEF AllBut, u, t

\* What is cut off at the end is missing from then on.
LEMMA CutAllBut ==
  ASSUME NEW s \in Seq(Nat), NEW t \in Seq(Nat), NEW m \in Nat, NEW L,
         AllBut(s \o t, m, L)
  PROVE  AllBut(s, m, L \cup Range(t))
<1> DEFINE u == s \o t
<1>1. /\ u \in Seq(Nat) /\ Len(u) = Len(s) + Len(t)
      /\ \A i \in 1..(Len(s) + Len(t)) :
           u[i] = IF i <= Len(s) THEN s[i] ELSE t[i - Len(s)]
      /\ Range(u) = Range(s) \cup Range(t)
  BY ConcatProperties, RangeConcatenation
<1>2. Increasing(u) /\ Range(u) = (1..m) \ L
  BY DEF AllBut
<1> HIDE DEF u
<1>3. /\ Len(s) \in Nat /\ Len(t) \in Nat /\ DOMAIN s = 1..Len(s) /\ DOMAIN t = 1..Len(t)
      /\ DOMAIN u = 1..(Len(s) + Len(t))
  BY <1>1
<1>4. ASSUME NEW i \in 1..Len(s) PROVE i \in DOMAIN u /\ u[i] = s[i]
  BY <1>1, <1>3
<1>5. Increasing(s)
  BY <1>2, <1>3, <1>4 DEF Increasing
<1>6. ASSUME NEW i \in 1..Len(s), NEW j \in 1..Len(t) PROVE s[i] # t[j]
  <2> DEFINE x == Len(s) + j
  <2>1. /\ x \in 1..(Len(s) + Len(t)) /\ i < x /\ ~(x <= Len(s))
        /\ x - Len(s) = j
    BY <1>3
  <2> HIDE DEF x
  <2>2. u[x] = t[j]
    BY <1>1, <2>1
  <2>3. u[i] < u[x]
    BY <1>2, <1>3, <1>4, <2>1 DEF Increasing
  <2>4. s[i] \in Nat /\ t[j] \in Nat
    BY ElementOfSeq
  <2> QED BY <1>4, <2>2, <2>3, <2>4
<1>7. Range(s) \cap Range(t) = {}
  BY <1>3, <1>6 DEF Range
<1> QED BY <1>1, <1>2, <1>5, <1>7 DEF AllBut

-----------------------------------------------------------------------------
(* Transformers *)

Transformers == [read : Nat, held : Seq(Nat)]

\* What buffer_transform may rely on
LEMMA ResultFacts ==
  ASSUME NEW t \in Transformers, NEW n \in Nat, NEW m \in Nat, NEW res \in Results(t, n, m)
  PROVE  /\ Len(t.held) \in Nat /\ t.read \in Nat
         /\ res.bytes_read \in Nat /\ res.bytes_read <= n
         /\ res.bytes_written \in Nat /\ res.bytes_written <= m
         /\ res.bytes_written <= Len(t.held) + res.bytes_read
         /\ res.done => /\ t.read + res.bytes_read = EndAt
                        /\ Len(t.held) + res.bytes_read = res.bytes_written
         /\ res.done \/ res.bytes_written = m \/ res.bytes_read = n
<1>1. Len(t.held) \in Nat /\ t.read \in Nat
  BY DEF Transformers
<1>2. /\ res \in [bytes_read : 0..n, bytes_written : 0..m, done : BOOLEAN]
      /\ Len(t.held) + res.bytes_read - res.bytes_written \in 0..HoldMax
      /\ res.done <=> /\ t.read + res.bytes_read = EndAt
                      /\ Len(t.held) + res.bytes_read - res.bytes_written = 0
      /\ res.done \/ res.bytes_written = m \/ res.bytes_read = n
  BY DEF Results
<1>3. res.bytes_read \in 0..n /\ res.bytes_written \in 0..m
  BY <1>2
<1> QED BY SMTT(30), <1>1, <1>2, <1>3, TransformerAssumption

\* Joining sequences of items is associative.
LEMMA JoinAssociative == \A a, b, c \in Seq(Nat) : (a \o b) \o c = a \o (b \o c)
BY SMTT(30), ConcatAssociative

\* A transformer passes on what it kept back and what it read, in order, and
\* keeps the rest.
LEMMA PassedOn ==
  ASSUME NEW t \in Transformers, NEW s \in Seq(Nat), NEW p \in Nat, p <= Len(s),
         NEW m \in Nat, NEW res \in Results(t, p, m)
  PROVE  LET input == SubSeq(s, 1, p)
             w == Written(t, res, input)
             u == Transformed(t, res, input)
         IN /\ w \in Seq(Nat) /\ Len(w) = res.bytes_written
            /\ u \in Transformers /\ u.read = t.read + res.bytes_read
            /\ Len(u.held) = Len(t.held) + res.bytes_read - res.bytes_written
            /\ (w \o u.held) \o SubSeq(s, res.bytes_read + 1, Len(s)) = t.held \o s
<1> DEFINE r == res.bytes_read
           k == res.bytes_written
           input == SubSeq(s, 1, p)
           front == SubSeq(s, 1, r)
           rest == SubSeq(s, r + 1, Len(s))
           known == t.held \o front
           kept == SubSeq(known, k + 1, Len(known))
           w == SubSeq(known, 1, k)
           u == Transformed(t, res, input)
<1>1. /\ t.held \in Seq(Nat) /\ Len(t.held) \in Nat /\ t.read \in Nat /\ Len(s) \in Nat
      /\ r \in Nat /\ k \in Nat /\ r <= p /\ k <= Len(t.held) + r
  BY ResultFacts DEF Transformers
<1> HIDE DEF r, k
<1>2. \A i \in 1..Len(s) : s[i] \in Nat
  BY ElementOfSeq
<1>3. /\ front \in Seq(Nat) /\ Len(front) = r /\ rest \in Seq(Nat)
      /\ input \in Seq(Nat) /\ Len(input) = p
      /\ \A i \in 1..r : front[i] = s[i]
      /\ \A i \in 1..p : input[i] = s[i]
  <2>1. (\A i \in 1..r : s[i] \in Nat) /\ (\A i \in (r + 1)..Len(s) : s[i] \in Nat)
        /\ (\A i \in 1..p : s[i] \in Nat)
    BY <1>1, <1>2
  <2>2. /\ front \in Seq(Nat) /\ Len(front) = IF 1 <= r THEN r - 1 + 1 ELSE 0
        /\ \A i \in 1..(r - 1 + 1) : front[i] = s[1 + i - 1]
    BY <1>1, <2>1, SubSeqProperties
  <2>3. rest \in Seq(Nat)
    BY <1>1, <2>1, SubSeqProperties
  <2>4. /\ input \in Seq(Nat) /\ Len(input) = IF 1 <= p THEN p - 1 + 1 ELSE 0
        /\ \A i \in 1..(p - 1 + 1) : input[i] = s[1 + i - 1]
    BY <1>1, <2>1, SubSeqProperties
  <2> QED BY <1>1, <2>2, <2>3, <2>4
<1>4. front \o rest = s
  <2>1. 1 \in 1..(Len(s) + 1) /\ r \in 0..Len(s) /\ Len(s) \in r..Len(s) /\ 1 - 1 = 0
    BY <1>1
  <2>2. front \o rest = SubSeq(s, 1, Len(s))
    BY <2>1, ConcatAdjacentSubSeq
  <2> QED BY <2>2, SubSeqFull
<1>5. SubSeq(input, 1, r) = front
  <2> DEFINE x == SubSeq(input, 1, r)
  <2>1. \A i \in 1..r : input[i] \in Nat /\ input[i] = s[i]
    BY <1>1, <1>2, <1>3
  <2>2. /\ x \in Seq(Nat) /\ Len(x) = IF 1 <= r THEN r - 1 + 1 ELSE 0
        /\ \A i \in 1..(r - 1 + 1) : x[i] = input[1 + i - 1]
    BY <1>1, <2>1, SubSeqProperties
  <2> HIDE DEF x, front, input
  <2>3. r \in Nat /\ (IF 1 <= r THEN r - 1 + 1 ELSE 0) = r
    BY <1>1
  <2>4. ASSUME NEW i \in 1..r PROVE x[i] = front[i]
    <3>1. i \in 1..(r - 1 + 1) /\ 1 + i - 1 = i
      BY <2>3
    <3> QED BY <1>3, <2>1, <2>2, <3>1
  <2>5. /\ x \in Seq(Nat) /\ front \in Seq(Nat) /\ Len(x) = Len(front)
        /\ \A i \in 1..Len(x) : x[i] = front[i]
    BY <1>3, <2>2, <2>3, <2>4
  <2>6. x = front
    BY <2>5, SeqEqual
  <2> QED BY <2>6 DEF x
<1>6. Known(t, res, input) = known /\ Written(t, res, input) = w
  BY <1>5 DEF Known, Written, r, k
<1>7. u = [read |-> t.read + r, held |-> kept]
  BY <1>6 DEF Transformed, r, k
<1> HIDE DEF front, rest, input, u
<1>8. known \in Seq(Nat) /\ Len(known) = Len(t.held) + r
  <2>1. t.held \in Seq(Nat) /\ front \in Seq(Nat)
    BY <1>1, <1>3
  <2>2. known \in Seq(Nat) /\ Len(known) = Len(t.held) + Len(front)
    BY <2>1, ConcatProperties
  <2> QED BY <1>3, <2>2
<1>9. t.held \o s = known \o rest
  <2>1. t.held \in Seq(Nat) /\ front \in Seq(Nat) /\ rest \in Seq(Nat)
    BY <1>1, <1>3
  <2> DEFINE held == t.held
  <2>2. held \in Seq(Nat) /\ known = held \o front
    BY <2>1
  <2> HIDE DEF held, known
  <2>3. (held \o front) \o rest = held \o (front \o rest)
    <3>1. held \in Seq(Nat) /\ front \in Seq(Nat) /\ rest \in Seq(Nat)
      BY <2>1, <2>2
    <3> QED BY ONLY <3>1, JoinAssociative, Zenon
  <2> QED BY <1>4, <2>2, <2>3 DEF held
<1> HIDE DEF known
<1>10. /\ w \in Seq(Nat) /\ Len(w) = k
       /\ kept \in Seq(Nat) /\ Len(kept) = Len(t.held) + r - k
  <2>1. Len(known) \in Nat /\ k <= Len(known)
    BY <1>1, <1>8
  <2>2. (\A i \in 1..k : known[i] \in Nat) /\ (\A i \in (k + 1)..Len(known) : known[i] \in Nat)
    <3>1. \A i \in 1..Len(known) : known[i] \in Nat
      BY <1>8, ElementOfSeq
    <3>2. /\ \A i \in 1..k : i \in 1..Len(known)
          /\ \A i \in (k + 1)..Len(known) : i \in 1..Len(known)
      BY <1>1, <2>1
    <3> QED BY <3>1, <3>2
  <2>3. w \in Seq(Nat) /\ Len(w) = IF 1 <= k THEN k - 1 + 1 ELSE 0
    BY <1>1, <2>2, SubSeqProperties
  <2>4. /\ kept \in Seq(Nat)
        /\ Len(kept) = IF k + 1 <= Len(known) THEN Len(known) - (k + 1) + 1 ELSE 0
    BY <1>1, <2>1, <2>2, SubSeqProperties
  <2> QED BY SMTT(30), <1>1, <1>8, <2>3, <2>4
<1>11. w \o kept = known
  <2>1. /\ 1 \in 1..(Len(known) + 1) /\ k \in 0..Len(known) /\ Len(known) \in k..Len(known)
        /\ 1 - 1 = 0
    BY <1>1, <1>8
  <2>2. w \o kept = SubSeq(known, 1, Len(known))
    BY <1>8, <2>1, ConcatAdjacentSubSeq
  <2> QED BY <1>8, <2>2, SubSeqFull
<1> HIDE DEF w, kept
<1>12. u \in Transformers /\ u.read = t.read + r /\ u.held = kept
  BY <1>1, <1>7, <1>10 DEF Transformers
<1> QED BY <1>6, <1>9, <1>10, <1>11, <1>12 DEF u, input, r, k, rest, w

\* The same where the bytes are those of a stream in its order
LEMMA PassedOnStream ==
  ASSUME NEW t \in Transformers, NEW a \in Nat, NEW h \in Nat,
         t.held = PositionsFrom(a, h),
         NEW n \in Nat, NEW m \in Nat, NEW res \in Results(t, n, m)
  PROVE  LET input == PositionsFrom(a + h, n)
             u == Transformed(t, res, input)
         IN /\ res.bytes_written <= h + res.bytes_read
            /\ Written(t, res, input) = PositionsFrom(a, res.bytes_written)
            /\ u \in Transformers /\ u.read = t.read + res.bytes_read
            /\ u.held = PositionsFrom(a + res.bytes_written,
                                      h + res.bytes_read - res.bytes_written)
<1> DEFINE r == res.bytes_read
           k == res.bytes_written
           input == PositionsFrom(a + h, n)
           rest == h + r - k
           u == Transformed(t, res, input)
<1>1. Len(t.held) = h
  BY PositionsFacts
<1>2. /\ r \in Nat /\ r <= n /\ k \in Nat /\ k <= h + r /\ t.read \in Nat
      /\ rest \in Nat /\ k + rest = h + r
  BY <1>1, ResultFacts
<1>3. SubSeq(input, 1, r) = PositionsFrom(a + h, r)
  <2>1. /\ a + h \in Nat /\ 1 \in Nat \ {0} /\ r \in Nat /\ r <= n
        /\ a + h + 1 = a + h + 1 /\ r + 1 = r + 1
    BY <1>2
  <2> HIDE DEF r
  <2> QED BY <2>1 DEF PositionsFrom
<1>4. Known(t, res, input) = PositionsFrom(a, h + r)
  <2> HIDE DEF input, r
  <2>1. PositionsFrom(a, h) \o PositionsFrom(a + h, r) = PositionsFrom(a, h + r)
    BY ZenonT(60), <1>2, JoinPositions
  <2> QED BY <1>3, <2>1 DEF Known, r
<1> HIDE DEF input, r, k, rest
<1>5. Len(PositionsFrom(a, h + r)) = h + r /\ h + r \in Nat
  BY <1>2, PositionsFacts
<1>6. SubSeq(PositionsFrom(a, h + r), 1, k) = PositionsFrom(a, k)
  <2>1. 1 \in Nat \ {0} /\ k <= h + r /\ a + 1 = a + 1 /\ k + 1 = k + 1
    BY <1>2
  <2> QED BY <1>2, <1>5, <2>1 DEF PositionsFrom
<1>7. SubSeq(PositionsFrom(a, h + r), k + 1, h + r) = PositionsFrom(a + k, rest)
  <2> DEFINE all == h + r
  <2>1. a \in Nat /\ all \in Nat /\ k \in Nat /\ k <= all /\ rest = all - k
    BY <1>2 DEF rest
  <2> HIDE DEF all
  <2>2. SubSeq(PositionsFrom(a, all), k + 1, all) = PositionsFrom(a + k, all - k)
    BY <2>1, TailOfPositions
  <2> QED BY <2>1, <2>2 DEF all
<1>8. Written(t, res, input) = PositionsFrom(a, k)
  BY <1>4, <1>6 DEF Written, k
<1>9. u = [read |-> t.read + r, held |-> PositionsFrom(a + k, rest)]
  BY <1>4, <1>5, <1>7 DEF Transformed, k, r
<1>10. PositionsFrom(a + k, rest) \in Seq(Nat)
  <2>1. a + k \in Nat
    BY <1>2
  <2> QED BY <1>2, <2>1, PositionsFacts
<1> HIDE DEF u
<1>11. u \in Transformers /\ u.read = t.read + r /\ u.held = PositionsFrom(a + k, rest)
  BY <1>2, <1>9, <1>10 DEF Transformers
<1> QED BY <1>2, <1>8, <1>11 DEF u, input, r, k, rest

-----------------------------------------------------------------------------
(* The buffers *)

\* A shifting container has a quantum of headroom over the largest window
Headroom == <<"shifting", "container">> \in Kinds => MaxAsked + Quantum <= MaxSize

\* What holds of either buffer
BufferInv(b) ==
  /\ Good(b)
  /\ Fixed(b) => Shifts(b)
  /\ Shifts(b) /\ ~Fixed(b) => <<"shifting", "container">> \in Kinds
  /\ ~Fixed(b) => b.max = MaxSize /\ b.size <= MaxAsked
  /\ Headroom => Ok(b)

\* The first n bytes of b are those of the stream behind its first k
Shows(b, n, k) == \A c \in Cells(n) : b.store[b.beg + c] = k + 1 + c

\* The numbers of a buffer
LEMMA BufferFacts ==
  ASSUME NEW b, BufferInv(b)
  PROVE  /\ Good(b) /\ IsBuffer(b) /\ b.len \in Nat /\ b.beg \in Nat /\ b.size \in Nat
         /\ b.max \in Nat /\ max_size(b) \in Nat /\ b.size <= max_size(b)
         /\ b.store \in [Cells(b.len) -> Byte] /\ b.beg + b.size <= b.len
BY FieldTypes DEF BufferInv, Good

\* The constants are numbers.
LEMMA ConstantFacts ==
  /\ MaxSize \in Nat /\ FixedSize \in Nat /\ MaxAsked \in Nat /\ MaxRoom \in Nat
  /\ MaxBytes \in Nat /\ Cap \in Nat /\ Hint \in Nat /\ Hint > 0 /\ Quantum \in Nat
  /\ EndAt \in Nat /\ Blank \in Byte
BY PipeSizesAssumption, PipeAssumption, CapAssumption, HintAssumption,
   QuantumAssumption, TransformerAssumption, BlankAssumption

\* A buffer of the same class in its bounds
LEMMA BufferStep ==
  ASSUME NEW b, BufferInv(b), NEW c, Good(c), SameKind(b, c),
         ~Fixed(b) => c.size <= MaxAsked, Headroom => Ok(c)
  PROVE  BufferInv(c)
BY DEF BufferInv, SameKind

\* dynbuf_safe_grow() up to the largest window
LEMMA GrowStep ==
  ASSUME NEW b, BufferInv(b), Ok(b), NEW k \in Nat, b.size + k <= MaxAsked
  PROVE  LET g == dynbuf_safe_grow_size(b, k)
             c == grow(b, g)
         IN /\ g \in Nat /\ BufferInv(c) /\ Keeps(b, 0, c, b.size)
            /\ c.size \in Nat /\ c.size >= b.size
<1> DEFINE g == dynbuf_safe_grow_size(b, k)
           c == grow(b, g)
<1>1. /\ Good(b) /\ b.size \in Nat /\ max_size(b) \in Nat /\ b.size <= max_size(b)
      /\ Quantum \in Nat /\ MaxAsked \in Nat /\ MaxSize \in Nat
  BY BufferFacts, ConstantFacts
<1>2. g \in Nat /\ g <= k /\ g <= max_size(b) - b.size
  BY <1>1 DEF dynbuf_safe_grow_size, Smaller
<1> HIDE DEF g
<1>3. /\ Grew(b, c, g)
      /\ \/ b.size + g + Quantum <= max_size(b)
         \/ ~(Shifts(b) /\ ~Fixed(b)) /\ g <= max_size(b) - b.size
         => Ok(c)
  BY <1>1, <1>2, GrowFacts
<1> HIDE DEF c
<1>4. /\ Good(c) /\ SameKind(b, c) /\ Keeps(b, 0, c, b.size)
      /\ c.size = IF Ok(c) THEN b.size + g ELSE b.size
  BY <1>3 DEF Grew
<1>5. c.size \in Nat /\ c.size >= b.size /\ c.size <= MaxAsked
  BY <1>1, <1>2, <1>4
<1>6. ASSUME Headroom PROVE Ok(c)
  <2>1. CASE Shifts(b) /\ ~Fixed(b)
    <3>1. max_size(b) = MaxSize /\ MaxAsked + Quantum <= MaxSize
      BY <1>6, <2>1 DEF BufferInv, max_size, Headroom
    <3>2. b.size + g + Quantum <= max_size(b)
      BY <1>1, <1>2, <3>1
    <3> QED BY <1>3, <3>2
  <2>2. CASE ~(Shifts(b) /\ ~Fixed(b))
    BY <1>2, <1>3, <2>2
  <2> QED BY <2>1, <2>2
<1>7. BufferInv(c)
  BY <1>4, <1>5, <1>6, BufferStep
<1> QED BY <1>2, <1>4, <1>5, <1>7 DEF c, g

\* A grow() that throws
LEMMA ThrewStep ==
  ASSUME NEW b, BufferInv(b), Ok(b), NEW k \in Nat
  PROVE  LET c == grow_threw(b, k) IN
         BufferInv(c) /\ Keeps(b, 0, c, b.size) /\ c.size = b.size
<1> DEFINE c == grow_threw(b, k)
<1>1. Good(b) /\ b.size \in Nat
  BY BufferFacts
<1>2. /\ Good(c) /\ SameKind(b, c) /\ Keeps(b, 0, c, b.size)
      /\ Ok(c) /\ c.size = b.size
  BY <1>1, GrowThrewFacts
<1> HIDE DEF c
<1>3. ~Fixed(b) => c.size <= MaxAsked
  BY <1>2 DEF BufferInv
<1>4. BufferInv(c)
  BY <1>2, <1>3, BufferStep
<1> QED BY <1>2, <1>4 DEF c

\* consume() of bytes of the window
LEMMA ConsumeStep ==
  ASSUME NEW b, BufferInv(b), Ok(b), NEW n \in Nat, n <= b.size
  PROVE  LET c == consume(b, n) IN
         /\ BufferInv(c) /\ Ok(c) /\ Keeps(b, n, c, b.size - n)
         /\ c.size = b.size - n
<1> DEFINE c == consume(b, n)
<1>1. Good(b) /\ b.size \in Nat /\ MaxAsked \in Nat
  BY BufferFacts, ConstantFacts
<1>2. ~Rejects(b, n)
  BY <1>1 DEF Rejects, BufferInv
<1>3. /\ Good(c) /\ SameKind(b, c) /\ Keeps(b, n, c, b.size - n)
      /\ Ok(c) /\ c.size = b.size - n
  BY <1>1, <1>2, ConsumeFacts
<1> HIDE DEF c
<1>4. ~Fixed(b) => c.size <= MaxAsked
  BY <1>1, <1>3 DEF BufferInv
<1>5. BufferInv(c)
  BY <1>3, <1>4, BufferStep
<1> QED BY <1>3, <1>5 DEF c

\* Bytes of a stream stored in the window
LEMMA StoreStep ==
  ASSUME NEW b, BufferInv(b), NEW at \in Nat, NEW n \in Nat, NEW k \in Nat,
         at + n <= b.size, k + n <= MaxBytes
  PROVE  LET c == StreamStored(b, at, n, k) IN
         /\ BufferInv(c) /\ (Ok(c) <=> Ok(b)) /\ c.size = b.size /\ c.beg = b.beg
         /\ \A x \in Cells(at) : c.store[c.beg + x] = b.store[b.beg + x]
         /\ \A x \in Cells(n) : c.store[c.beg + at + x] = k + 1 + x
<1> DEFINE c == StreamStored(b, at, n, k)
<1>1. Good(b)
  BY DEF BufferInv
<1>2. AreBytes(k, n)
  <2> SUFFICES ASSUME NEW m \in 1..n PROVE k + m \in Byte
    BY DEF AreBytes
  <2>1. k + m \in 0..MaxBytes
    BY ConstantFacts
  <2> QED BY <2>1, PipeAssumption
<1>3. /\ Good(c) /\ SameKind(b, c) /\ (Ok(c) <=> Ok(b))
      /\ c.beg = b.beg /\ c.size = b.size
      /\ \A x \in Cells(at) : c.store[c.beg + x] = b.store[b.beg + x]
      /\ \A x \in Cells(n) : c.store[c.beg + at + x] = k + 1 + x
  BY <1>1, <1>2, StreamStoredFacts
<1> HIDE DEF c
<1>4. BufferInv(c)
  <2>1. (~Fixed(b) => c.size <= MaxAsked) /\ (Headroom => Ok(c))
    BY <1>3 DEF BufferInv
  <2> QED BY <1>3, <2>1, BufferStep
<1> QED BY <1>3, <1>4 DEF c

\* The bytes shown stay where a call keeps the front of the window.
LEMMA ShowsKept ==
  ASSUME NEW b, NEW c, NEW n \in Nat, NEW m \in Nat, m <= n, NEW k,
         b.beg \in Nat, Keeps(b, 0, c, n), Shows(b, m, k)
  PROVE  Shows(c, m, k)
<1> SUFFICES ASSUME NEW x \in Cells(m) PROVE c.store[c.beg + x] = k + 1 + x
  BY DEF Shows
<1>1. x \in Cells(n) /\ b.beg + 0 + x = b.beg + x
  BY DEF Cells
<1>2. c.store[c.beg + x] = b.store[b.beg + x]
  BY <1>1 DEF Keeps
<1> QED BY <1>2 DEF Shows

\* consume() of some of them leaves those behind.
LEMMA ShowsConsumed ==
  ASSUME NEW b, NEW c, NEW n \in Nat, NEW l \in Nat, NEW m \in Nat, m <= l,
         NEW k \in Nat, b.beg \in Nat, Keeps(b, n, c, l), Shows(b, n + m, k)
  PROVE  Shows(c, m, k + n)
<1> SUFFICES ASSUME NEW x \in Cells(m) PROVE c.store[c.beg + x] = k + n + 1 + x
  BY DEF Shows
<1> DEFINE y == n + x
<1>1. /\ x \in Cells(l) /\ y \in Cells(n + m) /\ b.beg + n + x = b.beg + y
      /\ k + n + 1 + x = k + 1 + y
  BY DEF Cells
<1>2. c.store[c.beg + x] = b.store[b.beg + n + x]
  BY <1>1 DEF Keeps
<1> HIDE DEF y
<1>3. b.store[b.beg + y] = k + 1 + y
  BY <1>1 DEF Shows
<1> QED BY <1>1, <1>2, <1>3

\* A window whose first n bytes are shown begins with those.
LEMMA WindowShows ==
  ASSUME NEW b, b.beg \in Nat, b.size \in Nat, NEW n \in Nat, n <= b.size, NEW k \in Nat,
         Shows(b, n, k)
  PROVE  SubSeq(Window(b), 1, n) = PositionsFrom(k, n)
<1>1. ASSUME NEW i \in 1..n PROVE b.store[b.beg + i - 1] = k + i
  <2> DEFINE x == i - 1
  <2>1. x \in Cells(n) /\ b.beg + i - 1 = b.beg + x /\ k + 1 + x = k + i
    BY DEF Cells
  <2> HIDE DEF x
  <2>2. b.store[b.beg + x] = k + 1 + x
    BY <2>1 DEF Shows
  <2> QED BY <2>1, <2>2
<1> DEFINE w == Window(b)
<1>2. \A i \in 1..n : w[i] = k + i
  BY <1>1 DEF Window
<1>3. \A i \in 1..n : i \in DOMAIN w
  BY DEF Window
<1> HIDE DEF w
<1>4. SubSeq(w, 1, n) = [i \in 1..n |-> w[i]]
  OBVIOUS
<1> QED BY <1>2, <1>4 DEF w, PositionsFrom

\* So does the part of it behind the first a bytes.
LEMMA WindowShowsRest ==
  ASSUME NEW b, b.beg \in Nat, b.size \in Nat, NEW n \in Nat, n <= b.size, NEW k \in Nat,
         Shows(b, n, k), NEW a \in Nat, a <= n
  PROVE  SubSeq(Window(b), a + 1, n) = PositionsFrom(k + a, n - a)
<1>1. ASSUME NEW i \in 1..(n - a)
      PROVE  a + i \in 1..b.size /\ b.store[b.beg + (a + i) - 1] = k + a + i
  <2> DEFINE x == a + i - 1
  <2>1. x \in Cells(n) /\ b.beg + (a + i) - 1 = b.beg + x /\ k + 1 + x = k + a + i
    BY DEF Cells
  <2> HIDE DEF x
  <2>2. b.store[b.beg + x] = k + 1 + x
    BY <2>1 DEF Shows
  <2> QED BY <2>1, <2>2
<1> DEFINE w == Window(b)
           m == n - a
<1>2. \A i \in 1..m : w[a + i] = k + a + i
  BY <1>1 DEF Window
<1> HIDE DEF w
<1>3. SubSeq(w, a + 1, n) = [i \in 1..m |-> w[a + i]]
  BY DEF m
<1> HIDE DEF m
<1>4. SubSeq(w, a + 1, n) = [i \in 1..m |-> k + a + i]
  BY <1>2, <1>3
<1> QED BY <1>4 DEF w, m, PositionsFrom

-----------------------------------------------------------------------------
(* The inductive invariant *)

\* How much of databuf commit() has still to read
ToRead == IF databuf = -1 THEN 0 ELSE databuf - fed

\* What has got through the sink so far, and what is on its way
KeptInOrder == (out \o sink_tr.held) \o PositionsFrom(made - ToRead, ToRead)

\* While commit() runs, the window begins with the last bytes committed
SinkInv ==
  /\ BufferInv(sink_buf)
  /\ prepared \in Nat /\ prepared <= sink_buf.size
  /\ databuf \in Nat \cup {-1} /\ fed \in Nat
  /\ databuf # -1 => /\ Ok(sink_buf) /\ fed <= databuf /\ databuf <= sink_buf.size
                     /\ databuf <= made /\ Shows(sink_buf, databuf, made - databuf)
                     /\ prepared = 0
  /\ sink_tr \in Transformers /\ out \in Seq(Nat) /\ room \in Nat
  /\ made \in Nat /\ made <= MaxBytes /\ lost \subseteq 1..made
  /\ Len(out) + Len(sink_tr.held) + ToRead <= made
  /\ AllBut(KeptInOrder, made, lost)

\* How many bytes at the front of its window the source has transformed
Gathered == avail + (IF want = -1 THEN 0 ELSE written)

\* The window begins with the bytes behind those consumed, and the
\* transformer keeps back the ones behind these
SourceInv ==
  /\ BufferInv(source_buf)
  /\ avail \in Nat /\ given \in Nat /\ given <= avail
  /\ want \in Nat \cup {-1} /\ to_read \in Nat /\ written \in Nat
  /\ Gathered <= source_buf.size
  /\ want # -1 => /\ avail < want /\ written <= to_read
                  /\ to_read = Smaller(want - avail, source_buf.size - avail)
  /\ source_tr \in Transformers
  /\ got \in Nat /\ taken \in Nat /\ taken <= Len(out) /\ got + Gathered <= taken
  /\ Shows(source_buf, Gathered, got)
  /\ source_tr.held = PositionsFrom(got + Gathered, taken - (got + Gathered))

IInv == SinkInv /\ SourceInv

\* Nothing shows any stream.
LEMMA ShowsNothing == \A b, k : Shows(b, 0, k)
BY DEF Shows, Cells

\* No positions are the empty sequence.
LEMMA NoPositions == \A k : PositionsFrom(k, 0) = << >>
BY DEF PositionsFrom

\* A buffer of one of the kinds, constructed around blank storage
LEMMA ConstructedFacts ==
  ASSUME NEW kind \in Kinds, NEW len \in Nat,
         len = IF kind[2] = "fixed" THEN FixedSize ELSE 0, NEW size \in {0, len},
         kind[1] = "bare" => size = len
  PROVE  LET b == Constructed(kind[1], kind[2], MaxSize, [c \in Cells(len) |-> Blank],
                              len, size)
         IN BufferInv(b) /\ b.size \in Nat
<1> DEFINE store == [c \in Cells(len) |-> Blank]
           b == Constructed(kind[1], kind[2], MaxSize, store, len, size)
<1>1. /\ kind[1] \in {"bare", "shifting"} /\ kind[2] \in {"container", "fixed"}
      /\ kind = <<kind[1], kind[2]>> /\ ~(kind[1] = "bare" /\ kind[2] = "fixed")
  BY PipeKindsAssumption
<1>2. store \in [Cells(len) -> Byte]
  BY ConstantFacts
<1> HIDE DEF store
<1>3. /\ b.kind = kind[1] /\ b.storage = kind[2] /\ b.max = MaxSize /\ b.store = store
      /\ b.len = len /\ b.beg = 0 /\ b.size = size /\ b.status = "running"
  BY DEF Constructed
<1>4. b \in Buffers(len)
  BY <1>1, <1>2, ConstantFacts DEF Constructed, Buffers
<1> HIDE DEF b
<1>5. Ok(b) /\ (Shifts(b) <=> kind[1] = "shifting") /\ (Fixed(b) <=> kind[2] = "fixed")
  BY <1>3 DEF Ok, Shifts, Fixed
<1>6. size \in Nat /\ size <= len
  OBVIOUS
<1>7. Good(b)
  <2>1. max_size(b) = IF kind[2] = "fixed" THEN len ELSE MaxSize
    BY <1>3, <1>5 DEF max_size
  <2>2. b.len <= max_size(b)
    BY <1>3, <2>1, ConstantFacts
  <2> QED BY <1>1, <1>3, <1>4, <1>5, <1>6, <2>2 DEF Good, IsBuffer
<1>8. BufferInv(b)
  <2>1. Shifts(b) /\ ~Fixed(b) => <<"shifting", "container">> \in Kinds
    BY <1>1, <1>5
  <2>2. ~Fixed(b) => b.max = MaxSize /\ b.size <= MaxAsked
    BY <1>3, <1>5, <1>6, ConstantFacts
  <2> QED BY <1>1, <1>5, <1>7, <2>1, <2>2 DEF BufferInv
<1> QED BY <1>3, <1>6, <1>8 DEF b, store

\* Every execution starts with nothing transformed.
LEMMA InitIInv == Init => IInv
<1> SUFFICES ASSUME Init PROVE IInv
  OBVIOUS
<1>1. Sink!Init /\ Source!Init /\ room = MaxRoom
  BY DEF Init
<1>2. /\ prepared = 0 /\ databuf = -1 /\ fed = 0 /\ made = 0 /\ lost = {}
      /\ sink_tr = [read |-> 0, held |-> << >>] /\ out = << >>
      /\ avail = 0 /\ given = 0 /\ want = -1 /\ to_read = 0 /\ written = 0
      /\ source_tr = [read |-> 0, held |-> << >>] /\ got = 0 /\ taken = 0
  BY <1>1 DEF Sink!Init, Sink!None, Sink!FreshTransformer,
              Source!Init, Source!None, Source!FreshTransformer
<1>3. /\ << >> \in Seq(Nat) /\ Len(<< >>) = 0 /\ << >> \o << >> = << >>
      /\ Increasing(<< >>) /\ Range(<< >>) = {}
  BY DEF Increasing, Range
<1>4. /\ sink_tr \in Transformers /\ sink_tr.held = << >>
      /\ source_tr \in Transformers /\ source_tr.held = << >>
  BY <1>2, <1>3 DEF Transformers
<1>5. BufferInv(sink_buf) /\ sink_buf.size \in Nat
  <2>1. PICK kind \in Kinds :
          LET len == IF kind[2] = "fixed" THEN FixedSize ELSE 0
              store == [c \in Sink!Cells(len) |-> Blank]
          IN \E size \in {0, len} :
               sink_buf = Sink!Constructed(kind[1], kind[2], MaxSize, store, len, size)
    BY <1>1 DEF Sink!Init
  <2> DEFINE len == IF kind[2] = "fixed" THEN FixedSize ELSE 0
             store == [c \in Cells(len) |-> Blank]
  <2>2. PICK size \in {0, len} :
          sink_buf = Constructed(kind[1], kind[2], MaxSize, store, len, size)
    BY <2>1 DEF Sink!Cells, Cells, Sink!Constructed, Constructed
  <2>3. kind[1] = "bare" => size = len
    BY PipeKindsAssumption
  <2>4. len \in Nat
    BY ConstantFacts
  <2> HIDE DEF len
  <2>5. len = IF kind[2] = "fixed" THEN FixedSize ELSE 0
    BY DEF len
  <2> QED BY <2>2, <2>3, <2>4, <2>5, ConstructedFacts
<1>6. BufferInv(source_buf) /\ source_buf.size \in Nat
  <2>1. PICK kind \in Kinds :
          LET len == IF kind[2] = "fixed" THEN FixedSize ELSE 0 IN
          source_buf = Source!Constructed(kind[1], kind[2], MaxSize,
                                          [c \in Source!Cells(len) |-> Blank], len, 0)
    BY <1>1 DEF Source!Init
  <2> DEFINE len == IF kind[2] = "fixed" THEN FixedSize ELSE 0
             store == [c \in Cells(len) |-> Blank]
  <2>2. source_buf = Constructed(kind[1], kind[2], MaxSize, store, len, 0)
    BY <2>1 DEF Source!Cells, Cells, Source!Constructed, Constructed
  <2>3. kind[1] = "bare" => 0 = len
    BY PipeKindsAssumption
  <2>4. len \in Nat /\ 0 \in {0, len}
    BY ConstantFacts
  <2> HIDE DEF len
  <2>5. len = IF kind[2] = "fixed" THEN FixedSize ELSE 0
    BY DEF len
  <2> QED BY <2>2, <2>3, <2>4, <2>5, ConstructedFacts
<1>7. ToRead = 0 /\ Gathered = 0
  BY <1>2 DEF ToRead, Gathered
<1>8. KeptInOrder = << >>
  BY <1>2, <1>3, <1>4, <1>7, NoPositions DEF KeptInOrder
<1>9. SinkInv
  <2>1. room \in Nat /\ 0 \in Nat /\ 0 <= MaxBytes
    BY <1>1, ConstantFacts
  <2>2. AllBut(KeptInOrder, made, lost) /\ lost \subseteq 1..made
    BY <1>2, <1>3, <1>8 DEF AllBut
  <2> QED BY <1>2, <1>3, <1>4, <1>5, <1>7, <1>8, <2>1, <2>2 DEF SinkInv
<1>10. SourceInv
  <2>1. source_tr.held = PositionsFrom(got + Gathered, taken - (got + Gathered))
    BY <1>2, <1>4, <1>7, NoPositions
  <2>2. Shows(source_buf, Gathered, got)
    BY <1>7, ShowsNothing
  <2> QED BY <1>2, <1>3, <1>4, <1>6, <1>7, <2>1, <2>2 DEF SourceInv
<1> QED BY <1>9, <1>10 DEF IInv

-----------------------------------------------------------------------------
(* The sink *)

\* The numbers of the sink
LEMMA SinkFacts ==
  ASSUME SinkInv
  PROVE  /\ sink_buf.size \in Nat /\ sink_buf.beg \in Nat
         /\ prepared \in Nat /\ fed \in Nat /\ made \in Nat /\ room \in Nat
         /\ MaxBytes \in Nat /\ MaxAsked \in Nat /\ Hint \in Nat /\ Hint > 0
         /\ Len(out) \in Nat /\ Len(sink_tr.held) \in Nat
         /\ sink_tr.held \in Seq(Nat) /\ out \in Seq(Nat)
         /\ ToRead \in Nat /\ ToRead <= made
         /\ databuf \in Nat \cup {-1}
<1>1. /\ sink_buf.size \in Nat /\ sink_buf.beg \in Nat
  BY BufferFacts DEF SinkInv
<1>2. /\ prepared \in Nat /\ fed \in Nat /\ made \in Nat /\ room \in Nat
      /\ databuf \in Nat \cup {-1} /\ (databuf # -1 => fed <= databuf /\ databuf <= made)
      /\ sink_tr.held \in Seq(Nat) /\ out \in Seq(Nat)
  BY DEF SinkInv, Transformers
<1>3. ToRead \in Nat /\ ToRead <= made
  BY <1>2 DEF ToRead
<1> QED BY <1>1, <1>2, <1>3, ConstantFacts

\* The calls that leave the stream alone
LEMMA SinkKeeps ==
  ASSUME SinkInv, databuf = -1, UNCHANGED <<databuf, fed, sink_tr, room, out, made, lost>>,
         BufferInv(sink_buf'), prepared' \in Nat, prepared' <= sink_buf'.size
  PROVE  SinkInv'
<1>1. ToRead' = ToRead
  BY DEF ToRead
<1>2. KeptInOrder' = KeptInOrder
  BY <1>1 DEF KeptInOrder
<1> QED BY <1>1, <1>2 DEF SinkInv

\* prepare(n)
LEMMA SinkPrepare ==
  ASSUME SinkInv, NEW n \in Nat, Sink!Prepare(n)
  PROVE  SinkInv'
<1>1. /\ Ok(sink_buf) /\ databuf = -1 /\ n <= MaxAsked
      /\ sink_buf' = (IF sink_buf.size >= n THEN sink_buf
                      ELSE grow(sink_buf, dynbuf_safe_grow_size(sink_buf, n - sink_buf.size)))
      /\ prepared' = Smaller(n, sink_buf'.size)
      /\ UNCHANGED <<databuf, fed, sink_tr, room, out, made, lost>>
  BY SinkOps DEF Sink!Prepare, Sink!Idle, Sink!SinkGrowth, Sink!None
<1>2. sink_buf.size \in Nat /\ BufferInv(sink_buf)
  BY SinkFacts DEF SinkInv
<1>3. BufferInv(sink_buf') /\ sink_buf'.size \in Nat
  <2>1. CASE sink_buf.size >= n
    BY <1>1, <1>2, <2>1
  <2>2. CASE ~(sink_buf.size >= n)
    <3> DEFINE k == n - sink_buf.size
    <3>1. k \in Nat /\ sink_buf.size + k <= MaxAsked
      BY <1>1, <1>2, <2>2
    <3>2. sink_buf' = grow(sink_buf, dynbuf_safe_grow_size(sink_buf, k))
      BY <1>1, <2>2
    <3> HIDE DEF k
    <3> QED BY <1>1, <1>2, <3>1, <3>2, GrowStep
  <2> QED BY <2>1, <2>2
<1>4. prepared' \in Nat /\ prepared' <= sink_buf'.size
  BY <1>1, <1>3 DEF Smaller
<1> QED BY <1>1, <1>3, <1>4, SinkKeeps

\* prepare(n) without memory
LEMMA SinkPrepareThrows ==
  ASSUME SinkInv, NEW n \in Nat, Sink!PrepareThrows(n)
  PROVE  SinkInv'
<1>1. /\ Ok(sink_buf) /\ databuf = -1 /\ n <= MaxAsked /\ sink_buf.size < n
      /\ sink_buf' = grow_threw(sink_buf, dynbuf_safe_grow_size(sink_buf, n - sink_buf.size))
      /\ prepared' = 0
      /\ UNCHANGED <<databuf, fed, sink_tr, room, out, made, lost>>
  <2>1. /\ Ok(sink_buf) /\ databuf = -1 /\ n <= MaxAsked /\ sink_buf.size < n
        /\ sink_buf' = grow_threw(sink_buf, Sink!SinkGrowth(n)) /\ prepared' = 0
        /\ UNCHANGED <<databuf, fed, sink_tr, room, out, made, lost>>
    BY SinkOps DEF Sink!PrepareThrows, Sink!Idle, Sink!None
  <2>2. ~(sink_buf.size >= n)
    BY <2>1, SinkFacts
  <2>3. Sink!SinkGrowth(n) = dynbuf_safe_grow_size(sink_buf, n - sink_buf.size)
    BY <2>2, SinkOps DEF Sink!SinkGrowth
  <2> QED BY <2>1, <2>3
<1>2. sink_buf.size \in Nat /\ BufferInv(sink_buf)
  BY SinkFacts DEF SinkInv
<1> DEFINE k == n - sink_buf.size
           g == dynbuf_safe_grow_size(sink_buf, k)
<1>3. g \in Nat
  <2>1. k \in Nat /\ sink_buf.size + k <= MaxAsked
    BY <1>1, <1>2
  <2> HIDE DEF k
  <2> QED BY <1>1, <1>2, <2>1, GrowStep
<1>4. sink_buf' = grow_threw(sink_buf, g)
  BY <1>1
<1> HIDE DEF g
<1>5. BufferInv(sink_buf') /\ sink_buf'.size = sink_buf.size
  BY <1>1, <1>2, <1>3, <1>4, ThrewStep
<1>6. prepared' \in Nat /\ prepared' <= sink_buf'.size
  BY <1>1, <1>2, <1>5
<1> QED BY <1>1, <1>5, <1>6, SinkKeeps

\* commit(n) up to the loop
LEMMA SinkCommit ==
  ASSUME SinkInv, NEW n \in Nat, Sink!Commit(n)
  PROVE  SinkInv'
<1>1. /\ Ok(sink_buf) /\ databuf = -1 /\ n <= prepared /\ made + n <= MaxBytes
      /\ sink_buf' = Sink!Filled(sink_buf, n)
      /\ databuf' = n /\ fed' = 0 /\ made' = made + n /\ prepared' = 0
      /\ UNCHANGED <<sink_tr, room, out, lost>>
  BY SinkOps DEF Sink!Commit, Sink!Idle, Sink!None
<1>2. /\ sink_buf.size \in Nat /\ sink_buf.beg \in Nat /\ BufferInv(sink_buf)
      /\ prepared \in Nat /\ prepared <= sink_buf.size /\ made \in Nat
      /\ Len(out) \in Nat /\ Len(sink_tr.held) \in Nat
      /\ sink_tr.held \in Seq(Nat) /\ out \in Seq(Nat)
  BY SinkFacts DEF SinkInv
<1>3. sink_buf' = StreamStored(sink_buf, 0, n, made)
  <2>1. sink_buf.beg + 0 = sink_buf.beg
    BY <1>2
  <2>2. Sink!Filled(sink_buf, n) = StreamStored(sink_buf, 0, n, made)
    BY <2>1 DEF Sink!Filled, StreamStored, Sink!Cells, Cells
  <2> QED BY <1>1, <2>2
<1>4. /\ BufferInv(sink_buf') /\ (Ok(sink_buf') <=> Ok(sink_buf))
      /\ sink_buf'.size = sink_buf.size /\ sink_buf'.beg = sink_buf.beg
      /\ \A x \in Cells(n) : sink_buf'.store[sink_buf'.beg + 0 + x] = made + 1 + x
  <2>1. 0 \in Nat /\ 0 + n <= sink_buf.size
    BY <1>1, <1>2
  <2> QED BY SMTT(30), <1>1, <1>2, <1>3, <2>1, StoreStep
<1>5. Shows(sink_buf', n, made)
  <2>1. sink_buf'.beg + 0 = sink_buf'.beg
    BY <1>2, <1>4
  <2> QED BY <1>4, <2>1 DEF Shows
<1>6. ToRead = 0 /\ ToRead' = n
  BY <1>1 DEF ToRead
<1> DEFINE s == out \o sink_tr.held
<1>7. s \in Seq(Nat)
  <2> DEFINE held == sink_tr.held
  <2>1. held \in Seq(Nat)
    BY <1>2
  <2> HIDE DEF held
  <2>2. out \o held \in Seq(Nat)
    BY <1>2, <2>1, ConcatProperties
  <2> QED BY <2>2 DEF held
<1>8. KeptInOrder' = s \o PositionsFrom(made, n)
  <2>1. made' - n = made
    BY <1>1, <1>2
  <2> QED BY <1>1, <1>6, <2>1 DEF KeptInOrder
<1>9. KeptInOrder = s
  <2> HIDE DEF s
  <2>1. s \o << >> = s
    BY <1>7, ConcatEmptySeq
  <2> QED BY <1>6, <2>1, NoPositions DEF KeptInOrder, s
<1> HIDE DEF s
<1>10. AllBut(s, made, lost) /\ lost \subseteq 1..made
  BY <1>9 DEF SinkInv
<1>11. AllBut(KeptInOrder', made', lost')
  <2>1. AllBut(s \o PositionsFrom(made, n), made + n, lost)
    <3>1. s \in Seq(Nat) /\ made \in Nat /\ n \in Nat /\ AllBut(s, made, lost)
          /\ lost \subseteq 1..made
      BY <1>2, <1>7, <1>10
    <3> QED BY <3>1, JoinAllBut
  <2> QED BY <1>1, <1>8, <2>1
<1>12. lost' \subseteq 1..made'
  BY <1>1, <1>2, <1>10
<1>13. Len(out') + Len(sink_tr'.held) + ToRead' <= made'
  <2>1. Len(out) + Len(sink_tr.held) + ToRead <= made
    BY DEF SinkInv
  <2> QED BY <1>1, <1>2, <1>6, <2>1
<1>14. /\ databuf' \in Nat \cup {-1} /\ fed' \in Nat /\ fed' <= databuf'
       /\ databuf' <= sink_buf'.size /\ databuf' <= made' /\ made' - databuf' = made
       /\ prepared' \in Nat /\ prepared' <= sink_buf'.size /\ made' \in Nat
  BY <1>1, <1>2, <1>4
<1>15. sink_tr' \in Transformers /\ out' \in Seq(Nat) /\ room' \in Nat /\ made' <= MaxBytes
  BY <1>1 DEF SinkInv
<1> QED BY <1>1, <1>4, <1>5, <1>11, <1>12, <1>13, <1>14, <1>15 DEF SinkInv

\* What a round has to read: the last bytes committed
Unread == PositionsFrom(made - ToRead, ToRead)

\* How much of it the consumer of databuf shows
PartSize == Smaller(Hint, ToRead)

\* A round with the transformer's result res, for an output of m bytes
SinkRoundWith(m, res) ==
  /\ m \in Nat /\ m <= room /\ (m = 0 <=> room = 0)
  /\ res \in Results(sink_tr, PartSize, m)
  /\ out' = out \o Written(sink_tr, res, SubSeq(Unread, 1, PartSize))
  /\ sink_tr' = Transformed(sink_tr, res, SubSeq(Unread, 1, PartSize))
  /\ room' = room - res.bytes_written
  /\ fed' = fed + res.bytes_read
  /\ UNCHANGED <<prepared, made>>
  /\ IF LastRound(res, res)
     THEN /\ lost' = lost \cup Range(SubSeq(Unread, res.bytes_read + 1, ToRead))
          /\ sink_buf' = consume(sink_buf, databuf) /\ databuf' = -1
     ELSE UNCHANGED <<sink_buf, databuf, lost>>

\* The numbers of a round
LEMMA UnreadFacts ==
  ASSUME SinkInv
  PROVE  /\ Unread \in Seq(Nat) /\ Len(Unread) = ToRead
         /\ PartSize \in Nat /\ PartSize <= ToRead
         /\ PartSize = 0 => ToRead = 0
<1>1. made - ToRead \in Nat /\ ToRead \in Nat /\ Hint \in Nat /\ Hint > 0
  BY SinkFacts
<1>2. Unread \in Seq(Nat) /\ Len(Unread) = ToRead
  BY <1>1, PositionsFacts DEF Unread
<1> QED BY <1>1, <1>2 DEF PartSize, Smaller

\* The part of them behind the first
LEMMA UnreadRest ==
  ASSUME SinkInv, NEW r \in Nat, r <= ToRead
  PROVE  SubSeq(Unread, r + 1, ToRead) = PositionsFrom(made - (ToRead - r), ToRead - r)
<1> DEFINE k == made - ToRead
           n == ToRead
<1>1. k \in Nat /\ n \in Nat /\ k + r = made - (n - r)
  BY SMTT(30), SinkFacts
<1> HIDE DEF k, n
<1>2. k \in Nat /\ n \in Nat /\ r \in Nat /\ r <= n
  BY <1>1 DEF n
<1>3. SubSeq(PositionsFrom(k, n), r + 1, n) = PositionsFrom(k + r, n - r)
  BY <1>2, TailOfPositions
<1> QED BY <1>1, <1>3 DEF Unread, k, n

\* The window of the sink, from any of the bytes being committed on
LEMMA SinkWindow ==
  ASSUME SinkInv, databuf # -1, NEW a \in Nat, a <= databuf
  PROVE  SubSeq(Sink!Window(sink_buf), a + 1, databuf)
           = PositionsFrom(made - databuf + a, databuf - a)
<1> DEFINE k == made - databuf
<1>1. /\ sink_buf.beg \in Nat /\ sink_buf.size \in Nat /\ databuf \in Nat
      /\ databuf <= sink_buf.size /\ k \in Nat /\ Shows(sink_buf, databuf, k)
      /\ a \in Nat /\ a <= databuf
  BY SinkFacts DEF SinkInv
<1> HIDE DEF k
<1>2. SubSeq(Window(sink_buf), a + 1, databuf) = PositionsFrom(k + a, databuf - a)
  BY <1>1, WindowShowsRest
<1> QED BY <1>2, SinkOps DEF k

\* What commit() has still to read is what the model calls so.
LEMMA PendingIsUnread ==
  ASSUME SinkInv, databuf # -1
  PROVE  Sink!Pending = Unread
<1>1. /\ databuf \in Nat /\ fed \in Nat /\ fed <= databuf /\ made \in Nat
      /\ ToRead = databuf - fed
  BY SinkFacts DEF SinkInv, ToRead
<1>2. made - databuf + fed = made - ToRead
  BY <1>1
<1>3. Sink!Pending = PositionsFrom(made - databuf + fed, databuf - fed)
  BY <1>1, SinkWindow DEF Sink!Pending
<1> QED BY <1>1, <1>2, <1>3 DEF Unread

\* Every round is one.
LEMMA SinkRoundFacts ==
  ASSUME SinkInv, Sink!Round
  PROVE  databuf # -1 /\ \E m, res : SinkRoundWith(m, res)
<1>1. databuf # -1
  BY DEF Sink!Round, Sink!None
<1>2. /\ databuf \in Nat /\ fed \in Nat /\ fed <= databuf /\ databuf <= sink_buf.size
      /\ databuf <= made /\ Shows(sink_buf, databuf, made - databuf)
      /\ sink_buf.beg \in Nat /\ sink_buf.size \in Nat /\ made \in Nat
      /\ made - databuf \in Nat /\ ToRead = databuf - fed
  BY <1>1, SinkFacts DEF SinkInv, ToRead
<1>4. Sink!Pending = Unread
  BY <1>1, PendingIsUnread
<1>5. Unread \in Seq(Nat) /\ Len(Unread) = ToRead /\ PartSize \in Nat /\ PartSize <= ToRead
  BY UnreadFacts
<1>6. Sink!InPart = SubSeq(Unread, 1, PartSize)
  BY <1>2, <1>4, SinkOps DEF Sink!InPart, PartSize
<1>7. Len(Sink!InPart) = PartSize
  <2> DEFINE u == Unread
             p == PartSize
  <2>1. u \in Seq(Nat) /\ p \in 0..Len(u)
    BY <1>5
  <2> HIDE DEF u, p
  <2>2. \A i \in 1..p : u[i] \in Nat
    <3>1. \A i \in 1..p : i \in 1..Len(u)
      BY <2>1
    <3> QED BY <2>1, <3>1, ElementOfSeq
  <2>3. 1 \in Int /\ p \in Int
    BY <2>1
  <2>4. Len(SubSeq(u, 1, p)) = IF 1 <= p THEN p - 1 + 1 ELSE 0
    BY <2>2, <2>3, SubSeqProperties
  <2>5. Len(SubSeq(u, 1, p)) = p
    BY <2>1, <2>4
  <2> QED BY <1>6, <2>5 DEF u, p
<1>8. PICK m \in Sink!OutParts : \E res \in Sink!Results(sink_tr, Len(Sink!InPart), m) :
        /\ Sink!RoundResult(res)
        /\ IF Sink!LastRound(res, res)
           THEN /\ lost' = lost \cup Sink!Range(SubSeq(Sink!Window(sink_buf), fed' + 1, databuf))
                /\ sink_buf' = Sink!consume(sink_buf, databuf) /\ databuf' = Sink!None
           ELSE UNCHANGED <<sink_buf, databuf, lost>>
  BY DEF Sink!Round
<1>9. PICK res \in Results(sink_tr, PartSize, m) :
        /\ Sink!RoundResult(res)
        /\ IF LastRound(res, res)
           THEN /\ lost' = lost \cup Range(SubSeq(Sink!Window(sink_buf), fed' + 1, databuf))
                /\ sink_buf' = consume(sink_buf, databuf) /\ databuf' = -1
           ELSE UNCHANGED <<sink_buf, databuf, lost>>
  BY <1>7, <1>8, SinkOps DEF Sink!None, Sink!Range, Range
<1>10. m \in Nat /\ m <= room /\ (m = 0 <=> room = 0)
  <2>1. room \in Nat /\ Hint \in Nat /\ Hint > 0 /\ m \in Sink!OutParts
    BY <1>8, SinkFacts
  <2>2. Sink!OutParts = IF room = 0 THEN {0} ELSE 1..Smaller(Hint, room)
    BY SinkOps DEF Sink!OutParts
  <2> QED BY <2>1, <2>2 DEF Smaller
<1>11. /\ out' = out \o Written(sink_tr, res, SubSeq(Unread, 1, PartSize))
       /\ sink_tr' = Transformed(sink_tr, res, SubSeq(Unread, 1, PartSize))
       /\ room' = room - res.bytes_written
       /\ fed' = fed + res.bytes_read
  BY <1>6, <1>9, SinkOps DEF Sink!RoundResult
<1>12. res.bytes_read \in Nat /\ res.bytes_read <= ToRead
  <2>1. sink_tr \in Transformers
    BY DEF SinkInv
  <2>2. res.bytes_read \in Nat /\ res.bytes_read <= PartSize
    BY <1>5, <1>10, <2>1, ResultFacts
  <2> QED BY <1>2, <1>5, <2>2
<1>13. SubSeq(Sink!Window(sink_buf), fed' + 1, databuf)
         = SubSeq(Unread, res.bytes_read + 1, ToRead)
  <2> DEFINE r == res.bytes_read
             a == fed + r
  <2>1. /\ a \in Nat /\ a <= databuf /\ databuf - a = ToRead - r
        /\ made - databuf + a = made - (ToRead - r) /\ r \in Nat /\ r <= ToRead
    BY <1>2, <1>12
  <2> HIDE DEF r, a
  <2>2. SubSeq(Sink!Window(sink_buf), a + 1, databuf)
          = PositionsFrom(made - databuf + a, databuf - a)
    BY <1>1, <2>1, SinkWindow
  <2>3. SubSeq(Unread, r + 1, ToRead) = PositionsFrom(made - (ToRead - r), ToRead - r)
    BY <2>1, UnreadRest
  <2> QED BY <1>11, <2>1, <2>2, <2>3 DEF r, a
<1>14. UNCHANGED <<prepared, made>>
  BY DEF Sink!Round
<1>15. SinkRoundWith(m, res)
  BY <1>9, <1>10, <1>11, <1>13, <1>14 DEF SinkRoundWith
<1> QED BY <1>1, <1>15

\* What a round does to the bytes on their way, until the loop ends
LEMMA SinkRoundPasses ==
  ASSUME SinkInv, NEW m, NEW res, SinkRoundWith(m, res)
  PROVE  LET r == res.bytes_read
             rest == SubSeq(Unread, r + 1, ToRead)
         IN /\ r \in Nat /\ r <= ToRead /\ rest \in Seq(Nat)
            /\ sink_tr' \in Transformers /\ out' \in Seq(Nat) /\ room' \in Nat
            /\ out' \o sink_tr'.held \in Seq(Nat)
            /\ (out' \o sink_tr'.held) \o rest = KeptInOrder
            /\ Len(out') + Len(sink_tr'.held) = Len(out) + Len(sink_tr.held) + r
            /\ Len(out) <= Len(out')
<1> DEFINE r == res.bytes_read
           rest == SubSeq(Unread, r + 1, ToRead)
           w == Written(sink_tr, res, SubSeq(Unread, 1, PartSize))
           t == sink_tr
           u == sink_tr'
           p == PartSize
<1>1. /\ t \in Transformers /\ out \in Seq(Nat) /\ room \in Nat /\ made \in Nat
      /\ Unread \in Seq(Nat) /\ p \in Nat /\ p <= Len(Unread) /\ Len(Unread) = ToRead
      /\ ToRead \in Nat /\ ToRead <= made
  BY UnreadFacts, SinkFacts DEF SinkInv
<1>2. /\ m \in Nat /\ m <= room /\ res \in Results(t, p, m)
      /\ out' = out \o w /\ u = Transformed(t, res, SubSeq(Unread, 1, p))
      /\ room' = room - res.bytes_written
  BY DEF SinkRoundWith
<1>3. /\ Len(t.held) \in Nat /\ r \in Nat /\ r <= p
      /\ res.bytes_written \in Nat /\ res.bytes_written <= m
  <2> HIDE DEF t, p
  <2> QED BY <1>1, <1>2, ResultFacts
<1>4. /\ w \in Seq(Nat) /\ Len(w) = res.bytes_written
      /\ u \in Transformers
      /\ Len(u.held) = Len(t.held) + r - res.bytes_written
      /\ (w \o u.held) \o SubSeq(Unread, r + 1, Len(Unread)) = t.held \o Unread
  <2> DEFINE s == Unread
  <2>1. /\ t \in Transformers /\ s \in Seq(Nat) /\ p \in Nat /\ p <= Len(s) /\ m \in Nat
        /\ res \in Results(t, p, m)
    BY <1>1, <1>2
  <2>2. w = Written(t, res, SubSeq(s, 1, p)) /\ u = Transformed(t, res, SubSeq(s, 1, p))
    BY <1>2
  <2> HIDE DEF s, t, p, w, u, r, rest
  <2>3. LET input == SubSeq(s, 1, p)
            w2 == Written(t, res, input)
            u2 == Transformed(t, res, input)
        IN /\ w2 \in Seq(Nat) /\ Len(w2) = res.bytes_written
           /\ u2 \in Transformers
           /\ Len(u2.held) = Len(t.held) + res.bytes_read - res.bytes_written
           /\ (w2 \o u2.held) \o SubSeq(s, res.bytes_read + 1, Len(s)) = t.held \o s
    BY ONLY ZenonT(60), <2>1, PassedOn
  <2> QED BY <2>2, <2>3 DEF r, s
<1>5. KeptInOrder = (out \o t.held) \o Unread
  BY DEF KeptInOrder, Unread
<1>6. rest \in Seq(Nat)
  <2> DEFINE k == made - (ToRead - r)
             n == ToRead - r
  <2>1. k \in Nat /\ n \in Nat /\ r <= ToRead
    BY <1>1, <1>3
  <2> HIDE DEF r
  <2>2. rest = PositionsFrom(k, n)
    BY <1>3, <2>1, UnreadRest
  <2> HIDE DEF k, n, rest
  <2> QED BY <2>1, <2>2, PositionsFacts
<1> DEFINE h == t.held
           h2 == u.held
           s == Unread
<1>7. h \in Seq(Nat) /\ h2 \in Seq(Nat) /\ s \in Seq(Nat)
  BY <1>1, <1>4 DEF Transformers
<1>8. (w \o h2) \o rest = h \o s
  BY <1>1, <1>4
<1>9. KeptInOrder = (out \o h) \o s /\ out' = out \o w
  BY <1>2, <1>5
<1>10. Len(out') + Len(h2) = Len(out) + Len(h) + r /\ Len(out) <= Len(out')
  <2>1. Len(out') = Len(out) + Len(w)
    <3> HIDE DEF w
    <3>1. Len(out \o w) = Len(out) + Len(w)
      BY <1>1, <1>4, ConcatProperties
    <3> QED BY <1>2, <3>1
  <2>2. Len(out) \in Nat
    BY <1>1
  <2>3. /\ Len(w) = res.bytes_written /\ Len(h2) = Len(h) + r - res.bytes_written
        /\ res.bytes_written \in Nat /\ r \in Nat /\ Len(h) \in Nat
    BY <1>3, <1>4
  <2> HIDE DEF r, w, h, h2
  <2> QED BY <2>1, <2>2, <2>3
<1> HIDE DEF w, h, h2, s, rest
<1>11. w \in Seq(Nat) /\ out \in Seq(Nat)
  BY <1>1, <1>4
<1>12. out \o w \in Seq(Nat) /\ (out \o w) \o h2 \in Seq(Nat) /\ w \o h2 \in Seq(Nat)
  <2>1. out \o w \in Seq(Nat) /\ w \o h2 \in Seq(Nat)
    BY <1>7, <1>11, ConcatProperties
  <2> DEFINE x == out \o w
  <2> HIDE DEF x
  <2>2. x \in Seq(Nat)
    BY <2>1 DEF x
  <2>3. x \o h2 \in Seq(Nat)
    BY <1>7, <2>2, ConcatProperties
  <2> QED BY <2>1, <2>3 DEF x
<1>13. ((out \o w) \o h2) \o rest = (out \o h) \o s
  <2>1. (out \o w) \o h2 = out \o (w \o h2)
    <3>1. out \in Seq(Nat) /\ w \in Seq(Nat) /\ h2 \in Seq(Nat)
      BY <1>7, <1>11
    <3> QED BY ONLY <3>1, JoinAssociative, Zenon
  <2> DEFINE y == w \o h2
  <2>2. y \in Seq(Nat)
    BY <1>12
  <2> HIDE DEF y
  <2>3. (out \o y) \o rest = out \o (y \o rest)
    <3>1. out \in Seq(Nat) /\ y \in Seq(Nat) /\ rest \in Seq(Nat)
      BY <1>6, <1>11, <2>2
    <3> QED BY ONLY <3>1, JoinAssociative, Zenon
  <2>4. (out \o h) \o s = out \o (h \o s)
    <3>1. out \in Seq(Nat) /\ h \in Seq(Nat) /\ s \in Seq(Nat)
      BY <1>7, <1>11
    <3> QED BY ONLY <3>1, JoinAssociative, Zenon
  <2> QED BY <1>8, <2>1, <2>3, <2>4 DEF y
<1>14. room' \in Nat /\ r <= ToRead
  BY <1>1, <1>2, <1>3
<1> QED BY <1>3, <1>4, <1>6, <1>9, <1>10, <1>12, <1>13, <1>14 DEF h, h2, rest, s

\* A round of commit()
LEMMA SinkRound ==
  ASSUME SinkInv, Sink!Round
  PROVE  SinkInv'
<1>1. PICK m, res : SinkRoundWith(m, res)
  BY SinkRoundFacts
<1> DEFINE r == res.bytes_read
           rest == SubSeq(Unread, r + 1, ToRead)
           s == out' \o sink_tr'.held
<1>2. /\ r \in Nat /\ r <= ToRead /\ rest \in Seq(Nat)
      /\ sink_tr' \in Transformers /\ out' \in Seq(Nat) /\ room' \in Nat
      /\ s \in Seq(Nat) /\ s \o rest = KeptInOrder
      /\ Len(out') + Len(sink_tr'.held) = Len(out) + Len(sink_tr.held) + r
  BY <1>1, SinkRoundPasses
<1>3. /\ databuf \in Nat /\ fed \in Nat /\ fed <= databuf /\ databuf <= sink_buf.size
      /\ databuf <= made /\ Shows(sink_buf, databuf, made - databuf) /\ Ok(sink_buf)
      /\ ToRead = databuf - fed /\ made \in Nat /\ sink_buf.size \in Nat
      /\ Len(out) + Len(sink_tr.held) + ToRead <= made
      /\ Len(out) \in Nat /\ Len(sink_tr.held) \in Nat
      /\ BufferInv(sink_buf) /\ prepared = 0
      /\ made <= MaxBytes /\ lost \subseteq 1..made
  BY SinkRoundFacts, SinkFacts DEF SinkInv, ToRead
<1>4. /\ fed' = fed + r /\ prepared' = prepared /\ made' = made
  BY <1>1 DEF SinkRoundWith
<1>5. rest = PositionsFrom(made - (ToRead - r), ToRead - r)
  BY <1>2, UnreadRest
<1>6. AllBut(s \o rest, made, lost)
  BY <1>2 DEF SinkInv
<1>7. CASE ~LastRound(res, res)
  <2>1. UNCHANGED <<sink_buf, databuf, lost>>
    BY <1>1, <1>7 DEF SinkRoundWith
  <2>2. ToRead' = ToRead - r /\ fed' \in Nat /\ fed' <= databuf
    <3> HIDE DEF r
    <3> QED BY <1>2, <1>3, <1>4, <2>1 DEF ToRead
  <2>3. KeptInOrder' = s \o rest
    BY <1>4, <1>5, <2>2 DEF KeptInOrder
  <2>4. AllBut(KeptInOrder', made', lost')
    BY <1>4, <1>6, <2>1, <2>3
  <2>5. Len(out') + Len(sink_tr'.held) + ToRead' <= made'
    <3>1. r \in Nat /\ r <= ToRead /\ ToRead \in Nat
      BY <1>2, SinkFacts
    <3> HIDE DEF r
    <3> QED BY SMTT(30), <1>2, <1>3, <1>4, <2>2, <3>1
  <2>6. Shows(sink_buf', databuf', made' - databuf')
    BY <1>3, <1>4, <2>1
  <2> QED BY <1>2, <1>3, <1>4, <2>1, <2>2, <2>4, <2>5, <2>6 DEF SinkInv
<1>8. CASE LastRound(res, res)
  <2>1. /\ lost' = lost \cup Range(rest)
        /\ sink_buf' = consume(sink_buf, databuf) /\ databuf' = -1
    BY <1>1, <1>8 DEF SinkRoundWith
  <2>2. ToRead' = 0 /\ fed' \in Nat
    <3>1. r \in Nat
      BY <1>2
    <3> HIDE DEF r
    <3> QED BY <1>3, <1>4, <2>1, <3>1 DEF ToRead
  <2> HIDE DEF s, rest
  <2>3. KeptInOrder' = s
    <3>1. s \o << >> = s
      BY <1>2, ConcatEmptySeq
    <3> QED BY <2>2, <3>1, NoPositions DEF KeptInOrder, s
  <2>4. AllBut(s, made, lost \cup Range(rest))
    <3>1. s \in Seq(Nat) /\ rest \in Seq(Nat) /\ made \in Nat /\ AllBut(s \o rest, made, lost)
      BY <1>2, <1>3, <1>6
    <3> QED BY <3>1, CutAllBut
  <2>5. AllBut(KeptInOrder', made', lost')
    BY <1>4, <2>1, <2>3, <2>4
  <2>6. Len(out') + Len(sink_tr'.held) + ToRead' <= made'
    <3>1. r \in Nat /\ r <= ToRead /\ ToRead \in Nat
      BY <1>2, SinkFacts
    <3> HIDE DEF r
    <3> QED BY SMTT(30), <1>2, <1>3, <1>4, <2>2, <3>1
  <2>7. BufferInv(sink_buf') /\ sink_buf'.size = sink_buf.size - databuf
    BY <1>3, <2>1, ConsumeStep
  <2>8. Range(rest) \subseteq 1..made
    <3> DEFINE n == ToRead - r
               k == made - n
    <3>1. n \in Nat /\ k \in Nat /\ k + n = made
      <4>1. r \in Nat /\ r <= ToRead /\ ToRead \in Nat /\ ToRead <= made /\ made \in Nat
        BY <1>2, <1>3, SinkFacts
      <4> HIDE DEF r
      <4> QED BY <4>1
    <3> HIDE DEF n
    <3>2. rest = PositionsFrom(k, n)
      BY <1>5 DEF n
    <3> HIDE DEF k
    <3>3. ASSUME NEW i \in 1..n PROVE k + i \in 1..made
      BY <1>3, <3>1
    <3> QED BY <3>2, <3>3 DEF PositionsFrom, Range
  <2>9. prepared' \in Nat /\ prepared' <= sink_buf'.size
    BY <1>3, <1>4, <2>7
  <2>10. lost' \subseteq 1..made'
    BY <1>3, <1>4, <2>1, <2>8
  <2> QED BY <1>2, <1>3, <1>4, <2>1, <2>2, <2>5, <2>6, <2>7, <2>9, <2>10 DEF SinkInv
<1> QED BY <1>7, <1>8

\* Every step of the writer
LEMMA SinkStep ==
  ASSUME SinkInv, Sink!Step
  PROVE  SinkInv'
<1>1. CASE \E n \in 0..MaxAsked : Sink!Prepare(n) \/ Sink!PrepareThrows(n) \/ Sink!Commit(n)
  <2>1. PICK n \in 0..MaxAsked : Sink!Prepare(n) \/ Sink!PrepareThrows(n) \/ Sink!Commit(n)
    BY <1>1
  <2>2. n \in Nat
    OBVIOUS
  <2> QED BY <2>1, <2>2, SinkPrepare, SinkPrepareThrows, SinkCommit
<1>2. CASE Sink!Round
  BY <1>2, SinkRound
<1> QED BY <1>1, <1>2 DEF Sink!Step

\* The sequence of the invariant is the one of the property.
LEMMA InvKeepsInOrder ==
  ASSUME SinkInv
  PROVE  EachByteOnce
<1>1. Sink!Kept = KeptInOrder
  <2>1. CASE databuf = -1
    <3>1. ToRead = 0
      BY <2>1 DEF ToRead
    <3> QED BY <2>1, <3>1, NoPositions DEF Sink!Kept, Sink!None, KeptInOrder
  <2>2. CASE databuf # -1
    <3>1. Sink!Pending = PositionsFrom(made - ToRead, ToRead)
      BY <2>2, PendingIsUnread DEF Unread
    <3> QED BY <2>2, <3>1 DEF Sink!Kept, Sink!None, KeptInOrder
  <2> QED BY <2>1, <2>2
<1>2. Increasing(Sink!Kept) /\ Range(Sink!Kept) = (1..made) \ lost
  BY <1>1 DEF SinkInv, AllBut
<1> QED BY <1>2 DEF EachByteOnce, Sink!EachByteOnce, Increasing, Sink!Range, Range

\* A commit() that loses bytes is stuck.
LEMMA SinkLosesLate ==
  ASSUME SinkInv, Sink!Step, lost' # lost
  PROVE  room' = 0 \/ (sink_tr'.read = EndAt /\ sink_tr'.held = << >>)
<1>1. Sink!Round
  BY DEF Sink!Step, Sink!Prepare, Sink!PrepareThrows, Sink!Commit
<1>2. PICK m, res : SinkRoundWith(m, res)
  BY <1>1, SinkRoundFacts
<1> DEFINE r == res.bytes_read
           k == res.bytes_written
           u == sink_tr'
           p == PartSize
<1>3. /\ p \in Nat /\ p <= ToRead /\ (p = 0 => ToRead = 0) /\ m \in Nat /\ (m = 0 <=> room = 0)
      /\ sink_tr \in Transformers /\ res \in Results(sink_tr, p, m)
      /\ u = Transformed(sink_tr, res, SubSeq(Unread, 1, p))
      /\ room' = room - k /\ room \in Nat /\ ToRead \in Nat
      /\ Unread \in Seq(Nat) /\ p <= Len(Unread)
  BY <1>2, UnreadFacts, SinkFacts DEF SinkRoundWith, SinkInv
<1>4. /\ Len(sink_tr.held) \in Nat /\ r \in Nat /\ k \in Nat
      /\ res.done => /\ sink_tr.read + r = EndAt /\ Len(sink_tr.held) + r = k
      /\ res.done \/ k = m \/ r = p
  <2> HIDE DEF p
  <2> QED BY <1>3, ResultFacts
<1>5. /\ u \in Transformers /\ u.read = sink_tr.read + r
      /\ Len(u.held) = Len(sink_tr.held) + r - k
  <2> DEFINE s == Unread
             t == sink_tr
             input == SubSeq(s, 1, p)
             v == Transformed(t, res, input)
  <2>1. /\ t \in Transformers /\ s \in Seq(Nat) /\ p \in Nat /\ p <= Len(s) /\ m \in Nat
        /\ res \in Results(t, p, m)
    BY <1>3
  <2> HIDE DEF s, t, p
  <2>2. /\ v \in Transformers /\ v.read = t.read + res.bytes_read
        /\ Len(v.held) = Len(t.held) + res.bytes_read - res.bytes_written
    BY <2>1, PassedOn
  <2> QED BY <1>3, <2>2 DEF s, t
<1>6. LastRound(res, res) /\ lost' = lost \cup Range(SubSeq(Unread, r + 1, ToRead))
  BY <1>2 DEF SinkRoundWith
<1>7. CASE res.done
  <2>1. u.read = EndAt /\ Len(u.held) = 0
    <3> HIDE DEF r, k, u
    <3> QED BY <1>4, <1>5, <1>7
  <2>2. u.held \in Seq(Nat)
    BY <1>5 DEF Transformers
  <2>3. u.held = << >>
    <3> DEFINE h == u.held
    <3>1. h \in Seq(Nat) /\ Len(h) = 0
      BY <2>1, <2>2
    <3> HIDE DEF h
    <3>2. h = << >>
      BY <3>1, EmptySeq
    <3> QED BY <3>2 DEF h
  <2> QED BY <2>1, <2>3
<1>8. CASE ~res.done
  <2>1. r = 0 /\ k = 0
    BY <1>6, <1>8 DEF LastRound
  <2>2. CASE k = m
    BY <1>3, <2>1, <2>2
  <2>3. CASE r = p
    <3>1. ToRead = 0
      BY <1>3, <2>1, <2>3
    <3>2. Range(SubSeq(Unread, r + 1, ToRead)) = {}
      <4>1. SubSeq(Unread, 1, 0) = << >>
        BY SubSeqEmpty
      <4>2. SubSeq(Unread, r + 1, ToRead) = << >>
        <5>1. r + 1 = 1 /\ ToRead = 0
          BY <2>1, <3>1
        <5> QED BY <4>1, <5>1
      <4>3. Range(<< >>) = {}
        BY DEF Range
      <4> QED BY <4>2, <4>3
    <3> QED BY <1>6, <3>2
  <2> QED BY <1>4, <1>8, <2>2, <2>3
<1> QED BY <1>7, <1>8

-----------------------------------------------------------------------------
(* The source *)

\* The numbers of the source
LEMMA SourceFacts ==
  ASSUME SourceInv
  PROVE  /\ source_buf.size \in Nat /\ source_buf.beg \in Nat
         /\ avail \in Nat /\ given \in Nat /\ to_read \in Nat /\ written \in Nat
         /\ got \in Nat /\ taken \in Nat /\ want \in Nat \cup {-1}
         /\ Gathered \in Nat /\ Gathered <= source_buf.size
         /\ got + Gathered <= taken
         /\ Cap \in Nat /\ MaxAsked \in Nat /\ Hint \in Nat /\ Hint > 0
<1>1. source_buf.size \in Nat /\ source_buf.beg \in Nat
  BY BufferFacts DEF SourceInv
<1>2. /\ avail \in Nat /\ given \in Nat /\ to_read \in Nat /\ written \in Nat
      /\ got \in Nat /\ taken \in Nat /\ want \in Nat \cup {-1}
      /\ Gathered <= source_buf.size /\ got + Gathered <= taken
  BY DEF SourceInv
<1>3. Gathered \in Nat
  BY <1>2 DEF Gathered
<1> QED BY <1>1, <1>2, <1>3, ConstantFacts

\* The smaller of two rests is a number.
LEMMA SmallerRest ==
  ASSUME NEW a \in Nat, NEW m \in Nat, NEW n \in Nat, a < m, a <= n
  PROVE  Smaller(m - a, n - a) \in Nat
BY DEF Smaller

\* Whether a loop begins or not
ReadsOrNot ==
  \/ want' = -1 /\ UNCHANGED <<to_read, written>>
  \/ /\ want' \in Nat /\ avail < want' /\ written' = 0
     /\ to_read' = Smaller(want' - avail, source_buf'.size - avail)

\* The calls of next() up to the loop leave the bytes gathered alone.
LEMMA SourceKeeps ==
  ASSUME SourceInv, want = -1, UNCHANGED <<avail, source_tr, got, taken, out>>,
         BufferInv(source_buf'), source_buf'.size >= source_buf.size,
         Keeps(source_buf, 0, source_buf', source_buf.size),
         given' \in Nat, given' <= avail,
         ReadsOrNot
  PROVE  SourceInv'
<1>1. /\ source_buf.size \in Nat /\ source_buf.beg \in Nat /\ avail \in Nat
      /\ source_buf'.size \in Nat /\ got \in Nat
      /\ Gathered = avail /\ avail <= source_buf.size
      /\ to_read \in Nat /\ written \in Nat /\ avail <= source_buf'.size
  <2>1. source_buf'.size \in Nat
    BY BufferFacts
  <2> QED BY <2>1, SourceFacts DEF Gathered
<1>2. Gathered' = avail
  BY <1>1 DEF Gathered, ReadsOrNot
<1>3. Shows(source_buf', avail, got)
  <2>1. Shows(source_buf, avail, got)
    BY <1>1 DEF SourceInv
  <2> QED BY <1>1, <2>1, ShowsKept
<1>4. /\ want' \in Nat \cup {-1} /\ to_read' \in Nat /\ written' \in Nat
      /\ want' # -1 => /\ avail < want' /\ written' <= to_read'
                       /\ to_read' = Smaller(want' - avail, source_buf'.size - avail)
  <2>1. CASE want' = -1 /\ UNCHANGED <<to_read, written>>
    BY <1>1, <2>1
  <2>2. CASE /\ want' \in Nat /\ avail < want' /\ written' = 0
             /\ to_read' = Smaller(want' - avail, source_buf'.size - avail)
    <3>1. to_read' \in Nat
      <4>1. /\ avail \in Nat /\ want' \in Nat /\ source_buf'.size \in Nat
            /\ avail < want' /\ avail <= source_buf'.size
        BY <1>1, <2>2
      <4> QED BY <2>2, <4>1, SmallerRest
    <3> QED BY <2>2, <3>1
  <2> QED BY <2>1, <2>2 DEF ReadsOrNot
<1>5. /\ source_tr' \in Transformers /\ taken' \in Nat /\ taken' <= Len(out')
      /\ got' + Gathered' <= taken'
      /\ source_tr'.held = PositionsFrom(got' + Gathered', taken' - (got' + Gathered'))
  BY <1>1, <1>2 DEF SourceInv
<1> QED BY <1>1, <1>2, <1>3, <1>4, <1>5 DEF SourceInv

\* next(n) that has enough
LEMMA SourceNextBuffered ==
  ASSUME SourceInv, NEW n \in Nat, Source!NextBuffered(n), UNCHANGED out
  PROVE  SourceInv'
<1>1. /\ want = -1 /\ avail >= n /\ given' = n
      /\ UNCHANGED <<source_buf, avail, want, to_read, written, source_tr, got, taken>>
  BY DEF Source!NextBuffered, Source!Idle, Source!None
<1>2. avail \in Nat /\ source_buf.size \in Nat /\ source_buf.beg \in Nat
  BY SourceFacts
<1>3. Keeps(source_buf, 0, source_buf', source_buf.size)
  BY <1>1, <1>2 DEF Keeps, Cells
<1>4. BufferInv(source_buf') /\ source_buf'.size >= source_buf.size
  BY <1>1, <1>2 DEF SourceInv
<1>5. given' \in Nat /\ given' <= avail /\ ReadsOrNot
  BY <1>1, <1>2 DEF ReadsOrNot
<1> QED BY <1>1, <1>3, <1>4, <1>5, SourceKeeps

\* next(n) that has too few, up to the loop
LEMMA SourceNextReads ==
  ASSUME SourceInv, NEW n \in Nat, n <= MaxAsked, Source!NextReads(n), UNCHANGED out
  PROVE  SourceInv'
<1> DEFINE k == Smaller(n - source_buf.size, Cap)
           g == dynbuf_safe_grow_size(source_buf, k)
<1>1. /\ Ok(source_buf) /\ want = -1 /\ avail < n
      /\ source_buf' = (IF source_buf.size < n THEN grow(source_buf, g) ELSE source_buf)
      /\ want' = n /\ written' = 0 /\ given' = 0
      /\ to_read' = Smaller(n - avail, source_buf'.size - avail)
      /\ UNCHANGED <<avail, source_tr, got, taken>>
  BY SourceOps DEF Source!NextReads, Source!Idle, Source!None, Source!SourceGrowth,
                   Source!ReadSize
<1>2. /\ source_buf.size \in Nat /\ source_buf.beg \in Nat /\ avail \in Nat
      /\ BufferInv(source_buf) /\ Cap \in Nat /\ MaxAsked \in Nat
  BY SourceFacts DEF SourceInv
<1>3. /\ BufferInv(source_buf') /\ source_buf'.size >= source_buf.size
      /\ Keeps(source_buf, 0, source_buf', source_buf.size)
  <2>1. CASE source_buf.size < n
    <3>1. k \in Nat /\ source_buf.size + k <= MaxAsked
      BY <1>2, <2>1 DEF Smaller
    <3>2. source_buf' = grow(source_buf, dynbuf_safe_grow_size(source_buf, k))
      BY <1>1, <2>1
    <3> HIDE DEF k
    <3> QED BY <1>1, <1>2, <3>1, <3>2, GrowStep
  <2>2. CASE ~(source_buf.size < n)
    <3>1. source_buf' = source_buf
      BY <1>1, <2>2
    <3> QED BY <1>2, <3>1 DEF Keeps, Cells
  <2> QED BY <2>1, <2>2
<1> HIDE DEF k, g
<1>4. given' \in Nat /\ given' <= avail /\ ReadsOrNot
  BY <1>1, <1>2 DEF ReadsOrNot
<1> QED BY <1>1, <1>3, <1>4, SourceKeeps

\* next(n) without memory
LEMMA SourceNextThrows ==
  ASSUME SourceInv, NEW n \in Nat, n <= MaxAsked, Source!NextThrows(n), UNCHANGED out
  PROVE  SourceInv'
<1> DEFINE k == Smaller(n - source_buf.size, Cap)
           g == dynbuf_safe_grow_size(source_buf, k)
<1>1. /\ Ok(source_buf) /\ want = -1 /\ source_buf.size < n
      /\ source_buf' = grow_threw(source_buf, g) /\ given' = 0
      /\ UNCHANGED <<avail, want, to_read, written, source_tr, got, taken>>
  BY SourceOps DEF Source!NextThrows, Source!Idle, Source!None, Source!SourceGrowth
<1>2. /\ source_buf.size \in Nat /\ source_buf.beg \in Nat /\ avail \in Nat
      /\ BufferInv(source_buf) /\ Cap \in Nat /\ MaxAsked \in Nat
  BY SourceFacts DEF SourceInv
<1>3. g \in Nat
  <2>1. k \in Nat /\ source_buf.size + k <= MaxAsked
    BY <1>1, <1>2 DEF Smaller
  <2> HIDE DEF k
  <2> QED BY <1>1, <1>2, <2>1, GrowStep
<1> HIDE DEF g
<1>4. /\ BufferInv(source_buf') /\ source_buf'.size = source_buf.size
      /\ Keeps(source_buf, 0, source_buf', source_buf.size)
  BY <1>1, <1>2, <1>3, ThrewStep
<1>5. /\ given' \in Nat /\ given' <= avail /\ ReadsOrNot
      /\ source_buf'.size >= source_buf.size
  BY <1>1, <1>2, <1>4 DEF ReadsOrNot
<1> QED BY <1>1, <1>4, <1>5, SourceKeeps

\* consume(n) of bytes that next() has shown
LEMMA SourceConsume ==
  ASSUME SourceInv, NEW n \in Nat, Source!Consume(n), UNCHANGED out
  PROVE  SourceInv'
<1>1. /\ Ok(source_buf) /\ want = -1 /\ n <= given
      /\ source_buf' = consume(source_buf, n) /\ avail' = avail - n
      /\ got' = got + n /\ given' = 0
      /\ UNCHANGED <<want, to_read, written, source_tr, taken>>
  BY SourceOps DEF Source!Consume, Source!Idle, Source!None
<1>2. /\ source_buf.size \in Nat /\ source_buf.beg \in Nat /\ avail \in Nat
      /\ given \in Nat /\ given <= avail /\ got \in Nat /\ taken \in Nat
      /\ Gathered = avail /\ avail <= source_buf.size /\ BufferInv(source_buf)
      /\ Shows(source_buf, avail, got) /\ got + avail <= taken
      /\ to_read \in Nat /\ written \in Nat
  BY <1>1, SourceFacts DEF SourceInv, Gathered
<1> DEFINE l == source_buf.size - n
           m == avail - n
<1>3. /\ n <= source_buf.size /\ l \in Nat /\ m \in Nat /\ m <= l /\ n + m = avail
      /\ (got + n) + m = got + avail /\ m <= taken
  BY <1>1, <1>2
<1>4. Gathered' = m
  BY <1>1 DEF Gathered
<1>5. /\ BufferInv(source_buf') /\ Keeps(source_buf, n, source_buf', l)
      /\ source_buf'.size = l
  BY <1>1, <1>2, <1>3, ConsumeStep
<1> HIDE DEF l, m
<1>6. Shows(source_buf', m, got + n)
  BY <1>2, <1>3, <1>5, ShowsConsumed
<1>7. /\ avail' \in Nat /\ given' \in Nat /\ given' <= avail' /\ Gathered' <= source_buf'.size
      /\ got' \in Nat /\ got' + Gathered' = got + Gathered /\ got' + Gathered' <= taken'
  BY <1>1, <1>2, <1>3, <1>4, <1>5 DEF m
<1>8. /\ source_tr' \in Transformers /\ taken' \in Nat /\ taken' <= Len(out')
      /\ source_tr'.held = PositionsFrom(got' + Gathered', taken' - (got' + Gathered'))
  BY <1>1, <1>7 DEF SourceInv
<1> QED BY <1>1, <1>2, <1>4, <1>5, <1>6, <1>7, <1>8 DEF SourceInv

\* How much room the consumer of read_buf shows
PartRoom == Smaller(Hint, to_read - written)

\* A round over n bytes of the source behind with the transformer's result res
SourceRoundWith(n, res) ==
  /\ n \in Nat /\ taken + n <= Len(out) /\ (n = 0 <=> taken = Len(out))
  /\ res \in Results(source_tr, n, PartRoom)
  /\ source_buf' = Source!Stored(source_buf,
                                 Written(source_tr, res, PositionsFrom(taken, n)))
  /\ source_tr' = Transformed(source_tr, res, PositionsFrom(taken, n))
  /\ taken' = taken + res.bytes_read
  /\ written' = written + res.bytes_written
  /\ UNCHANGED <<to_read, got>>
  /\ IF LastRound(res, res)
     THEN /\ avail' = avail + written' /\ given' = Smaller(avail', want) /\ want' = -1
     ELSE UNCHANGED <<avail, given, want>>

\* Every round is one.
LEMMA SourceRoundFacts ==
  ASSUME SourceInv, Len(out) \in Nat, Source!Round
  PROVE  want # -1 /\ \E n, res : SourceRoundWith(n, res)
<1>1. want # -1
  BY DEF Source!Round, Source!None
<1>2. PICK part \in Source!InParts :
        \E res \in Source!Results(source_tr, Len(part), Source!OutPart) :
          /\ source_buf' = Source!Stored(source_buf, Source!Written(source_tr, res, part))
          /\ source_tr' = Source!Transformed(source_tr, res, part)
          /\ taken' = taken + res.bytes_read
          /\ written' = written + res.bytes_written
          /\ IF Source!LastRound(res, res) THEN Source!Returned(written')
             ELSE UNCHANGED <<avail, given, want>>
  BY DEF Source!Round
<1>3. PICK n \in Nat : /\ part = PositionsFrom(taken, n)
                       /\ taken + n <= Len(out) /\ (n = 0 <=> taken = Len(out))
  <2>1. taken \in Nat /\ taken <= Len(out) /\ Hint \in Nat /\ Hint > 0
    BY SourceFacts DEF SourceInv
  <2>2. CASE taken = Len(out)
    <3>1. part = << >>
      BY <1>2, <2>2 DEF Source!InParts
    <3>2. part = PositionsFrom(taken, 0) /\ taken + 0 <= Len(out)
      BY <2>1, <3>1, NoPositions
    <3> QED BY <2>2, <3>2
  <2>3. CASE taken # Len(out)
    <3> DEFINE left == Len(out) - taken
    <3>1. left \in Nat /\ left > 0 /\ taken + left = Len(out)
      BY <2>1, <2>3
    <3>2. part \in {PositionsFrom(taken, n) : n \in 1..Smaller(Hint, left)}
      BY <1>2, <2>3, SourceOps DEF Source!InParts, PositionsFrom
    <3> HIDE DEF left
    <3>3. PICK n \in 1..Smaller(Hint, left) : part = PositionsFrom(taken, n)
      BY <3>2
    <3>4. n \in Nat /\ n <= left /\ n # 0
      BY <2>1, <3>1 DEF Smaller
    <3>5. taken + n <= Len(out)
      BY <2>1, <3>1, <3>4
    <3> QED BY <2>3, <3>3, <3>4, <3>5
  <2> QED BY <2>2, <2>3
<1>4. Len(part) = n
  <2>1. taken \in Nat
    BY SourceFacts
  <2> QED BY <1>3, <2>1, PositionsFacts
<1>5. Source!OutPart = PartRoom
  BY SourceOps DEF Source!OutPart, PartRoom
<1>6. PICK res \in Results(source_tr, n, PartRoom) :
        /\ source_buf' = Source!Stored(source_buf, Written(source_tr, res, part))
        /\ source_tr' = Transformed(source_tr, res, part)
        /\ taken' = taken + res.bytes_read
        /\ written' = written + res.bytes_written
        /\ IF LastRound(res, res)
           THEN /\ avail' = avail + written' /\ given' = Smaller(avail', want)
                /\ want' = -1
           ELSE UNCHANGED <<avail, given, want>>
  <2>1. PICK res \in Results(source_tr, n, PartRoom) :
          /\ source_buf' = Source!Stored(source_buf, Source!Written(source_tr, res, part))
          /\ source_tr' = Source!Transformed(source_tr, res, part)
          /\ taken' = taken + res.bytes_read
          /\ written' = written + res.bytes_written
          /\ IF Source!LastRound(res, res) THEN Source!Returned(written')
             ELSE UNCHANGED <<avail, given, want>>
    BY <1>2, <1>4, <1>5, SourceOps
  <2>2. /\ Source!Written(source_tr, res, part) = Written(source_tr, res, part)
        /\ Source!Transformed(source_tr, res, part) = Transformed(source_tr, res, part)
        /\ (Source!LastRound(res, res) <=> LastRound(res, res))
        /\ Source!Smaller(avail', want) = Smaller(avail', want)
    BY SourceOps
  <2>3. Source!Returned(written')
          <=> avail' = avail + written' /\ given' = Smaller(avail', want) /\ want' = -1
    BY <2>2 DEF Source!Returned, Source!None
  <2> QED BY <2>1, <2>2, <2>3
<1>7. UNCHANGED <<to_read, got>>
  BY DEF Source!Round
<1>8. SourceRoundWith(n, res)
  BY <1>3, <1>6, <1>7 DEF SourceRoundWith
<1> QED BY <1>1, <1>8

\* Storing positions of a stream is storing a part of it.
LEMMA StoredPart ==
  ASSUME NEW b, NEW k \in Nat, NEW a \in Nat,
         b.beg \in Nat, avail \in Nat, written \in Nat
  PROVE  Source!Stored(b, PositionsFrom(a, k)) = StreamStored(b, avail + written, k, a)
<1> DEFINE first == b.beg + avail + written
           s == PositionsFrom(a, k)
<1>1. Len(s) = k /\ \A i \in 1..k : s[i] = a + i
  BY PositionsFacts
<1> HIDE DEF s
<1>2. first = b.beg + (avail + written) /\ first \in Int
  OBVIOUS
<1> HIDE DEF first
<1>3. ASSUME NEW c \in Cells(b.len), c - first \in Cells(k)
      PROVE  s[c - first + 1] = a + 1 + (c - first)
  <2> DEFINE x == c - first
  <2>1. x \in 0..(k - 1)
    BY <1>3 DEF Cells
  <2> HIDE DEF x
  <2>2. x + 1 \in 1..k /\ a + (x + 1) = a + 1 + x
    BY <2>1
  <2>3. s[x + 1] = a + 1 + x
    BY <1>1, <2>2
  <2> QED BY <2>3 DEF x
<1>4. [c \in Cells(b.len) |-> IF c - first \in Cells(k) THEN s[c - first + 1] ELSE b.store[c]]
      = [c \in Cells(b.len) |-> IF c - first \in Cells(k) THEN a + 1 + (c - first)
                                ELSE b.store[c]]
  BY <1>3
<1>5. Source!Stored(b, s)
        = [b EXCEPT !.store = [c \in Cells(b.len) |->
             IF c - first \in Cells(k) THEN s[c - first + 1] ELSE b.store[c]]]
  BY <1>1 DEF Source!Stored, Source!Cells, Cells, first
<1>6. StreamStored(b, avail + written, k, a)
        = [b EXCEPT !.store = [c \in Cells(b.len) |->
             IF c - first \in Cells(k) THEN a + 1 + (c - first) ELSE b.store[c]]]
  BY <1>2 DEF StreamStored
<1> QED BY <1>4, <1>5, <1>6 DEF s

\* What a round of next() does to the bytes gathered
LEMMA SourceRoundPasses ==
  ASSUME SourceInv, SinkInv, want # -1, NEW n, NEW res, SourceRoundWith(n, res)
  PROVE  LET r == res.bytes_read
             k == res.bytes_written
             g == got + Gathered
         IN /\ r \in Nat /\ k \in Nat /\ taken + r <= Len(out)
            /\ written + k <= to_read /\ Gathered + k <= source_buf.size
            /\ g + k <= taken + r
            /\ source_tr' \in Transformers
            /\ source_tr'.read = source_tr.read + r
            /\ source_tr'.held = PositionsFrom(g + k, taken + r - (g + k))
            /\ BufferInv(source_buf') /\ source_buf'.size = source_buf.size
            /\ Shows(source_buf', Gathered + k, got)
            /\ res.done => source_tr.read + r = EndAt /\ taken + r = g + k
            /\ res.done \/ k = PartRoom \/ r = n
<1> DEFINE r == res.bytes_read
           k == res.bytes_written
           g == got + Gathered
           h == taken - g
           t == source_tr
           u == source_tr'
           m == PartRoom
<1>1. /\ avail \in Nat /\ written \in Nat /\ to_read \in Nat /\ want \in Nat
      /\ written <= to_read /\ avail < want
      /\ to_read = Smaller(want - avail, source_buf.size - avail)
      /\ Gathered = avail + written /\ Gathered \in Nat /\ Gathered <= source_buf.size
      /\ got \in Nat /\ taken \in Nat /\ source_buf.size \in Nat /\ source_buf.beg \in Nat
      /\ g <= taken /\ Hint \in Nat /\ Hint > 0 /\ BufferInv(source_buf)
      /\ Shows(source_buf, Gathered, got) /\ t \in Transformers
      /\ t.held = PositionsFrom(g, h)
  BY SourceFacts DEF SourceInv, Gathered
<1>2. /\ n \in Nat /\ taken + n <= Len(out) /\ res \in Results(t, n, m)
      /\ source_buf' = Source!Stored(source_buf, Written(t, res, PositionsFrom(taken, n)))
      /\ u = Transformed(t, res, PositionsFrom(taken, n))
  BY DEF SourceRoundWith
<1>3. Len(out) \in Nat /\ Len(out) <= MaxBytes
  <2>1. /\ Len(out) + Len(sink_tr.held) + ToRead <= made /\ made <= MaxBytes
        /\ Len(out) \in Nat /\ Len(sink_tr.held) \in Nat /\ ToRead \in Nat /\ made \in Nat
        /\ MaxBytes \in Nat
    BY SinkFacts DEF SinkInv
  <2> QED BY <2>1
<1>4. g \in Nat /\ h \in Nat /\ g + h = taken /\ m \in Nat
  BY <1>1 DEF PartRoom, Smaller
<1>5. to_read + avail <= source_buf.size
  BY <1>1 DEF Smaller
<1>6. m <= to_read - written
  BY <1>1 DEF PartRoom, Smaller
<1> HIDE DEF t, u, m, g, h
<1>7. /\ Len(t.held) = h /\ r \in Nat /\ r <= n /\ k \in Nat /\ k <= m
      /\ res.done => t.read + r = EndAt /\ Len(t.held) + r = k
      /\ res.done \/ k = m \/ r = n
  <2>1. Len(t.held) = h
    BY <1>1, <1>4, PositionsFacts
  <2> QED BY SMTT(30), <1>1, <1>2, <1>4, <2>1, ResultFacts
<1>8. /\ k <= h + r
      /\ Written(t, res, PositionsFrom(taken, n)) = PositionsFrom(g, k)
      /\ u \in Transformers /\ u.read = t.read + r
      /\ u.held = PositionsFrom(g + k, h + r - k)
  <2> DEFINE input == PositionsFrom(g + h, n)
             v == Transformed(t, res, input)
  <2>1. /\ t \in Transformers /\ g \in Nat /\ h \in Nat /\ t.held = PositionsFrom(g, h)
        /\ n \in Nat /\ m \in Nat /\ res \in Results(t, n, m)
    BY <1>1, <1>2, <1>4
  <2>2. /\ res.bytes_written <= h + res.bytes_read
        /\ Written(t, res, input) = PositionsFrom(g, res.bytes_written)
        /\ v \in Transformers /\ v.read = t.read + res.bytes_read
        /\ v.held = PositionsFrom(g + res.bytes_written,
                                  h + res.bytes_read - res.bytes_written)
    BY <2>1, PassedOnStream
  <2> QED BY <1>2, <1>4, <2>2
<1> HIDE DEF r, k
<1>9. /\ taken + r <= Len(out) /\ written + k <= to_read
      /\ Gathered + k <= source_buf.size
      /\ g + k <= taken + r /\ h + r - k = taken + r - (g + k) /\ g + k <= MaxBytes
  <2>1. taken + r <= Len(out)
    BY <1>1, <1>2, <1>3, <1>7
  <2>2. written + k <= to_read
    BY <1>1, <1>4, <1>6, <1>7
  <2>3. Gathered + k <= source_buf.size
    BY SMTT(30), <1>1, <1>5, <1>7, <2>2
  <2>4. g + k <= taken + r /\ h + r - k = taken + r - (g + k)
    BY <1>1, <1>4, <1>7, <1>8
  <2>5. g + k <= MaxBytes
    BY <1>1, <1>3, <1>4, <1>7, <2>1, <2>4, ConstantFacts
  <2> QED BY <2>1, <2>2, <2>3, <2>4, <2>5
<1>10. source_buf' = StreamStored(source_buf, Gathered, k, g)
  <2>1. k \in Nat /\ g \in Nat /\ source_buf.beg \in Nat /\ avail \in Nat /\ written \in Nat
    BY <1>1, <1>4, <1>7
  <2>2. Source!Stored(source_buf, PositionsFrom(g, k))
          = StreamStored(source_buf, avail + written, k, g)
    BY <2>1, StoredPart
  <2> QED BY <1>1, <1>2, <1>8, <2>2
<1>11. /\ BufferInv(source_buf') /\ source_buf'.size = source_buf.size
       /\ source_buf'.beg = source_buf.beg
       /\ \A x \in Cells(Gathered) :
            source_buf'.store[source_buf'.beg + x] = source_buf.store[source_buf.beg + x]
       /\ \A x \in Cells(k) : source_buf'.store[source_buf'.beg + Gathered + x] = g + 1 + x
  <2>1. /\ BufferInv(source_buf) /\ Gathered \in Nat /\ k \in Nat /\ g \in Nat
        /\ Gathered + k <= source_buf.size /\ g + k <= MaxBytes
    BY <1>1, <1>4, <1>7, <1>9
  <2> QED BY <1>10, <2>1, StoreStep
<1>12. Shows(source_buf', Gathered + k, got)
  <2> SUFFICES ASSUME NEW x \in Cells(Gathered + k)
               PROVE  source_buf'.store[source_buf'.beg + x] = got + 1 + x
    BY DEF Shows
  <2>1. CASE x \in Cells(Gathered)
    BY <1>1, <1>11, <2>1 DEF Shows
  <2>2. CASE x \notin Cells(Gathered)
    <3> DEFINE y == x - Gathered
    <3>1. y \in Cells(k) /\ source_buf.beg + Gathered + y = source_buf.beg + x
      BY SMTT(30), <1>1, <1>7, <2>2 DEF Cells
    <3>2. g + 1 + y = got + 1 + x
      BY <1>1 DEF Cells, g
    <3> HIDE DEF y
    <3>3. source_buf'.store[source_buf'.beg + Gathered + y] = g + 1 + y
      BY <1>11, <3>1
    <3> QED BY <1>11, <3>1, <3>2, <3>3
  <2> QED BY <2>1, <2>2
<1>13. res.done => taken + r = g + k
  BY <1>4, <1>7, <1>1
<1> QED BY <1>7, <1>8, <1>9, <1>11, <1>12, <1>13 DEF r, k, g, t, u, m

\* A round of next()
LEMMA SourceRound ==
  ASSUME SourceInv, SinkInv, Source!Round, UNCHANGED out
  PROVE  SourceInv'
<1>0. Len(out) \in Nat
  BY SinkFacts
<1>1. want # -1
  BY <1>0, SourceRoundFacts
<1>2. PICK n, res : SourceRoundWith(n, res)
  BY <1>0, SourceRoundFacts
<1> DEFINE r == res.bytes_read
           k == res.bytes_written
           g == got + Gathered
<1>3. /\ r \in Nat /\ k \in Nat /\ taken + r <= Len(out)
      /\ written + k <= to_read /\ Gathered + k <= source_buf.size
      /\ g + k <= taken + r
      /\ source_tr' \in Transformers
      /\ source_tr'.held = PositionsFrom(g + k, taken + r - (g + k))
      /\ BufferInv(source_buf') /\ source_buf'.size = source_buf.size
      /\ Shows(source_buf', Gathered + k, got)
  BY <1>1, <1>2, SourceRoundPasses
<1>4. /\ taken' = taken + r /\ written' = written + k /\ UNCHANGED <<to_read, got>>
      /\ IF LastRound(res, res)
         THEN /\ avail' = avail + written' /\ given' = Smaller(avail', want) /\ want' = -1
         ELSE UNCHANGED <<avail, given, want>>
  BY <1>2 DEF SourceRoundWith
<1>5. /\ avail \in Nat /\ given \in Nat /\ given <= avail /\ want \in Nat /\ to_read \in Nat
      /\ written \in Nat /\ got \in Nat /\ taken \in Nat /\ Gathered \in Nat
      /\ Gathered = avail + written /\ avail < want /\ source_buf.size \in Nat
      /\ to_read = Smaller(want - avail, source_buf.size - avail)
  BY <1>1, SourceFacts DEF SourceInv, Gathered
<1> HIDE DEF r, k
<1>6. /\ Gathered' = Gathered + k
      /\ avail' \in Nat /\ given' \in Nat /\ given' <= avail' /\ want' \in Nat \cup {-1}
      /\ written' \in Nat /\ taken' \in Nat
      /\ want' # -1 => /\ avail' < want' /\ written' <= to_read'
                       /\ to_read' = Smaller(want' - avail', source_buf'.size - avail')
  <2>1. written' \in Nat /\ taken' \in Nat
    BY <1>3, <1>4, <1>5
  <2>2. CASE LastRound(res, res)
    <3>1. avail' = avail + written' /\ given' = Smaller(avail', want) /\ want' = -1
      BY <1>4, <2>2
    <3>2. Gathered' = Gathered + k
      BY <1>3, <1>4, <1>5, <3>1 DEF Gathered
    <3>3. avail' \in Nat
      <4> DEFINE w == written'
      <4>1. avail \in Nat /\ w \in Nat /\ avail' = avail + w
        BY <1>5, <2>1, <3>1
      <4> HIDE DEF w
      <4>2. avail + w \in Nat
        BY <4>1
      <4> QED BY <4>1, <4>2
    <3>4. given' \in Nat /\ given' <= avail'
      BY <1>5, <3>1, <3>3 DEF Smaller
    <3> QED BY <2>1, <3>1, <3>2, <3>3, <3>4
  <2>3. CASE ~LastRound(res, res)
    <3>1. UNCHANGED <<avail, given, want, to_read>> /\ want # -1
      BY <1>1, <1>4, <2>3
    <3>2. Gathered' = Gathered + k
      BY <1>3, <1>4, <1>5, <3>1 DEF Gathered
    <3> QED BY <1>3, <1>4, <1>5, <2>1, <3>1, <3>2
  <2> QED BY <2>2, <2>3
<1>7. got' + Gathered' = g + k
  BY <1>3, <1>4, <1>5, <1>6
<1>8. /\ taken' <= Len(out') /\ got' + Gathered' <= taken' /\ Gathered' <= source_buf'.size
      /\ source_tr'.held = PositionsFrom(got' + Gathered', taken' - (got' + Gathered'))
      /\ Shows(source_buf', Gathered', got')
  <2>1. got' = got /\ out' = out /\ taken' = taken + r
    BY <1>4
  <2>2. taken' <= Len(out') /\ got' + Gathered' <= taken'
    BY <1>3, <1>7, <2>1
  <2>3. Gathered' <= source_buf'.size
    BY <1>3, <1>6
  <2>4. source_tr'.held = PositionsFrom(got' + Gathered', taken' - (got' + Gathered'))
    <3> DEFINE x == g + k
    <3>1. taken' - x = taken + r - x
      <4>1. taken \in Nat /\ r \in Nat /\ x \in Nat /\ taken' = taken + r
        BY <1>3, <1>5, <2>1
      <4> HIDE DEF x
      <4> QED BY <4>1
    <3> HIDE DEF g
    <3>2. source_tr'.held = PositionsFrom(x, taken + r - x)
      BY <1>3
    <3> QED BY <1>7, <3>1, <3>2
  <2>5. Shows(source_buf', Gathered', got')
    BY <1>3, <1>6, <2>1
  <2> QED BY <2>2, <2>3, <2>4, <2>5
<1>9. to_read' \in Nat /\ got' \in Nat
  BY <1>4, <1>5
<1> QED BY <1>3, <1>6, <1>8, <1>9 DEF SourceInv

\* Every step of the reader
LEMMA SourceStep ==
  ASSUME SourceInv, SinkInv, Source!Step, UNCHANGED out
  PROVE  SourceInv'
<1>1. CASE \E n \in 0..MaxAsked : \/ Source!NextBuffered(n) \/ Source!NextReads(n)
                                  \/ Source!NextThrows(n) \/ Source!Consume(n)
  <2>1. PICK n \in 0..MaxAsked : \/ Source!NextBuffered(n) \/ Source!NextReads(n)
                                 \/ Source!NextThrows(n) \/ Source!Consume(n)
    BY <1>1
  <2>2. n \in Nat /\ n <= MaxAsked
    BY ConstantFacts
  <2> QED BY <2>1, <2>2, SourceNextBuffered, SourceNextReads, SourceNextThrows,
             SourceConsume
<1>2. CASE Source!Round
  BY <1>2, SourceRound
<1> QED BY <1>1, <1>2 DEF Source!Step

\* A next() that gives less than was asked for is stuck.
LEMMA SourceShort ==
  ASSUME SourceInv, SinkInv, Source!Step, UNCHANGED out, want # -1, want' = -1
  PROVE  \/ given' = want
         \/ source_tr'.read = EndAt /\ source_tr'.held = << >>
         \/ taken' = Len(out)
         \/ avail' = source_buf'.size
<1>0. Len(out) \in Nat
  BY SinkFacts
<1>1. Source!Round
  BY DEF Source!Step, Source!NextBuffered, Source!NextReads, Source!NextThrows,
         Source!Consume, Source!Idle, Source!None
<1>2. PICK n, res : SourceRoundWith(n, res)
  BY <1>0, <1>1, SourceRoundFacts
<1> DEFINE r == res.bytes_read
           k == res.bytes_written
           g == got + Gathered
<1>3. /\ r \in Nat /\ k \in Nat /\ taken + r <= Len(out)
      /\ source_tr'.read = source_tr.read + r
      /\ source_tr'.held = PositionsFrom(g + k, taken + r - (g + k))
      /\ source_buf'.size = source_buf.size
      /\ res.done => source_tr.read + r = EndAt /\ taken + r = g + k
      /\ res.done \/ k = PartRoom \/ r = n
  BY <1>2, SourceRoundPasses
<1>4. /\ taken' = taken + r /\ written' = written + k
      /\ n = 0 <=> taken = Len(out)
      /\ LastRound(res, res)
      /\ avail' = avail + written' /\ given' = Smaller(avail', want)
  BY <1>2 DEF SourceRoundWith
<1>5. /\ avail \in Nat /\ want \in Nat /\ to_read \in Nat /\ written \in Nat
      /\ got \in Nat /\ taken \in Nat /\ Gathered \in Nat /\ avail < want
      /\ written <= to_read /\ source_buf.size \in Nat /\ Hint \in Nat /\ Hint > 0
      /\ to_read = Smaller(want - avail, source_buf.size - avail)
  BY SourceFacts DEF SourceInv
<1>6. CASE res.done
  <2>1. source_tr'.read = EndAt
    BY <1>3, <1>6
  <2>2. source_tr'.held = << >>
    <3> DEFINE x == g + k
    <3>1. x \in Nat /\ taken \in Nat /\ r \in Nat /\ taken + r = x
      BY <1>3, <1>5, <1>6
    <3>2. source_tr'.held = PositionsFrom(x, taken + r - x)
      BY <1>3
    <3> HIDE DEF x, r
    <3>3. taken + r - x = 0
      BY <3>1
    <3> QED BY <3>2, <3>3, NoPositions
  <2> QED BY <2>1, <2>2
<1>7. CASE ~res.done
  <2>1. r = 0 /\ k = 0
    BY <1>4, <1>7 DEF LastRound
  <2>2. CASE r = n
    <3>1. taken = Len(out) /\ taken' = taken
      BY <1>4, <1>5, <2>1, <2>2
    <3> QED BY <3>1
  <2>3. CASE k = PartRoom
    <3>1. written = to_read
      BY <1>5, <2>1, <2>3 DEF PartRoom, Smaller
    <3>2. avail' = avail + to_read
      BY <1>4, <1>5, <2>1, <3>1
    <3>3. avail + to_read = want \/ avail + to_read = source_buf.size
      BY <1>5 DEF Smaller
    <3>4. Smaller(want, want) = want
      BY DEF Smaller
    <3> QED BY <1>3, <1>4, <3>2, <3>3, <3>4
  <2> QED BY <1>3, <1>7, <2>2, <2>3
<1> QED BY <1>6, <1>7

\* The reader takes bytes and gives none back.
LEMMA SourceTakes ==
  ASSUME SourceInv, SinkInv, Source!Step
  PROVE  taken' \in Nat /\ taken <= taken'
<1>0. Len(out) \in Nat /\ taken \in Nat
  BY SinkFacts, SourceFacts
<1>1. CASE Source!Round
  <2>1. want # -1
    BY <1>0, <1>1, SourceRoundFacts
  <2>2. PICK n, res : SourceRoundWith(n, res)
    BY <1>0, <1>1, SourceRoundFacts
  <2> DEFINE r == res.bytes_read
  <2>3. r \in Nat
    BY <2>1, <2>2, SourceRoundPasses
  <2>4. taken' = taken + r
    BY <2>2 DEF SourceRoundWith
  <2> HIDE DEF r
  <2>5. taken + r \in Nat /\ taken <= taken + r
    BY <1>0, <2>3
  <2> QED BY <2>4, <2>5
<1>2. CASE ~Source!Round
  <2>1. taken' = taken
    BY <1>2 DEF Source!Step, Source!NextBuffered, Source!NextReads, Source!NextThrows,
                Source!Consume
  <2> QED BY <1>0, <2>1
<1> QED BY <1>1, <1>2

\* The bytes of the invariant are those of the property.
LEMMA InvLosesNothing ==
  ASSUME SourceInv
  PROVE  NothingLost
<1> DEFINE m == taken - (got + Gathered)
<1>1. /\ source_buf.beg \in Nat /\ source_buf.size \in Nat /\ Gathered \in Nat
      /\ Gathered <= source_buf.size /\ got \in Nat /\ taken \in Nat /\ m \in Nat
      /\ Gathered + m = taken - got /\ Shows(source_buf, Gathered, got)
      /\ source_tr.held = PositionsFrom(got + Gathered, m)
  BY SourceFacts DEF SourceInv
<1> HIDE DEF m
<1>2. SubSeq(Window(source_buf), 1, Gathered) = PositionsFrom(got, Gathered)
  BY <1>1, WindowShows
<1>3. PositionsFrom(got, Gathered) \o PositionsFrom(got + Gathered, m)
        = PositionsFrom(got, Gathered + m)
  BY <1>1, JoinPositions
<1>4. SubSeq(Source!Window(source_buf), 1, Gathered) \o source_tr.held
        = PositionsFrom(got, taken - got)
  BY <1>1, <1>2, <1>3, SourceOps
<1> QED BY <1>1, <1>4 DEF NothingLost, Source!NothingLost, Source!None, Gathered,
                          PositionsFrom

-----------------------------------------------------------------------------
(* The pipe *)

\* A call of the writer leaves the reader's bytes behind the last ones.
LEMMA WriteStep ==
  ASSUME IInv, Write
  PROVE  IInv'
<1>1. SinkInv /\ SourceInv /\ Sink!Step /\ UNCHANGED source_vars
  BY DEF IInv, Write
<1>2. SinkInv'
  BY <1>1, SinkStep
<1>3. Len(out) \in Nat /\ Len(out') \in Nat /\ Len(out) <= Len(out')
  <2>1. Len(out) \in Nat /\ Len(out') \in Nat
    BY <1>1, <1>2 DEF SinkInv
  <2>2. CASE Sink!Round
    <3>1. PICK m, res : SinkRoundWith(m, res)
      BY <1>1, <2>2, SinkRoundFacts
    <3> QED BY <1>1, <2>1, <3>1, SinkRoundPasses
  <2>3. CASE ~Sink!Round
    <3>1. out' = out
      BY <1>1, <2>3 DEF Sink!Step, Sink!Prepare, Sink!PrepareThrows, Sink!Commit
    <3> QED BY <2>1, <3>1
  <2> QED BY <2>2, <2>3
<1>4. SourceInv'
  <2>1. /\ UNCHANGED <<source_buf, avail, given, want, to_read, written, source_tr, got, taken>>
        /\ taken \in Nat /\ taken <= Len(out)
    BY <1>1 DEF source_vars, SourceInv
  <2>2. Gathered' = Gathered
    BY <2>1 DEF Gathered
  <2>3. taken' <= Len(out')
    BY <1>3, <2>1
  <2> QED BY <1>1, <2>1, <2>2, <2>3 DEF SourceInv
<1> QED BY <1>2, <1>4 DEF IInv

\* A call of the reader makes room for the writer.
LEMMA ReadStep ==
  ASSUME IInv, Read
  PROVE  IInv'
<1>1. /\ SinkInv /\ SourceInv /\ Source!Step /\ UNCHANGED <<sink_vars, out>>
      /\ room' = room + (taken' - taken)
  BY DEF IInv, Read
<1>2. SourceInv'
  BY <1>1, SourceStep
<1>3. room' \in Nat
  <2> DEFINE t == taken'
  <2>1. taken \in Nat /\ room \in Nat /\ t \in Nat /\ taken <= t
    BY <1>1, SourceTakes, SourceFacts, SinkFacts
  <2>2. room' = room + (t - taken)
    BY <1>1
  <2> HIDE DEF t
  <2>3. room + (t - taken) \in Nat
    BY <2>1
  <2> QED BY <2>2, <2>3
<1>4. SinkInv'
  <2>1. UNCHANGED <<sink_buf, prepared, databuf, fed, sink_tr, made, lost, out>>
    BY <1>1 DEF sink_vars
  <2>2. ToRead' = ToRead
    BY <2>1 DEF ToRead
  <2>3. KeptInOrder' = KeptInOrder
    BY <2>1, <2>2 DEF KeptInOrder
  <2> QED BY <1>1, <1>3, <2>1, <2>2, <2>3 DEF SinkInv
<1> QED BY <1>2, <1>4 DEF IInv

\* And nothing changes where nothing is called.
LEMMA StutterStep ==
  ASSUME IInv, UNCHANGED vars
  PROVE  IInv'
<1>1. UNCHANGED <<sink_buf, prepared, databuf, fed, sink_tr, made, lost, room, out>>
      /\ UNCHANGED <<source_buf, avail, given, want, to_read, written, source_tr, got, taken>>
  BY DEF vars, sink_vars, source_vars
<1>2. ToRead' = ToRead /\ Gathered' = Gathered
  BY <1>1 DEF ToRead, Gathered
<1>3. KeptInOrder' = KeptInOrder
  BY <1>1, <1>2 DEF KeptInOrder
<1>4. SinkInv'
  BY <1>1, <1>2, <1>3 DEF IInv, SinkInv
<1>5. SourceInv'
  BY <1>1, <1>2 DEF IInv, SourceInv
<1> QED BY <1>4, <1>5 DEF IInv

\* The bytes of the windows, of the transformers and of what has got through
\* are parts of the two streams whatever the writer and the reader call.
THEOREM Invariance == Spec => []IInv
<1>1. Init => IInv
  BY InitIInv
<1>2. IInv /\ [Next]_vars => IInv'
  BY WriteStep, ReadStep, StutterStep DEF Next
<1> QED BY <1>1, <1>2, PTL DEF Spec

\* What is committed to the sink is at one place and in order: in the pipe,
\* with the transformer, still to be read, or lost (transform_io.hpp:52-59).
THEOREM KeepsEachByteOnce == Spec => []EachByteOnce
<1>1. IInv => EachByteOnce
  BY InvKeepsInOrder DEF IInv
<1> QED BY <1>1, Invariance, PTL

\* What the reader has not consumed of the bytes that left the pipe is at the
\* front of the window or with the transformer, in order, whatever the buffer
\* does with its storage (transform_io.hpp:96-131).
THEOREM LosesNothing == Spec => []NothingLost
<1>1. IInv => NothingLost
  BY InvLosesNothing DEF IInv
<1> QED BY <1>1, Invariance, PTL

\* Where a shifting container has a quantum of headroom over the largest
\* window, sink and source trip no assertion of their buffers.
THEOREM NeverAsserts == ASSUME Headroom PROVE Spec => []NoAssertionFires
<1>1. IInv => NoAssertionFires
  BY DEF IInv, SinkInv, SourceInv, BufferInv, NoAssertionFires
<1> QED BY <1>1, Invariance, PTL

\* commit() loses bytes only to a transformer that is done or a pipe that is
\* full (transform_io.hpp:57).
THEOREM LosesOnlyStuck == Spec => LosesOnlyWhenStuck
<1> DEFINE A == lost' # lost => room' = 0 \/ (sink_tr'.read = EndAt /\ sink_tr'.held = << >>)
           v == <<sink_buf, prepared, databuf, fed, sink_tr, room, out, made, lost>>
<1>1. IInv /\ [Next]_vars => [A]_v
  <2> SUFFICES ASSUME IInv, [Next]_vars, lost' # lost PROVE A
    OBVIOUS
  <2>1. Write
    BY DEF Next, Read, vars, sink_vars
  <2>2. SinkInv /\ Sink!Step
    BY <2>1 DEF IInv, Write
  <2> QED BY <2>2, SinkLosesLate
<1>2. LosesOnlyWhenStuck <=> [][A]_v
  BY DEF LosesOnlyWhenStuck, Sink!LosesOnlyWhenStuck, Sink!vars
<1> HIDE DEF A, v
<1> QED BY <1>1, <1>2, Invariance, PTL DEF Spec

\* next() gives less than was asked for only if the transformer is done, the
\* pipe has no more, or the buffer is as large as it gets
\* (transform_io.hpp:105-119).
THEOREM ShortOnlyStuck == Spec => ShortOnlyWhenStuck
<1> DEFINE A == want # -1 /\ want' = -1 =>
                  \/ given' = want
                  \/ source_tr'.read = EndAt /\ source_tr'.held = << >>
                  \/ taken' = Len(out)
                  \/ avail' = source_buf'.size
           v == <<source_buf, avail, given, want, to_read, written, source_tr, got, taken,
                  Len(out)>>
<1>1. IInv /\ [Next]_vars => [A]_v
  <2> SUFFICES ASSUME IInv, [Next]_vars, want # -1, want' = -1 PROVE A
    OBVIOUS
  <2>1. Read
    BY DEF Next, Write, vars, source_vars
  <2>2. SinkInv /\ SourceInv /\ Source!Step /\ UNCHANGED out
    BY <2>1 DEF IInv, Read
  <2> QED BY <2>2, SourceShort
<1>2. ShortOnlyWhenStuck <=> [][A]_v
  BY DEF ShortOnlyWhenStuck, Source!ShortOnlyWhenStuck, Source!vars, Source!None
<1> HIDE DEF A, v
<1> QED BY <1>1, <1>2, Invariance, PTL DEF Spec
=============================================================================
