------------------------- MODULE MCBuffersConsumer -------------------------
(* The instance of BuffersConsumer that TLC checks. *)
EXTENDS BuffersConsumer, BufferRanges

\* Ranges with bytes from a on
Container(kind, a, sizes) ==
  RangeOf(kind, [i \in DOMAIN sizes |-> Buffer(a + Before(sizes, i - 1), sizes[i])])
ByRef(r) == [r EXCEPT !.lvalue = TRUE]
CatOf(a, b) == RangeOf("cat", <<a, b>>)

\* Single buffers, arrays, vectors, and concatenations made earlier: taken over,
\* held by reference, nested, and one that could have been an array
Shapes(a) ==
  {Container("buffer", a, <<2>>), Container("buffer", a, <<0>>),
   Container("array", a, <<0, 1>>),
   Container("vector", a, << >>), Container("vector", a, <<1, 0, 1>>),
   Container("vector", a, <<0>>),
   Container("bytes", a, <<2>>)}
Cats(a) ==
  {CatOf(Container("vector", a, <<1, 0>>), Container("array", a + 1, <<1>>)),
   ByRef(CatOf(Container("array", a, <<0, 1>>), Container("bytes", a + 1, <<1>>))),
   ByRef(CatOf(Container("vector", a, << >>), Container("vector", a, <<0>>))),
   CatOf(Container("buffer", a, <<1>>), Container("array", a + 1, <<1>>)),
   CatOf(CatOf(Container("vector", a, <<0>>), Container("buffer", a, <<1>>)),
         Container("vector", a + 1, <<1>>))}
Ranges(a) == Shapes(a) \cup Cats(a)

UpToThree ==
  {<< >>} \cup {<<x>> : x \in Ranges(1)}
    \cup (Ranges(1) \X Ranges(5)) \cup (Ranges(1) \X Ranges(5) \X Ranges(9))
=============================================================================
