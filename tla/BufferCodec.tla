----------------------------- MODULE BufferCodec -----------------------------
(***************************************************************************)
(* The loops of buffer_encode and buffer_decode.  Encoders and decoders    *)
(* are the user's; these treat items of a fixed size, as those of the      *)
(* tests do, keep the offset into the item at hand from call to call, and  *)
(* a decoder may reject an item with an error when it has all of it.  The  *)
(* items are 1, 2, 3, ..., the bytes of the first are the bytes 1 to       *)
(* ItemSize, and so on.                                                    *)
(***************************************************************************)
EXTENDS BufferAlgorithm

CONSTANTS ItemSize,  \* the bytes of an encoded item
          PartSize,  \* what the loops ask next() and prepare() for (1024)
          MaxItems   \* bound: items to encode, and room for decoded ones

ASSUME ItemAssumption == ItemSize \in Nat \ {0} /\ MaxItems \in Nat
ASSUME PartAssumption == PartSize \in Nat \ {0}

\* buffer_encode of a range of n items: it is the item at hand, within says
\* that the loop of a single item runs, off is the encoder's
EncodeInit ==
  \E dest \in Sequences, n \in 0..MaxItems :
    /\ InitBetween(<< >>, dest, buffer_size(dest))
    /\ call = [name |-> "encode", n |-> n, it |-> 1, within |-> FALSE,
               off |-> 0, total_written |-> 0]

\* The encoder takes what the part has room for
EncodedSize == Smaller(NextSize(out, PartSize), ItemSize - call.off)

EncodeItem ==
  /\ Calls("encode") /\ ~call.within
  /\ call.it <= call.n /\ NextSize(out, PartSize) # 0
  /\ call' = [call EXCEPT !.within = TRUE]
  /\ UNCHANGED <<in, out, dst, returned>>

\* A round of the loop of a single item
EncodePart ==
  /\ Calls("encode") /\ call.within /\ EncodedSize # 0
  /\ dst' = Stored(Position(out),
                   BytesFrom((call.it - 1) * ItemSize + call.off, EncodedSize))
  /\ out' = consume(out, EncodedSize)
  /\ LET done == call.off + EncodedSize = ItemSize IN
     call' = [call EXCEPT !.off = IF done THEN 0 ELSE @ + EncodedSize,
                          !.total_written = @ + EncodedSize,
                          !.within = ~done, !.it = IF done THEN @ + 1 ELSE @]
  /\ UNCHANGED <<in, returned>>

\* No room for the rest of an item: the loop of the items steps over it
EncodeBreaks ==
  /\ Calls("encode") /\ call.within /\ EncodedSize = 0
  /\ call' = [call EXCEPT !.within = FALSE, !.it = @ + 1]
  /\ UNCHANGED <<in, out, dst, returned>>

EncodeReturns ==
  /\ Calls("encode") /\ ~call.within
  /\ call.it > call.n \/ NextSize(out, PartSize) = 0
  /\ returned' = TRUE
  /\ UNCHANGED <<in, out, dst, call>>

\* buffer_decode of a single item, or into a range of n items: slot is the
\* iterator of the range, off the decoder's, item the items decoded so far
DecodeInit ==
  \E src \in Sequences, single \in BOOLEAN, n \in 0..MaxItems :
    /\ single => n = 1
    /\ InitBetween(src, << >>, n)
    /\ call = [name |-> "decode", single |-> single, n |-> n, slot |-> 0,
               off |-> 0, item |-> 0, has_error |-> FALSE, total_read |-> 0]

\* The decoder takes what the part has of the item
DecodedSize == Smaller(NextSize(in, PartSize), ItemSize - call.off)

\* Mutant of Decoded: the whole part is consumed
DecodedPart == consume(in, NextSize(in, PartSize))

\* The input is consumed as far as the decoder read
Decoded == consume(in, DecodedSize)

\* A round of the loop.  Into a range, every round moves the iterator on,
\* whether it has decoded an item or not.
DecodeRound ==
  /\ Calls("decode") /\ call.slot < call.n /\ DecodedSize # 0
  /\ \E has_error \in BOOLEAN :
       LET whole == call.off + DecodedSize = ItemSize
           has_value == whole /\ ~has_error
       IN /\ has_error => whole
          /\ in' = Decoded
          /\ call' = [call EXCEPT !.off = IF whole THEN 0 ELSE @ + DecodedSize,
                                  !.item = IF has_value THEN @ + 1 ELSE @,
                                  !.has_error = has_error,
                                  !.total_read = @ + DecodedSize,
                                  !.slot = IF call.single \/ has_error THEN @ ELSE @ + 1]
          /\ dst' = IF has_value THEN Stored(call.slot, <<call'.item>>) ELSE dst
          /\ returned' = (has_error \/ (call.single /\ has_value))
  /\ UNCHANGED out

DecodeReturns ==
  /\ Calls("decode")
  /\ call.slot = call.n \/ NextSize(in, PartSize) = 0
  /\ returned' = TRUE
  /\ UNCHANGED <<in, out, dst, call>>
=============================================================================
