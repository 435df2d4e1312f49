--------------------------- MODULE BitmapLadder ----------------------------
(* The part that the L3 books v4, v5 and v6 share, as v4 has it            *)
(* (bitmap_ladder_order_book.cpp): packed orders, and for each side a      *)
(* ladder with one quantity for every price and a bitmap of the occupied   *)
(* prices.  b is a book; the operators touch its ladder and occupied only. *)
EXTENDS PriceLadder

Words == 0 .. PriceCount \div WordBits - 1
Bits == 0 .. WordBits - 1

(* A packed order keeps its side and the offset of its price in one word.  *)
make(o) == [side_and_offset |-> (o.price - MinimumPrice) + (IF o.side = "Ask" THEN AskBit ELSE 0),
            quantity |-> o.quantity]

side_of(packed) == IF packed.side_and_offset >= AskBit THEN "Ask" ELSE "Bid"

offset_of(packed) == packed.side_and_offset % AskBit

Unpack(packed) == [side |-> side_of(packed), price |-> MinimumPrice + offset_of(packed),
                   quantity |-> packed.quantity]

-----------------------------------------------------------------------------
(* Mutants: the sum may overflow; the bit of an emptied price stays set;   *)
(* the lowest ask of a word is taken from the wrong end.                   *)
add_level_v4_Unchecked(b, o) ==
    IF ~InLadder(o.price) THEN Throw(b)
    ELSE LET i == offset(o.price)
         IN  Return([b EXCEPT !.ladder[o.side][i] = @ + o.quantity,
                              !.occupied[o.side][i \div WordBits] = @ \cup {i % WordBits}])

subtract_level_v4_KeepsBit(b, o) ==
    IF ~InLadder(o.price) THEN Throw(b)
    ELSE LET i == offset(o.price)
             level == b.ladder[o.side][i]
         IN  IF o.quantity = 0 \/ o.quantity > level THEN Throw(b)
             ELSE Return([b EXCEPT !.ladder[o.side][i] = level - o.quantity])

best_v4_HighBit(b, side) ==
    LET map == b.occupied[side]
        words == {word \in Words : map[word] # {}}
        first == IF side = "Bid" THEN Max(words) ELSE Min(words)
        index == first * WordBits + Max(map[first])
    IN  IF words = {} THEN NoLevel ELSE <<MinimumPrice + index, b.ladder[side][index]>>

(* The bit of a price is set when its quantity leaves zero ...             *)
add_level_v4(b, o) ==
    IF ~InLadder(o.price) THEN Throw(b)
    ELSE LET i == offset(o.price)
             level == b.ladder[o.side][i]
         IN  IF MaxQuantity - level < o.quantity THEN Throw(b)
             ELSE Return([b EXCEPT !.ladder[o.side][i] = level + o.quantity,
                                   !.occupied[o.side][i \div WordBits] =
                                        IF level = 0 THEN @ \cup {i % WordBits} ELSE @])

(* ... and cleared when it returns to it.                                  *)
subtract_level_v4(b, o) ==
    IF ~InLadder(o.price) THEN Throw(b)
    ELSE LET i == offset(o.price)
             level == b.ladder[o.side][i]
         IN  IF o.quantity = 0 \/ o.quantity > level THEN Throw(b)
             ELSE Return([b EXCEPT !.ladder[o.side][i] = level - o.quantity,
                                   !.occupied[o.side][i \div WordBits] =
                                        IF level = o.quantity THEN @ \ {i % WordBits} ELSE @])

best_v4(b, side) ==
    LET map == b.occupied[side]
        words == {word \in Words : map[word] # {}}
        index == IF side = "Bid" THEN Max(words) * WordBits + Max(map[Max(words)])
                 ELSE Min(words) * WordBits + Min(map[Min(words)])
    IN  IF words = {} THEN NoLevel ELSE <<MinimumPrice + index, b.ladder[side][index]>>
=============================================================================
