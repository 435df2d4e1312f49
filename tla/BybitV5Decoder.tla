--------------------------- MODULE BybitV5Decoder ---------------------------
(***************************************************************************)
(* The adapter from Bybit frames to messages (bybit_v5_l2_decoder.hpp).    *)
(* A frame is what the JSON parser makes of it: type, update id, and the   *)
(* rows of the two sides, each a sequence of decimal texts.  A text is the *)
(* symbols before and after its point; NonDigit stands for any symbol that *)
(* is not a digit.  decode returns None where the code throws.             *)
(***************************************************************************)
EXTENDS Naturals, Sequences, SequencesExt

CONSTANTS MaxWord,         \* the largest 64-bit number
          FractionDigits,  \* 8
          NonDigit, None

Scale == 10 ^ FractionDigits

(* The digits before the point.  The test comes before the multiplication, *)
(* and neither it nor anything later bounds the digit that is added.       *)
WholePart(symbols) ==
    FoldLeft(LAMBDA whole, symbol :
                IF whole = None \/ symbol = NonDigit THEN None
                ELSE IF whole > MaxWord \div 10 THEN None
                ELSE (whole * 10 + symbol) % (MaxWord + 1),
             0, symbols)

(* The digits after it, filled up with zeros.                              *)
FractionalPart(symbols) ==
    IF Len(symbols) > FractionDigits \/ Contains(symbols, NonDigit) THEN None
    ELSE FoldLeft(LAMBDA value, symbol : value * 10 + symbol, 0, symbols)
           * 10 ^ (FractionDigits - Len(symbols))

(* Mutant: the fraction is forgotten in the last test.                     *)
parse_fixed_1e8_IgnoresFraction(text) ==
    LET whole == WholePart(text.whole)
        fractional == FractionalPart(text.fraction)
    IN  IF text.whole = << >> \/ whole = None \/ fractional = None THEN None
        ELSE IF whole > MaxWord \div Scale THEN None
        ELSE (whole * Scale + fractional) % (MaxWord + 1)

parse_fixed_1e8(text) ==
    LET whole == WholePart(text.whole)
        fractional == FractionalPart(text.fraction)
    IN  IF text.whole = << >> \/ whole = None \/ fractional = None THEN None
        ELSE IF whole > (MaxWord - fractional) \div Scale THEN None
        ELSE whole * Scale + fractional

(* One side of a frame: every row is a price and a size, and a snapshot    *)
(* has no empty level.                                                     *)
decode_levels(side, rows, snapshot) ==
    LET Row(i) == [side |-> side, price |-> parse_fixed_1e8(rows[i][1]),
                   quantity |-> parse_fixed_1e8(rows[i][2])]
    IN  IF \E i \in DOMAIN rows :
              \/ Len(rows[i]) # 2
              \/ Row(i).price = None \/ Row(i).quantity = None
              \/ Row(i).price = 0
              \/ snapshot /\ Row(i).quantity = 0
        THEN None
        ELSE [i \in DOMAIN rows |-> Row(i)]

Control == [kind |-> "control"]

(* The bids come first in a delta.                                         *)
decode(frame) ==
    LET snapshot == frame.type = "snapshot"
        bids == decode_levels("Bid", frame.b, snapshot)
        asks == decode_levels("Ask", frame.a, snapshot)
    IN  IF frame.type = "none" THEN Control
        ELSE IF \/ frame.type \notin {"snapshot", "delta"}
                \/ frame.u = 0
                \/ bids = None \/ asks = None
        THEN None
        ELSE [kind |-> frame.type, update_id |-> frame.u, bids |-> bids, asks |-> asks]

-----------------------------------------------------------------------------
(* What a text means, whatever the width of a word: its digits, each times *)
(* its power of ten, in units of 1 / Scale.  It is a number of the venue   *)
(* if it has digits before the point, digits only, and at most             *)
(* FractionDigits behind it.                                               *)
IsNumber(text) == /\ text.whole # << >> /\ Len(text.fraction) <= FractionDigits
                  /\ ~Contains(text.whole \o text.fraction, NonDigit)

Meaning(text) ==
    LET Weigh(symbols, power) ==
            FoldFunction(+, 0, [i \in DOMAIN symbols |-> symbols[i] * 10 ^ (power - i)])
    IN  Weigh(text.whole, FractionDigits + Len(text.whole)) + Weigh(text.fraction, FractionDigits)

(* A frame states levels if it is a book message with an update id, every  *)
(* row holds a price above 0 and a size that fit a word, and no level of a *)
(* snapshot is empty.                                                      *)
States(frame) ==
    /\ frame.type \in {"snapshot", "delta"} /\ frame.u # 0
    /\ \A row \in ToSet(frame.b \o frame.a) :
          /\ Len(row) = 2 /\ IsNumber(row[1]) /\ IsNumber(row[2])
          /\ Meaning(row[1]) \in 1 .. MaxWord
          /\ Meaning(row[2]) \in (IF frame.type = "snapshot" THEN 1 ELSE 0) .. MaxWord
=============================================================================
