---------------------------- MODULE PriceLadder ----------------------------
(* The ladders of the L3 books v3 to v6: an array with a quantity for each *)
(* price of a fixed range, as v3 has it (dense_ladder_order_book.cpp).     *)
EXTENDS L3Events, FiniteSetsExt

Offsets == 0 .. PriceCount - 1

(* offset throws for a price that is not in the ladder.                    *)
InLadder(price) == price >= MinimumPrice /\ price - MinimumPrice < PriceCount

offset(price) == price - MinimumPrice

(* The digest walks the ladder upwards and skips empty prices.             *)
Levels(ladder) ==
    Ascending([price \in {MinimumPrice + i : i \in {j \in Offsets : ladder[j] # 0}} |->
                  ladder[offset(price)]])
=============================================================================
