--------------------------- MODULE BybitL2Parity ---------------------------
(***************************************************************************)
(* The C++ book of sorted vectors beside one other implementation that is  *)
(* fed the same messages:                                                  *)
(*   rust   the vectors in Rust (bybit_l2_order_book.rs), which apply the  *)
(*          changes of a delta in one pass, in the order they are listed,  *)
(*          keep what they have when they refuse a snapshot, and keep      *)
(*          their levels when they turn invalid;                           *)
(*   dense  an array of quantities over a window of prices                 *)
(*          (bybit_l2_dense_ladder.hpp);                                   *)
(*   tree   an ordered map (bybit_l2_ordered_map.hpp).                     *)
(* The last two neither sort nor count levels, and a message that fails    *)
(* half-way leaves what it has written; their Rust versions are the same.  *)
(***************************************************************************)
EXTENDS BybitL2Book

CONSTANTS MinimumPrice, PriceCount  \* the window of the dense ladder

ASSUME WindowAssumption == MinimumPrice \in Nat /\ PriceCount \in Nat \ {0}

VARIABLE other  \* which implementation it is, its levels, update_id and valid

parityVars == <<bookVars, other>>

Window == MinimumPrice .. MinimumPrice + PriceCount - 1

(* The new book without levels.                                            *)
New(kind) == CASE kind = "rust"  -> << >>
               [] kind = "dense" -> [price \in Window |-> 0]
               [] kind = "tree"  -> << >>

Empty(kind) == [side \in Sides |-> New(kind)]

(* One change after the other until one fails.                             *)
ApplyUntil(Fails(_, _), Write(_, _), levels, changes) ==
    FoldLeft(LAMBDA acc, c :
                IF ~acc.ok \/ Fails(acc.levels[c.side], c) THEN [acc EXCEPT !.ok = FALSE]
                ELSE [acc EXCEPT !.levels[c.side] = Write(@, c)],
             [levels |-> levels, ok |-> TRUE], changes)

-----------------------------------------------------------------------------
(* The three ways to write a level.                                        *)
set(quantities, c) == [quantities EXCEPT ![c.price] = c.quantity]

OutOfWindow(quantities, c) == c.price \notin Window

change(map, c) ==
    LET prices == IF c.quantity = 0 THEN DOMAIN map \ {c.price} ELSE DOMAIN map \cup {c.price}
    IN  [price \in prices |-> IF price = c.price THEN c.quantity ELSE map[price]]

Changed(levels, changes) ==
    CASE other.kind = "rust"  -> ApplyUntil(Overflows, apply_change, levels, changes)
      [] other.kind = "dense" -> ApplyUntil(OutOfWindow, set, levels, changes)
      [] other.kind = "tree"  -> ApplyUntil(LAMBDA map, c : FALSE, change, levels, changes)

(* Mutant: a change that fails is skipped.                                 *)
OtherDelta_Skips(update_id, changes) ==
    IF ~other.valid \/ update_id # (other.update_id + 1) % (MaxUpdateId + 1)
    THEN [other EXCEPT !.valid = FALSE]
    ELSE [other EXCEPT !.levels = Changed(@, changes).levels, !.update_id = update_id]

(* apply_delta of all three.  The increment wraps around (in Rust in a     *)
(* release build).                                                         *)
OtherDelta(update_id, changes) ==
    IF ~other.valid \/ update_id # (other.update_id + 1) % (MaxUpdateId + 1)
    THEN [other EXCEPT !.valid = FALSE]
    ELSE LET applied == Changed(other.levels, changes)
         IN  IF applied.ok
             THEN [other EXCEPT !.levels = applied.levels, !.update_id = update_id]
             ELSE [other EXCEPT !.levels = applied.levels, !.valid = FALSE]

-----------------------------------------------------------------------------
RustSnapshot(update_id, levels) ==
    IF \/ update_id = 0
       \/ \E side \in Sides : Len(levels[side]) > MaxLevels \/ ~valid_levels(side, levels[side])
    THEN other
    ELSE [other EXCEPT !.levels = levels, !.update_id = update_id, !.valid = TRUE]

(* apply_all and load: bids, then asks, up to an empty level or one that   *)
(* cannot be written.                                                      *)
load(levels) ==
    LET Of(side) == [i \in DOMAIN levels[side] |->
                       [side |-> side, price |-> levels[side][i].price,
                        quantity |-> levels[side][i].quantity]]
        Fails(map, c) == c.quantity = 0 \/ (other.kind = "dense" /\ OutOfWindow(map, c))
        Write(map, c) == IF other.kind = "dense" THEN set(map, c) ELSE change(map, c)
    IN  ApplyUntil(Fails, Write, Empty(other.kind), Of("Bid") \o Of("Ask"))

ClearingSnapshot(update_id, levels) ==
    LET loaded == load(levels)
    IN  IF update_id = 0 THEN [other EXCEPT !.levels = Empty(other.kind), !.valid = FALSE]
        ELSE IF loaded.ok
        THEN [other EXCEPT !.levels = loaded.levels, !.update_id = update_id, !.valid = TRUE]
        ELSE [other EXCEPT !.levels = loaded.levels, !.valid = FALSE]

OtherSnapshot(update_id, levels) ==
    IF other.kind = "rust" THEN RustSnapshot(update_id, levels)
    ELSE ClearingSnapshot(update_id, levels)

(* best_bid and best_ask, which do not look at valid: the first of the     *)
(* sorted levels, or the best price with a quantity.                       *)
OtherBest(side) ==
    LET levels == other.levels[side]
        prices == {price \in DOMAIN levels : other.kind = "dense" => levels[price] # 0}
    IN  IF other.kind = "rust" THEN IF levels = << >> THEN None ELSE Head(levels)
        ELSE IF prices = {} THEN None
        ELSE LET top == CHOOSE p \in prices : \A q \in prices : ~Before(side, q, p)
             IN  [price |-> top, quantity |-> levels[top]]

-----------------------------------------------------------------------------
ParityInit == /\ Init
              /\ \E kind \in {"rust", "dense", "tree"} :
                    other = [kind |-> kind, levels |-> Empty(kind), update_id |-> 0, valid |-> FALSE]

ParityNext ==
    \/ \E update_id \in 0 .. MaxUpdateId, bids, asks \in SnapshotVectors :
          LET levels == [side \in Sides |-> IF side = "Bid" THEN bids ELSE asks]
          IN  apply_snapshot(update_id, levels) /\ other' = OtherSnapshot(update_id, levels)
    \/ \E update_id \in 0 .. MaxUpdateId, changes \in Deltas :
          apply_delta(update_id, changes) /\ other' = OtherDelta(update_id, changes)

ParitySpec == ParityInit /\ [][ParityNext]_parityVars

-----------------------------------------------------------------------------
(* While both books are valid they are at the same update id and answer    *)
(* the same best levels: whichever message one of them refused, it is not  *)
(* valid again before a snapshot both accept.  The ordered map refuses     *)
(* nothing that the vectors accept.                                        *)
AgreeWhileValid ==
    /\ book.valid /\ other.valid =>
         /\ other.update_id = book.update_id
         /\ \A side \in Sides : OtherBest(side) = best(side)
    /\ book.valid /\ other.kind = "tree" => other.valid

(* bybit_v5_l2_pipeline_v1.md:67-69, of a fixture that ends with a refused *)
(* update-id gap: "Both C++ and Rust must produce the same final BBO and   *)
(* level-state digest."  Books that agree on their validity have the same  *)
(* levels, which are what state_digest hashes, and the same best levels.   *)
SameAnswers ==
    other.kind = "rust" /\ book.valid = other.valid =>
        book.levels = other.levels /\ \A side \in Sides : best(side) = OtherBest(side)
=============================================================================
