---------------------------- MODULE BybitL2Book ----------------------------
(***************************************************************************)
(* The bounded price-level book of the Bybit pipeline                      *)
(* (bybit_l2_order_book.hpp): two price-sorted vectors, replaced by a      *)
(* snapshot, changed by a delta whose update id is the next one, emptied   *)
(* by anything else.  ladder is what the venue's messages say the levels   *)
(* are: a set of <<side, price, quantity>>, or None without a valid book.  *)
(***************************************************************************)
EXTENDS Naturals, Sequences, FiniteSets, SequencesExt

CONSTANTS Prices, Quantities,  \* Quantities includes 0
          MaxLevels,           \* maximum_levels_
          MaxUpdateId,         \* the largest 64-bit number
          SnapshotVectors,     \* the vectors snapshots are made of
          Deltas,              \* the lists of changes of deltas
          None

Sides == {"Bid", "Ask"}
Changes == [side : Sides, price : Prices, quantity : Quantities]

ASSUME BookAssumption == /\ Prices \subseteq Nat /\ Quantities \subseteq Nat
                         /\ MaxLevels \in Nat /\ MaxUpdateId \in Nat \ {0}
                         /\ \A changes \in Deltas : \A i \in DOMAIN changes : changes[i] \in Changes

VARIABLES book, ladder

bookVars == <<book, ladder>>

Levels == Seq([price : Prices, quantity : Quantities])

Invalid == [levels |-> [side \in Sides |-> << >>], update_id |-> 0, valid |-> FALSE]

(* Strictly better priced: the order of each vector.                       *)
Before(side, p, q) == IF side = "Bid" THEN p > q ELSE p < q

valid_levels(side, levels) ==
    /\ \A i \in DOMAIN levels : levels[i].quantity # 0
    /\ \A i \in 1 .. Len(levels) - 1 : Before(side, levels[i].price, levels[i + 1].price)

PriceIn(levels, price) == \E i \in DOMAIN levels : levels[i].price = price

-----------------------------------------------------------------------------
(* delta_fits: no price changed twice, and room for the levels that stay.  *)
delta_fits(levels, changes) ==
    /\ \A i, j \in DOMAIN changes :
          i < j => changes[i].side # changes[j].side \/ changes[i].price # changes[j].price
    /\ \A side \in Sides :
          LET Of(P(_)) == Cardinality({i \in DOMAIN changes : changes[i].side = side /\ P(changes[i])})
          IN  Len(levels[side]) + Of(LAMBDA c : c.quantity # 0 /\ ~PriceIn(levels[side], c.price))
                <= MaxLevels + Of(LAMBDA c : c.quantity = 0 /\ PriceIn(levels[side], c.price))

(* Mutant: a new level goes behind the others.                             *)
apply_change_Appends(levels, c) ==
    LET at == 1 + Cardinality({i \in DOMAIN levels : Before(c.side, levels[i].price, c.price)})
        level == [price |-> c.price, quantity |-> c.quantity]
    IN  IF at <= Len(levels) /\ levels[at].price = c.price
        THEN IF c.quantity = 0 THEN RemoveAt(levels, at) ELSE ReplaceAt(levels, at, level)
        ELSE IF c.quantity = 0 THEN levels ELSE Append(levels, level)

(* apply_change on one vector.  The position is that of lower_bound.       *)
apply_change(levels, c) ==
    LET at == 1 + Cardinality({i \in DOMAIN levels : Before(c.side, levels[i].price, c.price)})
        level == [price |-> c.price, quantity |-> c.quantity]
    IN  IF at <= Len(levels) /\ levels[at].price = c.price
        THEN IF c.quantity = 0 THEN RemoveAt(levels, at) ELSE ReplaceAt(levels, at, level)
        ELSE IF c.quantity = 0 THEN levels ELSE InsertAt(levels, at, level)

(* It fails when a new level does not fit.                                 *)
Overflows(levels, c) ==
    c.quantity # 0 /\ ~PriceIn(levels, c.price) /\ Len(levels) = MaxLevels

(* One change after the other, None once one has failed.                   *)
ApplyAll(levels, changes) ==
    FoldLeft(LAMBDA acc, c :
                IF acc = None \/ Overflows(acc[c.side], c) THEN None
                ELSE [acc EXCEPT ![c.side] = apply_change(@, c)],
             levels, changes)

(* Mutant: the changes are applied as they are listed.                     *)
RemovalsFirst_AsListed(changes) == changes

(* All the removals, then the rest.                                        *)
RemovalsFirst(changes) ==
    SelectSeq(changes, LAMBDA c : c.quantity = 0) \o SelectSeq(changes, LAMBDA c : c.quantity # 0)

(* The successor of the last id is taken modulo 2^64; the largest id has   *)
(* none.                                                                   *)
Delta(update_id, changes) ==
    LET levels == ApplyAll(book.levels, RemovalsFirst(changes))
    IN  IF \/ ~book.valid
           \/ book.update_id = MaxUpdateId
           \/ update_id # (book.update_id + 1) % (MaxUpdateId + 1)
           \/ ~delta_fits(book.levels, changes)
           \/ levels = None
        THEN Invalid
        ELSE [levels |-> levels, update_id |-> update_id, valid |-> TRUE]

Snapshot(update_id, levels) ==
    IF \/ update_id = 0
       \/ \E side \in Sides : Len(levels[side]) > MaxLevels \/ ~valid_levels(side, levels[side])
    THEN Invalid
    ELSE [levels |-> levels, update_id |-> update_id, valid |-> TRUE]

-----------------------------------------------------------------------------
(* What the messages mean.  A snapshot states the levels; a delta states   *)
(* new quantities for some of them, all at once, whatever the order they   *)
(* are listed in; either must leave at most MaxLevels to a side.           *)
Fits(levels) == \A side \in Sides : Cardinality({l \in levels : l[1] = side}) <= MaxLevels

Stated(levels) ==
    UNION {{<<side, levels[side][i].price, levels[side][i].quantity>> : i \in DOMAIN levels[side]} :
              side \in Sides}

Overridden(changes) ==
    {l \in ladder : \A i \in DOMAIN changes : <<changes[i].side, changes[i].price>> # <<l[1], l[2]>>}
      \cup {<<changes[i].side, changes[i].price, changes[i].quantity>> :
              i \in {j \in DOMAIN changes : changes[j].quantity # 0}}

Distinct(changes) ==
    Cardinality({<<changes[i].side, changes[i].price>> : i \in DOMAIN changes}) = Len(changes)

-----------------------------------------------------------------------------
Init == book = Invalid /\ ladder = None

(* What a snapshot and a delta make of the ladder.                         *)
SnapshotLadder(update_id, levels) ==
    IF /\ update_id # 0 /\ Fits(Stated(levels))
       /\ \A side \in Sides : valid_levels(side, levels[side])
    THEN Stated(levels) ELSE None

DeltaLadder(update_id, changes) ==
    IF /\ ladder # None /\ update_id = book.update_id + 1
       /\ Distinct(changes) /\ Fits(Overridden(changes))
    THEN Overridden(changes) ELSE None

apply_snapshot(update_id, levels) ==
    /\ book' = Snapshot(update_id, levels)
    /\ ladder' = SnapshotLadder(update_id, levels)

apply_delta(update_id, changes) ==
    /\ book' = Delta(update_id, changes)
    /\ ladder' = DeltaLadder(update_id, changes)

Next == \/ \E update_id \in 0 .. MaxUpdateId, bids, asks \in SnapshotVectors :
              apply_snapshot(update_id, [side \in Sides |-> IF side = "Bid" THEN bids ELSE asks])
        \/ \E update_id \in 0 .. MaxUpdateId, changes \in Deltas :
              apply_delta(update_id, changes)

Spec == Init /\ [][Next]_bookVars

-----------------------------------------------------------------------------
best(side) == IF ~book.valid \/ book.levels[side] = << >> THEN None ELSE Head(book.levels[side])

(* Types of the book and of the ladder.                                    *)
TypeOK == /\ book.levels \in [Sides -> Levels]
          /\ book.update_id \in 0 .. MaxUpdateId
          /\ book.valid \in BOOLEAN
          /\ ladder = None \/ ladder \subseteq Sides \X Prices \X Quantities

(* After every message the vectors are the levels the venue stated, and    *)
(* the book is valid exactly when the messages so far determine one: the   *)
(* order of the changes in a delta never matters, a delta is applied as a  *)
(* whole or not at all, no full vector turns a valid delta away, and id 0  *)
(* does not follow the largest one.                                        *)
BookIsLadder ==
    /\ book.valid = (ladder # None)
    /\ book.valid => Stated(book.levels) = ladder
    /\ ~book.valid => book = Invalid

(* Every vector stays sorted, without empty or repeated levels and within  *)
(* its capacity, and best_bid and best_ask are the best prices.            *)
LevelsSorted ==
    \A side \in Sides :
        /\ valid_levels(side, book.levels[side]) /\ Len(book.levels[side]) <= MaxLevels
        /\ best(side) # None => \A l \in ladder : l[1] = side => ~Before(side, l[2], best(side).price)
=============================================================================
