------------------------ MODULE DenseLadderOrderBook ------------------------
(* The L3 book v3 (dense_ladder_order_book.cpp): the order index of v2, an *)
(* array of quantities by price for each side, and cached best prices.     *)
EXTENDS TombstoneIndex, PriceLadder

(* The best price of an empty side.                                        *)
NoPrice == -1

New_v3(maximum_live) == [slots |-> [i \in 0 .. table_capacity(maximum_live) - 1 |-> Empty],
                         ladder |-> [side \in Sides |-> [i \in Offsets |-> 0]],
                         best |-> [side \in Sides |-> NoPrice],
                         live |-> 0]

(* The probes are those of v2.                                             *)
find_v3(slots, id) == find_slot(slots, id)

insert_slot_v3(slots, id) == insertion_slot(slots, id)

(* The slot of id; for none, WithSlot throws.                              *)
require_v3(b, id) == find_v3(b.slots, id)

-----------------------------------------------------------------------------
Better(side, price, other) == IF side = "Bid" THEN price > other ELSE price < other

add_level_v3(b, o) ==
    IF ~InLadder(o.price) THEN Throw(b)
    ELSE IF MaxQuantity - b.ladder[o.side][offset(o.price)] < o.quantity THEN Throw(b)
    ELSE Return([b EXCEPT !.ladder[o.side][offset(o.price)] = @ + o.quantity,
                          !.best[o.side] = IF @ = NoPrice \/ Better(o.side, o.price, @)
                                           THEN o.price ELSE @])

refresh_best(b, side) ==
    LET left == {i \in Offsets : b.ladder[side][i] # 0}
    IN  [b EXCEPT !.best[side] =
            IF left = {} THEN NoPrice
            ELSE MinimumPrice + (IF side = "Bid" THEN Max(left) ELSE Min(left))]

(* Mutant: the cached best price outlives its level.                       *)
subtract_level_v3_NoRefresh(b, o) ==
    IF ~InLadder(o.price) THEN Throw(b)
    ELSE LET level == b.ladder[o.side][offset(o.price)]
         IN  IF o.quantity = 0 \/ o.quantity > level THEN Throw(b)
             ELSE Return([b EXCEPT !.ladder[o.side][offset(o.price)] = level - o.quantity])

subtract_level_v3(b, o) ==
    IF ~InLadder(o.price) THEN Throw(b)
    ELSE LET level == b.ladder[o.side][offset(o.price)]
             c == [b EXCEPT !.ladder[o.side][offset(o.price)] = level - o.quantity]
         IN  IF o.quantity = 0 \/ o.quantity > level THEN Throw(b)
             ELSE IF level = o.quantity /\ b.best[o.side] = o.price
             THEN Return(refresh_best(c, o.side))
             ELSE Return(c)

add_order_v3(b, id, o) ==
    IF id = 0 \/ o.quantity = 0 THEN Throw(b)
    ELSE WithSlot(insert_slot_v3(b.slots, id), b, LAMBDA i :
            Then(add_level_v3(b, o),
                 LAMBDA c : Return([c EXCEPT !.slots[i] = Occupied(id, o), !.live = @ + 1])))

remove_order_v3(b, id) ==
    WithSlot(require_v3(b, id), b, LAMBDA i :
        Then(subtract_level_v3(b, b.slots[i].order), LAMBDA c : Return(Bury(c, i))))

reduce_v3(b, id, quantity, full) ==
    WithSlot(require_v3(b, id), b, LAMBDA i :
        LET o == b.slots[i].order
        IN  IF InvalidReduction(o, quantity, full) THEN Throw(b)
            ELSE Then(subtract_level_v3(b, [o EXCEPT !.quantity = quantity]),
                      LAMBDA c : Return(
                          IF quantity = o.quantity THEN Bury(c, i)
                          ELSE [c EXCEPT !.slots[i].order.quantity = @ - quantity])))

upsert_v3(b, id, o) ==
    IF id = 0 \/ o.quantity = 0 THEN Throw(b)
    ELSE IF find_v3(b.slots, id) = {} THEN add_order_v3(b, id, o)
    ELSE WithSlot(require_v3(b, id), b, LAMBDA i :
            Then(subtract_level_v3(b, b.slots[i].order),
                 LAMBDA c : Then(add_level_v3(c, o),
                     LAMBDA d : Return([d EXCEPT !.slots[i].order = o]))))

apply_v3(b, e) == Dispatch(b, e, add_order_v3, reduce_v3, remove_order_v3, upsert_v3)

best_v3(b, side) == IF b.best[side] = NoPrice THEN NoLevel
                    ELSE <<b.best[side], b.ladder[side][offset(b.best[side])]>>

state_digest_v3(b) == [live |-> b.live,
                       levels |-> [side \in Sides |-> Levels(b.ladder[side])],
                       orders |-> Orders(b.slots)]
=============================================================================
