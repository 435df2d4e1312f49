-------------------------- MODULE ParityOrderBook --------------------------
(* The L3 book v2 (parity_order_book.cpp): an open-addressed order index   *)
(* with tombstones and a sorted array of levels for each side.             *)
EXTENDS TombstoneIndex

New_v2(maximum_live) == [slots |-> [i \in 0 .. table_capacity(maximum_live) - 1 |-> Empty],
                         levels |-> [side \in Sides |-> << >>],
                         live |-> 0]

-----------------------------------------------------------------------------
(* lower_bound in the sorted array.                                        *)
LowerBound(levels, price) == 1 + Cardinality({i \in DOMAIN levels : levels[i][1] < price})

(* insert and erase of std::vector.                                        *)
InsertLevel(levels, i, level) ==
    [j \in 1 .. Len(levels) + 1 |->
        IF j < i THEN levels[j] ELSE IF j = i THEN level ELSE levels[j - 1]]

EraseLevel(levels, i) ==
    [j \in 1 .. Len(levels) - 1 |-> IF j < i THEN levels[j] ELSE levels[j + 1]]

HasLevel(levels, price) ==
    LET i == LowerBound(levels, price) IN i <= Len(levels) /\ levels[i][1] = price

add_to_level_v2(b, o) ==
    LET levels == b.levels[o.side]
        i == LowerBound(levels, o.price)
    IN  IF ~HasLevel(levels, o.price)
        THEN Return([b EXCEPT !.levels[o.side] = InsertLevel(@, i, <<o.price, o.quantity>>)])
        ELSE IF MaxQuantity - levels[i][2] < o.quantity THEN Throw(b)
        ELSE Return([b EXCEPT !.levels[o.side][i][2] = @ + o.quantity])

subtract_from_level_v2(b, o) ==
    LET levels == b.levels[o.side]
        i == LowerBound(levels, o.price)
        level == levels[i][2]
    IN  IF ~HasLevel(levels, o.price) \/ o.quantity = 0 \/ o.quantity > level THEN Throw(b)
        ELSE Return([b EXCEPT !.levels[o.side] =
                        IF level = o.quantity THEN EraseLevel(levels, i)
                        ELSE [levels EXCEPT ![i][2] = level - o.quantity]])

add_order_v2(b, id, o) ==
    IF id = 0 \/ o.quantity = 0 THEN Throw(b)
    ELSE WithSlot(insertion_slot(b.slots, id), b, LAMBDA i :
            Then(add_to_level_v2(b, o),
                 LAMBDA c : Return([c EXCEPT !.slots[i] = Occupied(id, o), !.live = @ + 1])))

(* The slot of id; for none, WithSlot throws.                              *)
require_slot_v2(b, id) == find_slot(b.slots, id)

remove_order_v2(b, id) ==
    WithSlot(require_slot_v2(b, id), b, LAMBDA i :
        Then(subtract_from_level_v2(b, b.slots[i].order), LAMBDA c : Return(Bury(c, i))))

subtract_from_order_v2(b, id, quantity, full) ==
    WithSlot(require_slot_v2(b, id), b, LAMBDA i :
        LET o == b.slots[i].order
        IN  IF InvalidReduction(o, quantity, full) THEN Throw(b)
            ELSE Then(subtract_from_level_v2(b, [o EXCEPT !.quantity = quantity]),
                      LAMBDA c : Return(
                          IF quantity = o.quantity THEN Bury(c, i)
                          ELSE [c EXCEPT !.slots[i].order.quantity = @ - quantity])))

upsert_order_v2(b, id, o) ==
    IF id = 0 \/ o.quantity = 0 THEN Throw(b)
    ELSE IF find_slot(b.slots, id) = {} THEN add_order_v2(b, id, o)
    ELSE WithSlot(require_slot_v2(b, id), b, LAMBDA i :
            Then(subtract_from_level_v2(b, b.slots[i].order),
                 LAMBDA c : Then(add_to_level_v2(c, o),
                     LAMBDA d : Return([d EXCEPT !.slots[i].order = o]))))

apply_v2(b, e) == Dispatch(b, e, add_order_v2, subtract_from_order_v2, remove_order_v2, upsert_order_v2)

best_v2(b, side) == LET levels == b.levels[side]
                    IN  IF levels = << >> THEN NoLevel
                        ELSE IF side = "Bid" THEN levels[Len(levels)] ELSE Head(levels)

state_digest_v2(b) == [live |-> b.live, levels |-> b.levels, orders |-> Orders(b.slots)]
=============================================================================
