---------------------- MODULE BitmapBackshiftOrderBook ----------------------
(* The L3 book v5 (bitmap_backshift_order_book.cpp): the ladders and       *)
(* bitmaps of v4 over a FixedOrderIndex, taken here as the bounded map it  *)
(* implements (OrderIndexMap); orders are not packed.                      *)
EXTENDS BitmapLadder

New_v5(maximum_live) == [orders |-> << >>, maximum |-> maximum_live,
                         ladder |-> [side \in Sides |-> [i \in Offsets |-> 0]],
                         occupied |-> [side \in Sides |-> [word \in Words |-> {}]],
                         live |-> 0]

(* FixedOrderIndex::insert returns false for a live id and at the limit.   *)
Inserts(b, id) == id \notin DOMAIN b.orders /\ Cardinality(DOMAIN b.orders) < b.maximum

(* The code of these three is that of v4.                                   *)
best_v5(b, side) == best_v4(b, side)

add_level_v5(b, o) == add_level_v4(b, o)

subtract_level_v5(b, o) == subtract_level_v4(b, o)

-----------------------------------------------------------------------------
(* The index takes the order before its level takes the quantity.          *)
add_v5(b, id, o) ==
    IF id = 0 \/ o.quantity = 0 \/ ~Inserts(b, id) THEN Throw(b)
    ELSE Then(add_level_v5([b EXCEPT !.orders = Put(@, id, o)], o),
              LAMBDA c : Return([c EXCEPT !.live = @ + 1]))

Erase(b, id) == [b EXCEPT !.orders = Drop(@, id), !.live = @ - 1]

remove_v5(b, id) ==
    IF id \notin DOMAIN b.orders THEN Throw(b)
    ELSE Then(subtract_level_v5(b, b.orders[id]), LAMBDA c : Return(Erase(c, id)))

reduce_v5(b, id, quantity, full) ==
    IF id \notin DOMAIN b.orders THEN Throw(b)
    ELSE IF InvalidReduction(b.orders[id], quantity, full) THEN Throw(b)
    ELSE Then(subtract_level_v5(b, [b.orders[id] EXCEPT !.quantity = quantity]),
              LAMBDA c : Return(
                  IF quantity = b.orders[id].quantity THEN Erase(c, id)
                  ELSE [c EXCEPT !.orders[id].quantity = @ - quantity]))

upsert_v5(b, id, o) ==
    IF id = 0 \/ o.quantity = 0 THEN Throw(b)
    ELSE IF id \notin DOMAIN b.orders THEN add_v5(b, id, o)
    ELSE Then(subtract_level_v5(b, b.orders[id]),
              LAMBDA c : Then(add_level_v5(c, o),
                  LAMBDA d : Return([d EXCEPT !.orders[id] = o])))

apply_v5(b, e) == Dispatch(b, e, add_v5, reduce_v5, remove_v5, upsert_v5)

state_digest_v5(b) == [live |-> b.live,
                       levels |-> [side \in Sides |-> Levels(b.ladder[side])],
                       orders |-> {<<id, b.orders[id]>> : id \in DOMAIN b.orders}]
=============================================================================
