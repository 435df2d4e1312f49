----------------------- MODULE BitmapPackedOrderBook -----------------------
(* The L3 book v6 (bitmap_packed_order_book.cpp): v5 with the packed       *)
(* orders of v4 in its index.                                              *)
EXTENDS BitmapBackshiftOrderBook

New_v6(maximum_live) == New_v5(maximum_live)

(* The packing and the code of these three are those of v4.                *)
best_v6(b, side) == best_v4(b, side)

add_level_v6(b, o) == add_level_v4(b, o)

subtract_level_v6(b, o) == subtract_level_v4(b, o)

-----------------------------------------------------------------------------
(* Packing needs the offset, so the price is checked before the insertion. *)
add_v6(b, id, o) ==
    IF id = 0 \/ o.quantity = 0 \/ ~InLadder(o.price) \/ ~Inserts(b, id) THEN Throw(b)
    ELSE Then(add_level_v6([b EXCEPT !.orders = Put(@, id, make(o))], o),
              LAMBDA c : Return([c EXCEPT !.live = @ + 1]))

remove_v6(b, id) ==
    IF id \notin DOMAIN b.orders THEN Throw(b)
    ELSE Then(subtract_level_v6(b, Unpack(b.orders[id])), LAMBDA c : Return(Erase(c, id)))

reduce_v6(b, id, quantity, full) ==
    IF id \notin DOMAIN b.orders THEN Throw(b)
    ELSE IF InvalidReduction(b.orders[id], quantity, full) THEN Throw(b)
    ELSE Then(subtract_level_v6(b, [Unpack(b.orders[id]) EXCEPT !.quantity = quantity]),
              LAMBDA c : Return(
                  IF quantity = b.orders[id].quantity THEN Erase(c, id)
                  ELSE [c EXCEPT !.orders[id].quantity = @ - quantity]))

(* The offset of the new price is computed last.                           *)
upsert_v6(b, id, o) ==
    IF id = 0 \/ o.quantity = 0 THEN Throw(b)
    ELSE IF id \notin DOMAIN b.orders THEN add_v6(b, id, o)
    ELSE Then(subtract_level_v6(b, Unpack(b.orders[id])),
              LAMBDA c : Then(add_level_v6(c, o),
                  LAMBDA d : Return([d EXCEPT !.orders[id] = make(o)])))

apply_v6(b, e) == Dispatch(b, e, add_v6, reduce_v6, remove_v6, upsert_v6)

state_digest_v6(b) == [live |-> b.live,
                       levels |-> [side \in Sides |-> Levels(b.ladder[side])],
                       orders |-> {<<id, Unpack(b.orders[id])>> : id \in DOMAIN b.orders}]
=============================================================================
