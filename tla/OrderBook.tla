----------------------------- MODULE OrderBook -----------------------------
(* The L3 book v1 (order_book.cpp): a hash map of orders and an ordered    *)
(* map from price to quantity for each side.                               *)
EXTENDS L3Events, FiniteSetsExt

New_v1 == [orders |-> << >>, levels |-> [side \in Sides |-> << >>]]

(* operator[] first creates a missing level; only a level that was there   *)
(* can overflow, so no empty level stays behind.                           *)
add_to_level_v1(b, o) ==
    LET levels == b.levels[o.side]
        level == IF o.price \in DOMAIN levels THEN levels[o.price] ELSE 0
    IN  IF MaxQuantity - level < o.quantity THEN Throw(b)
        ELSE Return([b EXCEPT !.levels[o.side] = Put(@, o.price, level + o.quantity)])

(* Mutant: a level that was emptied stays in the map.                      *)
subtract_from_level_v1_KeepsEmpty(b, o) ==
    LET levels == b.levels[o.side]
    IN  IF o.price \notin DOMAIN levels \/ o.quantity = 0 \/ o.quantity > levels[o.price]
        THEN Throw(b)
        ELSE Return([b EXCEPT !.levels[o.side] = Put(@, o.price, levels[o.price] - o.quantity)])

subtract_from_level_v1(b, o) ==
    LET levels == b.levels[o.side]
    IN  IF o.price \notin DOMAIN levels \/ o.quantity = 0 \/ o.quantity > levels[o.price]
        THEN Throw(b)
        ELSE Return([b EXCEPT !.levels[o.side] =
                        IF levels[o.price] = o.quantity THEN Drop(@, o.price)
                        ELSE Put(@, o.price, levels[o.price] - o.quantity)])

add_order_v1(b, id, o) ==
    IF id = 0 \/ o.quantity = 0 \/ id \in DOMAIN b.orders THEN Throw(b)
    ELSE Then(add_to_level_v1(b, o), LAMBDA c : Return([c EXCEPT !.orders = Put(@, id, o)]))

remove_order_v1(b, id) ==
    IF id \notin DOMAIN b.orders THEN Throw(b)
    ELSE Then(subtract_from_level_v1(b, b.orders[id]),
              LAMBDA c : Return([c EXCEPT !.orders = Drop(@, id)]))

subtract_from_order_v1(b, id, quantity, full) ==
    IF id \notin DOMAIN b.orders THEN Throw(b)
    ELSE LET o == b.orders[id]
         IN  IF InvalidReduction(o, quantity, full) THEN Throw(b)
             ELSE Then(subtract_from_level_v1(b, [o EXCEPT !.quantity = quantity]),
                       LAMBDA c : Return(
                           IF quantity = o.quantity THEN [c EXCEPT !.orders = Drop(@, id)]
                           ELSE [c EXCEPT !.orders[id].quantity = @ - quantity]))

(* The order is listed before its level takes the quantity.                *)
upsert_order_v1(b, id, o) ==
    IF id = 0 \/ o.quantity = 0 THEN Throw(b)
    ELSE Then(IF id \in DOMAIN b.orders THEN subtract_from_level_v1(b, b.orders[id]) ELSE Return(b),
              LAMBDA c : add_to_level_v1([c EXCEPT !.orders = Put(@, id, o)], o))

apply_v1(b, e) == Dispatch(b, e, add_order_v1, subtract_from_order_v1, remove_order_v1, upsert_order_v1)

best_v1(b, side) ==
    LET levels == b.levels[side]
        price == IF side = "Bid" THEN Max(DOMAIN levels) ELSE Min(DOMAIN levels)
    IN  IF DOMAIN levels = {} THEN NoLevel ELSE <<price, levels[price]>>

(* What the digest hashes, in the order it does; orders come by id.        *)
state_digest_v1(b) ==
    [live |-> Cardinality(DOMAIN b.orders),
     levels |-> [side \in Sides |-> Ascending(b.levels[side])],
     orders |-> {<<id, b.orders[id]>> : id \in DOMAIN b.orders}]
=============================================================================
