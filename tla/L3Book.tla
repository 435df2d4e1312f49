------------------------------- MODULE L3Book -------------------------------
(***************************************************************************)
(* What an L3 book promises (l3_order_book.md): it is a map from the ids   *)
(* of the live orders to the orders; an event that the map does not admit  *)
(* is refused; the levels are the sums of the live quantities.             *)
(***************************************************************************)
EXTENDS L3Events, FiniteSetsExt

(* The quantity at a price: the number of units in its live orders.        *)
Units(orders, side, price) ==
    UNION {{id} \X (1 .. orders[id].quantity) :
              id \in {i \in DOMAIN orders : orders[i].side = side /\ orders[i].price = price}}

Level(orders, side, price) == Cardinality(Units(orders, side, price))

(* The live orders after an event.                                         *)
After(orders, e) ==
    CASE e.type \in {"Add", "OrderUpsert"} -> Put(orders, e.order_id, e.order)
      [] e.type \in {"Cancel", "Execute"} ->
            IF e.order.quantity = orders[e.order_id].quantity THEN Drop(orders, e.order_id)
            ELSE [orders EXCEPT ![e.order_id].quantity = @ - e.order.quantity]
      [] e.type \in {"Delete", "OrderDelete"} -> Drop(orders, e.order_id)
      [] e.type = "Replace" -> Put(Drop(orders, e.order_id), e.replacement_order_id, e.order)

(* The events a valid trace may hold next.                                 *)
Admits(orders, e) ==
    /\ e.type \in {"Add", "OrderUpsert"} => e.order_id # 0
    /\ e.type = "Add" => e.order_id \notin DOMAIN orders
    /\ e.type \notin {"Add", "OrderUpsert"} => e.order_id \in DOMAIN orders
    /\ e.type \in {"Cancel", "Execute"} => e.order.quantity <= orders[e.order_id].quantity
    /\ e.type = "Cancel" => e.order.quantity # orders[e.order_id].quantity
    /\ e.type = "Replace" => e.replacement_order_id \notin DOMAIN orders \cup {0}
    /\ e.type \notin {"Delete", "OrderDelete"} => e.order.quantity # 0
    /\ e.type \in {"Add", "OrderUpsert", "Replace"} =>
          Level(After(orders, e), e.order.side, e.order.price) <= MaxQuantity

(* What state_digest and best_bid, best_ask must answer.                   *)
Prices(orders, side) == {orders[id].price : id \in {i \in DOMAIN orders : orders[i].side = side}}

Digest(orders) ==
    [live |-> Cardinality(DOMAIN orders),
     levels |-> [side \in Sides |->
        Ascending([price \in Prices(orders, side) |-> Level(orders, side, price)])],
     orders |-> {<<id, orders[id]>> : id \in DOMAIN orders}]

Best(orders, side) ==
    LET prices == Prices(orders, side)
        price == IF side = "Bid" THEN Max(prices) ELSE Min(prices)
    IN  IF prices = {} THEN NoLevel ELSE <<price, Level(orders, side, price)>>
=============================================================================
