----------------------------- MODULE MCL3Books -----------------------------
(* Three orders; bids on either side of a word boundary of the bitmap and  *)
(* asks within a word; quantities up to the largest; and the events a book *)
(* has to refuse: a price outside the ladder, quantity 0, id 0, unknown    *)
(* ids.  The ids collide in the order index.                               *)
EXTENDS L3Books

MCHash == [id \in 0 .. 3 |-> IF id = 3 THEN 4 ELSE 3]

Order(side, price, quantity) == [side |-> side, price |-> price, quantity |-> quantity]

MCOrders == [side : {"Bid"}, price : {11, 12}, quantity : 0 .. MaxQuantity]
            \cup [side : {"Ask"}, price : {12, 13, 14}, quantity : {1}]

Amounts == {Order("Bid", 11, quantity) : quantity \in 0 .. MaxQuantity}

MCEvents ==
    [type : {"Add", "OrderUpsert"}, order_id : 1 .. 3, replacement_order_id : {0}, order : MCOrders]
    \cup [type : {"Replace"}, order_id : 1 .. 3, replacement_order_id : 0 .. 3, order : MCOrders]
    \cup [type : {"Cancel", "Execute"}, order_id : 1 .. 3, replacement_order_id : {0}, order : Amounts]
    \cup [type : {"Delete", "OrderDelete"}, order_id : 1 .. 3, replacement_order_id : {0},
          order : {Order("Bid", 11, 0)}]
    \cup [type : {"Add", "OrderUpsert", "Delete"}, order_id : {0}, replacement_order_id : {0},
          order : {Order("Bid", 11, 1)}]

(* The two books without a ladder are not followed past a price outside    *)
(* it: no price is special to them.                                        *)
InLadders == \A id \in DOMAIN orders : InLadder(orders[id].price)
=============================================================================
