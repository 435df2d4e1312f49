------------------------------ MODULE L3Events ------------------------------
(***************************************************************************)
(* What the six L3 order books have in common: events, orders, and calls   *)
(* that may throw.  A call yields the book it leaves behind and whether it *)
(* threw; a statement after one that threw is not executed, and nothing    *)
(* done before the throw is undone.  An order is its side, price and       *)
(* remaining quantity.  MaxQuantity stands for UINT64_MAX.                 *)
(***************************************************************************)
EXTENDS Integers, Sequences, FiniteSets, Functions

CONSTANTS MaxQuantity,  \* the largest quantity
          MinimumPrice, \* minimum_price of the ladders
          PriceCount,   \* prices of a ladder
          WordBits,     \* bits of a word of an occupancy bitmap
          AskBit,       \* the bit of a packed order that stands for Ask
          SmallestTable,\* the smallest capacity of an order index
          Hash          \* mix: order id -> hash

ASSUME L3Assumption == /\ MaxQuantity \in Nat /\ MinimumPrice \in Nat
                       /\ PriceCount \in Nat \ {0} /\ WordBits \in Nat \ {0}
                       /\ PriceCount % WordBits = 0
                       /\ AskBit \in Nat /\ AskBit >= PriceCount
                       /\ SmallestTable \in Nat \ {0}
                       /\ Hash \in [DOMAIN Hash -> Nat]

Sides == {"Bid", "Ask"}

-----------------------------------------------------------------------------
Return(b) == [book |-> b, threw |-> FALSE]

Throw(b) == [book |-> b, threw |-> TRUE]

(* Execute rest after a call, unless the call threw.                       *)
Then(result, rest(_)) == IF result.threw THEN result ELSE rest(result.book)

(* Use the slot that a search found, or throw when it found none; no slot  *)
(* stands for slots_.size().                                               *)
WithSlot(found, b, use(_)) == IF found = {} THEN Throw(b) ELSE use(CHOOSE i \in found : TRUE)

(* The switch of apply, the same in every version.                         *)
Dispatch(b, e, add(_, _, _), reduce(_, _, _, _), remove(_, _), upsert(_, _, _)) ==
    CASE e.type = "Add"         -> add(b, e.order_id, e.order)
      [] e.type = "Cancel"      -> reduce(b, e.order_id, e.order.quantity, FALSE)
      [] e.type = "Execute"     -> reduce(b, e.order_id, e.order.quantity, TRUE)
      [] e.type = "Delete"      -> remove(b, e.order_id)
      [] e.type = "OrderDelete" -> remove(b, e.order_id)
      [] e.type = "Replace"     ->
            IF e.order_id = e.replacement_order_id THEN Throw(b)
            ELSE Then(remove(b, e.order_id),
                      LAMBDA c : add(c, e.replacement_order_id, e.order))
      [] e.type = "OrderUpsert" -> upsert(b, e.order_id, e.order)

(* What no reduction of an order o may be.                                 *)
InvalidReduction(o, quantity, full) ==
    quantity = 0 \/ quantity > o.quantity \/ (~full /\ quantity = o.quantity)

-----------------------------------------------------------------------------
(* Finite maps.                                                            *)
Put(f, key, value) == [k \in DOMAIN f \cup {key} |-> IF k = key THEN value ELSE f[k]]

Drop(f, key) == Restrict(f, DOMAIN f \ {key})

(* The answer of best_bid and best_ask on an empty side.                   *)
NoLevel == << >>

(* The levels of a side as the digest hashes them: the i-th is the price   *)
(* that has i - 1 lower ones, with its quantity.                           *)
Ascending(levels) ==
    LET Nth(i) == CHOOSE price \in DOMAIN levels :
                     Cardinality({p \in DOMAIN levels : p < price}) = i - 1
    IN  [i \in 1 .. Cardinality(DOMAIN levels) |-> <<Nth(i), levels[Nth(i)]>>]
=============================================================================
