------------------------------ MODULE L3Levels ------------------------------
(***************************************************************************)
(* The vocabulary in which the proofs relate the levels of the six books:  *)
(* the quantity at every price of both sides, and what an order adds to    *)
(* it and takes from it.                                                   *)
(***************************************************************************)
EXTENDS L3Events, FiniteSetsExt

(* A live order.                                                           *)
LiveOrder == [side : Sides, price : Nat, quantity : 1 .. MaxQuantity]

(* The quantities at the prices of both sides.                             *)
Quantities == [Sides -> [Nat -> 0 .. MaxQuantity]]

At(o, side, price) == IF side = o.side /\ price = o.price THEN o.quantity ELSE 0

Plus(S, o) == [side \in Sides |-> [price \in Nat |-> S[side][price] + At(o, side, price)]]

Minus(S, o) == [side \in Sides |-> [price \in Nat |-> S[side][price] - At(o, side, price)]]

(* The prices of a side that have a quantity, with it, and the best one.   *)
Quoted(F) == {price \in Nat : F[price] # 0}

LevelMap(F) == [price \in Quoted(F) |-> F[price]]

BestLevel(F, side) ==
    LET price == IF side = "Bid" THEN Max(Quoted(F)) ELSE Min(Quoted(F))
    IN  IF Quoted(F) = {} THEN NoLevel ELSE <<price, F[price]>>

(* The quantities differ at one price only.                                *)
SameElsewhere(S, T, side, price) ==
    \A s \in Sides, p \in Nat : ~(s = side /\ p = price) => T[s][p] = S[s][p]

(* The part of a book that no level operation touches.                     *)
SameIndex(b, c) == /\ DOMAIN c = DOMAIN b
                   /\ \A field \in {"orders", "slots", "live", "maximum"} \cap DOMAIN b :
                         c[field] = b[field]

(* The part of a book that no operation on its index touches.              *)
SameLevels(b, c) == /\ DOMAIN c = DOMAIN b
                    /\ \A field \in {"levels", "ladder", "best", "occupied"} \cap DOMAIN b :
                          c[field] = b[field]
=============================================================================
