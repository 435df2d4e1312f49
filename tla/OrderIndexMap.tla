--------------------------- MODULE OrderIndexMap ---------------------------
(***************************************************************************)
(* What the order books ask of an order index: a map from ids to records   *)
(* that holds at most MaxLive of them.  It is kept as a set of pairs.      *)
(***************************************************************************)
EXTENDS Naturals, FiniteSets

CONSTANTS Ids, Values, MaxLive

VARIABLE map

Live(id) == \E e \in map : e[1] = id

Without(id) == {e \in map : e[1] # id}

Init == map = {}

Insert(id, value) == /\ id # 0 /\ ~Live(id)
                     /\ Cardinality(map) < MaxLive
                     /\ map' = map \cup {<<id, value>>}

Update(id, value) == /\ Live(id)
                     /\ map' = Without(id) \cup {<<id, value>>}

Erase(id) == /\ Live(id)
             /\ map' = Without(id)

Next == \E id \in Ids : \/ Erase(id)
                        \/ \E value \in Values : Insert(id, value) \/ Update(id, value)

Spec == Init /\ [][Next]_map
=============================================================================
