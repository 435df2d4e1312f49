--------------------------- MODULE TombstoneIndex ---------------------------
(* The order index of the L3 books v2, v3 and v4, as v2 has it             *)
(* (parity_order_book.cpp): open addressing with linear probing, and       *)
(* tombstones in the slots of the orders that are gone.                    *)
EXTENDS L3Events, FiniteSetsExt

Empty == [state |-> "Empty"]
Tombstone == [state |-> "Tombstone"]
Occupied(id, o) == [state |-> "Occupied", id |-> id, order |-> o]

(* The capacity is doubled while it is below twice the live orders.        *)
Doubled[k \in Nat] == IF k = 0 THEN SmallestTable ELSE 2 * Doubled[k - 1]

table_capacity(maximum_live) ==
    Doubled[Min({k \in 0 .. 2 * maximum_live : Doubled[k] >= 2 * maximum_live})]

-----------------------------------------------------------------------------
(* The slots that a probe for id visits, up to the first empty one.        *)
Probe(slots, id, step) == (Hash[id] + step) % Cardinality(DOMAIN slots)

Visited(slots, id) ==
    {step \in DOMAIN slots :
        \A s \in 0 .. step - 1 : slots[Probe(slots, id, s)].state # "Empty"}

Visits(slots, id, P(_)) == {step \in Visited(slots, id) : P(slots[Probe(slots, id, step)])}

Holds(slot, id) == slot.state = "Occupied" /\ slot.id = id

FirstOf(slots, id, steps) == IF steps = {} THEN {} ELSE {Probe(slots, id, Min(steps))}

(* Mutant: a tombstone ends the probe.                                     *)
find_slot_StopsAtTombstone(slots, id) ==
    FirstOf(slots, id,
            {step \in Visits(slots, id, LAMBDA s : Holds(s, id)) :
                \A s \in 0 .. step - 1 : slots[Probe(slots, id, s)].state # "Tombstone"})

find_slot(slots, id) == FirstOf(slots, id, Visits(slots, id, LAMBDA s : Holds(s, id)))

insertion_slot(slots, id) ==
    LET tombstones == Visits(slots, id, LAMBDA s : s.state = "Tombstone")
        empties == Visits(slots, id, LAMBDA s : s.state = "Empty")
    IN  IF find_slot(slots, id) # {} THEN {}
        ELSE FirstOf(slots, id, IF tombstones # {} THEN tombstones ELSE empties)

(* A slot whose order is gone becomes a tombstone.                         *)
Bury(b, i) == [b EXCEPT !.slots[i] = Tombstone, !.live = @ - 1]

(* The ids of the occupied slots, each looked up again through the index.  *)
Orders(slots) ==
    LET ids == {slots[i].id : i \in {j \in DOMAIN slots : slots[j].state = "Occupied"}}
    IN  UNION {{<<id, slots[i].order>> : i \in find_slot(slots, id)} : id \in ids}
=============================================================================
