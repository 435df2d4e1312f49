----------------------- MODULE BitmapLadderOrderBook -----------------------
(* The L3 book v4 (bitmap_ladder_order_book.cpp): the order index of v2    *)
(* with packed orders, the ladders of v3, and for each side a bitmap of    *)
(* the occupied prices instead of a cached best.                           *)
EXTENDS BitmapLadder, TombstoneIndex

New_v4(maximum_live) == [slots |-> [i \in 0 .. table_capacity(maximum_live) - 1 |-> Empty],
                         ladder |-> [side \in Sides |-> [i \in Offsets |-> 0]],
                         occupied |-> [side \in Sides |-> [word \in Words |-> {}]],
                         live |-> 0]

find_v4(slots, id) == find_slot(slots, id)

insertion_v4(slots, id) == insertion_slot(slots, id)

-----------------------------------------------------------------------------
add_v4(b, id, o) ==
    IF id = 0 \/ o.quantity = 0 \/ ~InLadder(o.price) THEN Throw(b)
    ELSE WithSlot(insertion_v4(b.slots, id), b, LAMBDA i :
            Then(add_level_v4(b, o),
                 LAMBDA c : Return([c EXCEPT !.slots[i] = Occupied(id, make(o)),
                                             !.live = @ + 1])))

remove_v4(b, id) ==
    WithSlot(find_v4(b.slots, id), b, LAMBDA i :
        Then(subtract_level_v4(b, Unpack(b.slots[i].order)), LAMBDA c : Return(Bury(c, i))))

reduce_v4(b, id, quantity, full) ==
    WithSlot(find_v4(b.slots, id), b, LAMBDA i :
        LET o == Unpack(b.slots[i].order)
        IN  IF InvalidReduction(o, quantity, full) THEN Throw(b)
            ELSE Then(subtract_level_v4(b, [o EXCEPT !.quantity = quantity]),
                      LAMBDA c : Return(
                          IF quantity = o.quantity THEN Bury(c, i)
                          ELSE [c EXCEPT !.slots[i].order.quantity = @ - quantity])))

(* Mutant: the new price is checked by add_level only.                     *)
upsert_v4_PriceLast(b, id, o) ==
    IF id = 0 \/ o.quantity = 0 THEN Throw(b)
    ELSE IF find_v4(b.slots, id) = {} THEN add_v4(b, id, o)
    ELSE WithSlot(find_v4(b.slots, id), b, LAMBDA i :
            Then(subtract_level_v4(b, Unpack(b.slots[i].order)),
                 LAMBDA c : Then(add_level_v4(c, o),
                     LAMBDA d : Return([d EXCEPT !.slots[i].order = make(o)]))))

(* The new price is checked before the old level is touched.               *)
upsert_v4(b, id, o) ==
    IF id = 0 \/ o.quantity = 0 THEN Throw(b)
    ELSE IF find_v4(b.slots, id) = {} THEN add_v4(b, id, o)
    ELSE IF ~InLadder(o.price) THEN Throw(b)
    ELSE WithSlot(find_v4(b.slots, id), b, LAMBDA i :
            Then(subtract_level_v4(b, Unpack(b.slots[i].order)),
                 LAMBDA c : Then(add_level_v4(c, o),
                     LAMBDA d : Return([d EXCEPT !.slots[i].order = make(o)]))))

apply_v4(b, e) == Dispatch(b, e, add_v4, reduce_v4, remove_v4, upsert_v4)

state_digest_v4(b) == [live |-> b.live,
                       levels |-> [side \in Sides |-> Levels(b.ladder[side])],
                       orders |-> {<<entry[1], Unpack(entry[2])>> : entry \in Orders(b.slots)}]
=============================================================================
