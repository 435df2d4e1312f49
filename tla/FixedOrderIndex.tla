-------------------------- MODULE FixedOrderIndex --------------------------
(***************************************************************************)
(* The preallocated open-addressing index from order ids to records        *)
(* (fixed_order_index.hpp, fixed_order_index.rs): linear probing, and an   *)
(* erase that shifts later entries of the cluster back instead of leaving  *)
(* a tombstone.  The shift is modelled one probe at a time.  The hash is   *)
(* any function from ids to slots: it is chosen once, by Init.             *)
(***************************************************************************)
EXTENDS Integers, FiniteSets

CONSTANTS Ids,        \* order ids; 0 is not a valid one
          Values,     \* the records
          MaxLive,    \* maximum_live_entries_
          Capacity,   \* slots_.size()
          Homes       \* the slots ids hash to

ASSUME IndexAssumption == /\ Ids \subseteq Nat
                          /\ Capacity \in Nat /\ MaxLive \in Nat
                          /\ Capacity >= 8 /\ Capacity >= 2 * MaxLive
                          /\ Homes \subseteq 0 .. Capacity - 1 /\ Homes # {}

VARIABLES slots, size,
          home,                \* the hash, masked
          pc, hole, next,      \* erase_at
          erasing              \* the id erase was called with

indexVars == <<slots, size, home, pc, hole, next, erasing>>

Slots == 0 .. Capacity - 1

Free == [id |-> 0, value |-> 0, occupied |-> FALSE]

(* Walking on by k slots, and the walk from one slot to another.           *)
Step(slot, k) == IF slot + k >= Capacity THEN slot + k - Capacity ELSE slot + k

distance(from, to) == IF to >= from THEN to - from ELSE to - from + Capacity

Init == /\ slots = [i \in Slots |-> Free]
        /\ size = 0
        /\ home \in [Ids \ {0} -> Homes]
        /\ pc = "idle" /\ hole = 0 /\ next = 0 /\ erasing = 0

(* The probe for id ends at the first slot that is free or holds id.       *)
Ends(id, k) == LET slot == slots[Step(home[id], k)] IN ~slot.occupied \/ slot.id = id

ProbeEnd(id) == {k \in Slots : Ends(id, k) /\ \A j \in 0 .. k - 1 : ~Ends(id, j)}

(* The slot find_slot returns, as a set of at most one.                    *)
find_slot(id) == IF id = 0 THEN {}
                 ELSE {i \in {Step(home[id], k) : k \in ProbeEnd(id)} : slots[i].occupied}

-----------------------------------------------------------------------------
(* Mutants: the number of live entries is not checked; the probe does not  *)
(* look for the id itself.                                                 *)
insert_Unbounded(id, value) ==
    /\ pc = "idle"
    /\ id # 0
    /\ \E k \in ProbeEnd(id) :
          LET i == Step(home[id], k)
          IN  /\ ~slots[i].occupied
              /\ slots' = [slots EXCEPT ![i] = [id |-> id, value |-> value, occupied |-> TRUE]]
    /\ size' = size + 1
    /\ UNCHANGED <<home, pc, hole, next, erasing>>

insert_Duplicates(id, value) ==
    /\ pc = "idle"
    /\ id # 0 /\ size # MaxLive
    /\ \E k \in Slots :
          LET i == Step(home[id], k)
          IN  /\ ~slots[i].occupied
              /\ \A j \in 0 .. k - 1 : slots[Step(home[id], j)].occupied
              /\ slots' = [slots EXCEPT ![i] = [id |-> id, value |-> value, occupied |-> TRUE]]
    /\ size' = size + 1
    /\ UNCHANGED <<home, pc, hole, next, erasing>>

(* insert returns false, and changes nothing, for id 0, in a full index    *)
(* and for an id it finds.                                                 *)
insert(id, value) ==
    /\ pc = "idle"
    /\ id # 0 /\ size # MaxLive
    /\ \E k \in ProbeEnd(id) :
          LET i == Step(home[id], k)
          IN  /\ ~slots[i].occupied
              /\ slots' = [slots EXCEPT ![i] = [id |-> id, value |-> value, occupied |-> TRUE]]
    /\ size' = size + 1
    /\ UNCHANGED <<home, pc, hole, next, erasing>>

(* A caller writes through the pointer find returned.                      *)
Update(id, value) ==
    /\ pc = "idle"
    /\ \E i \in find_slot(id) : slots' = [slots EXCEPT ![i].value = value]
    /\ UNCHANGED <<size, home, pc, hole, next, erasing>>

erase(id) ==
    /\ pc = "idle"
    /\ \E i \in find_slot(id) : hole' = i /\ next' = Step(i, 1)
    /\ erasing' = id
    /\ pc' = "shift"
    /\ UNCHANGED <<slots, size, home>>

(* Mutants: every entry moves into the hole; the loop does not advance.    *)
Shift_Always ==
    /\ pc = "shift"
    /\ slots[next].occupied
    /\ slots' = [slots EXCEPT ![hole] = slots[next]]
    /\ hole' = next
    /\ next' = Step(next, 1)
    /\ UNCHANGED <<size, home, pc, erasing>>

Shift_Stuck ==
    /\ pc = "shift"
    /\ slots[next].occupied
    /\ LET h == home[slots[next].id]
       IN  IF distance(h, next) >= distance(h, hole)
           THEN slots' = [slots EXCEPT ![hole] = slots[next]] /\ hole' = next
           ELSE UNCHANGED <<slots, hole>>
    /\ UNCHANGED <<next, size, home, pc, erasing>>

(* The loop of erase_at: an entry moves into the hole unless its home lies *)
(* between the hole and it.                                                *)
Shift ==
    /\ pc = "shift"
    /\ slots[next].occupied
    /\ LET h == home[slots[next].id]
       IN  IF distance(h, next) >= distance(h, hole)
           THEN slots' = [slots EXCEPT ![hole] = slots[next]] /\ hole' = next
           ELSE UNCHANGED <<slots, hole>>
    /\ next' = Step(next, 1)
    /\ UNCHANGED <<size, home, pc, erasing>>

(* Mutants: the slot is freed without a shift; size_ is not decremented.   *)
ShiftEnd_AtOnce ==
    /\ pc = "shift"
    /\ slots' = [slots EXCEPT ![hole] = Free]
    /\ size' = size - 1
    /\ pc' = "idle" /\ hole' = 0 /\ next' = 0 /\ erasing' = 0
    /\ UNCHANGED home

ShiftEnd_KeepsSize ==
    /\ pc = "shift"
    /\ ~slots[next].occupied
    /\ slots' = [slots EXCEPT ![hole] = Free]
    /\ pc' = "idle" /\ hole' = 0 /\ next' = 0 /\ erasing' = 0
    /\ UNCHANGED <<home, size>>

(* The code leaves the old id in the freed slot; nothing reads it.         *)
ShiftEnd ==
    /\ pc = "shift"
    /\ ~slots[next].occupied
    /\ slots' = [slots EXCEPT ![hole] = Free]
    /\ size' = size - 1
    /\ pc' = "idle" /\ hole' = 0 /\ next' = 0 /\ erasing' = 0
    /\ UNCHANGED home

Next == \/ \E id \in Ids, value \in Values : insert(id, value) \/ Update(id, value)
        \/ \E id \in Ids : erase(id)
        \/ Shift \/ ShiftEnd

Spec == Init /\ [][Next]_indexVars

(* A call of erase runs to its end.                                        *)
FairSpec == Spec /\ WF_indexVars(Shift \/ ShiftEnd)

-----------------------------------------------------------------------------
(* Types of the table and of the locals of erase_at.                       *)
TypeOK == /\ slots \in [Slots -> [id : Ids \cup {0}, value : Values \cup {0}, occupied : BOOLEAN]]
          /\ size \in 0 .. MaxLive
          /\ home \in [Ids \ {0} -> Homes]
          /\ pc \in {"idle", "shift"} /\ hole \in Slots /\ next \in Slots
          /\ erasing \in Ids \cup {0}

Occupied == {i \in Slots : slots[i].occupied}

(* The invariant linear probing rests on: between an entry's home and the  *)
(* entry there is no free slot -- during a shift, none but the hole, and   *)
(* that one only for entries the shift has still to visit.                 *)
ProbeChain ==
    \A i \in Occupied \ (IF pc = "shift" THEN {hole} ELSE {}) :
        \A k \in 0 .. distance(home[slots[i].id], i) - 1 :
            LET j == Step(home[slots[i].id], k)
            IN  /\ slots[j].occupied
                /\ pc = "shift" /\ j = hole => distance(hole, next) <= distance(hole, i)

(* size_ counts the entries, and at least half of the table is free, so    *)
(* that every probe and every shift ends.                                  *)
SizeCounts == Cardinality(Occupied) = size /\ 2 * size <= Capacity

(* The entries as the caller sees them: an id that is being erased is gone *)
(* when erase is called.                                                   *)
Entries == {<<slots[i].id, slots[i].value>> : i \in {j \in Occupied : slots[j].id # erasing}}

(* The table is a bounded map from ids to records: every insert, update,   *)
(* and erase, whatever the hash and the history of collisions, does to the *)
(* entries what it would do to a map, and to no other entry.               *)
Map == INSTANCE OrderIndexMap WITH map <- Entries
MapSpec == Map!Spec

(* Between calls, find returns the record last stored for every live id    *)
(* and nothing for any other id: no entry is made unreachable by the       *)
(* shifts of others.                                                       *)
FindAgrees ==
    pc = "idle" => \A id \in Ids : {<<id, slots[i].value>> : i \in find_slot(id)}
                                     = {e \in Entries : e[1] = id}

(* erase terminates.                                                       *)
EraseReturns == pc = "shift" ~> pc = "idle"
=============================================================================
