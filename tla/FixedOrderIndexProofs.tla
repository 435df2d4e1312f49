----------------------- MODULE FixedOrderIndexProofs -----------------------
(***************************************************************************)
(* Backward-shift erasure keeps the probe chains, for every table size,    *)
(* hash and set of ids; so find finds exactly the live entries, and the    *)
(* index implements the bounded map the order books rely on.               *)
(***************************************************************************)
EXTENDS FixedOrderIndex, FiniteSetTheorems, TLAPS

(* The slots that hold an entry: during a shift the hole holds a copy of   *)
(* the entry that left it, or the entry that is being erased.              *)
Entered == Occupied \ (IF pc = "shift" THEN {hole} ELSE {})

ShiftInv ==
    IF pc = "shift"
    THEN /\ hole # next /\ hole \in Occupied /\ erasing \in Ids \ {0}
         /\ \A j \in Slots : distance(hole, j) < distance(hole, next) => slots[j].occupied
         /\ \A i \in Entered : slots[i].id # erasing
         /\ \/ slots[hole].id = erasing
            \/ \E i \in Entered : slots[i] = slots[hole]
    ELSE erasing = 0

IndexInv == /\ TypeOK /\ ProbeChain /\ SizeCounts /\ ShiftInv
            /\ \A i \in Occupied : slots[i].id # 0
            /\ \A i, j \in Entered : slots[i].id = slots[j].id => i = j

-----------------------------------------------------------------------------
(* Walking around the table.                                               *)
LEMMA Walk ==
    /\ \A a, b \in Slots : distance(a, b) \in Slots /\ Step(a, distance(a, b)) = b
    /\ \A a, k \in Slots : Step(a, k) \in Slots /\ distance(a, Step(a, k)) = k
    /\ \A a, b \in Slots : distance(a, b) = 0 <=> a = b
BY IndexAssumption DEF Slots, distance, Step

LEMMA WayPoints ==
    ASSUME NEW a \in Slots, NEW b \in Slots
    PROVE  /\ \A j \in Slots : distance(a, j) < distance(a, b) =>
                 distance(a, j) \in 0 .. distance(a, b) - 1 /\ j = Step(a, distance(a, j))
           /\ \A k \in 0 .. distance(a, b) - 1 :
                 Step(a, k) \in Slots /\ distance(a, Step(a, k)) < distance(a, b)
BY IndexAssumption DEF Slots, distance, Step

(* A slot between one on the way and its end is on the way.                *)
LEMMA Between ==
    ASSUME NEW a \in Slots, NEW b \in Slots, NEW c \in Slots, NEW n \in Slots,
           distance(a, c) < distance(a, b), distance(c, n) <= distance(c, b), n # b
    PROVE  distance(a, n) < distance(a, b)
BY IndexAssumption DEF Slots, distance

LEMMA OneOn ==
    ASSUME NEW a \in Slots, NEW b \in Slots, Step(b, 1) # a
    PROVE  distance(a, Step(b, 1)) = distance(a, b) + 1
BY IndexAssumption DEF Slots, distance, Step

LEMMA NextSlot ==
    ASSUME NEW a \in Slots
    PROVE  Step(a, 1) \in Slots /\ Step(a, 1) # a /\ distance(a, Step(a, 1)) = 1
BY IndexAssumption DEF Slots, distance, Step

(* At least half of the table is free.                                     *)
LEMMA SomeFree ==
    ASSUME IndexInv
    PROVE  IsFiniteSet(Occupied) /\ \E f \in Slots : ~slots[f].occupied
<1>1. IsFiniteSet(Slots) /\ Cardinality(Slots) = Capacity
  BY FS_Interval, IndexAssumption DEF Slots
<1>2. Occupied \in SUBSET Slots  BY DEF Occupied
<1>3. IsFiniteSet(Occupied)  BY <1>1, <1>2, FS_Subset
<1>4. Occupied # Slots
  BY <1>1, IndexAssumption DEF IndexInv, SizeCounts, TypeOK
<1> QED  BY <1>2, <1>3, <1>4 DEF Occupied

(* ProbeChain without its offsets: every slot on the way from the home of  *)
(* an entry to the entry.                                                  *)
OnTheWay(i, j) == distance(home[slots[i].id], j) < distance(home[slots[i].id], i)

Chains == \A i \in Entered, j \in Slots : OnTheWay(i, j) =>
              /\ slots[j].occupied
              /\ pc = "shift" /\ j = hole => distance(hole, next) <= distance(hole, i)

LEMMA HomeInSlots ==
    ASSUME TypeOK, \A i \in Occupied : slots[i].id # 0, NEW i \in Occupied
    PROVE  home[slots[i].id] \in Slots /\ i \in Slots /\ slots[i].id \in Ids \ {0}
BY IndexAssumption, Zenon DEF TypeOK, Occupied, Slots

LEMMA ChainsAreProbes ==
    ASSUME TypeOK, \A i \in Occupied : slots[i].id # 0
    PROVE  ProbeChain <=> Chains
<1> DEFINE h(i) == home[slots[i].id]
<1>1. \A i \in Entered : h(i) \in Slots /\ i \in Slots
  BY HomeInSlots DEF Entered
<1>2. ASSUME NEW i \in Entered, NEW j \in Slots, OnTheWay(i, j)
      PROVE  distance(h(i), j) \in 0 .. distance(h(i), i) - 1 /\ j = Step(h(i), distance(h(i), j))
  BY <1>1, <1>2, WayPoints DEF OnTheWay
<1>3. ASSUME NEW i \in Entered, NEW k \in 0 .. distance(h(i), i) - 1
      PROVE  Step(h(i), k) \in Slots /\ OnTheWay(i, Step(h(i), k))
  BY <1>1, <1>3, WayPoints DEF OnTheWay
<1>4. ProbeChain => Chains
  BY <1>2 DEF ProbeChain, Chains, Entered
<1>5. Chains => ProbeChain
  BY <1>3 DEF ProbeChain, Chains, Entered
<1> QED  BY <1>4, <1>5

LEMMA ChainsGiveProbes ==
    TypeOK /\ (\A i \in Occupied : slots[i].id # 0) /\ Chains => ProbeChain
BY ChainsAreProbes

LEMMA ChainsPrimed ==
    (TypeOK /\ (\A i \in Occupied : slots[i].id # 0) /\ Chains => ProbeChain)'
BY ChainsGiveProbes, PTL

-----------------------------------------------------------------------------
(* What find_slot finds between calls: the slot that holds the id.         *)
LEMMA FirstEnd ==
    ASSUME IndexInv, pc = "idle", NEW id \in Ids \ {0}, NEW k \in ProbeEnd(id)
    PROVE  /\ Step(home[id], k) \in Slots
           /\ slots[Step(home[id], k)].occupied => slots[Step(home[id], k)].id = id
           /\ \A j \in Slots : distance(home[id], j) < k => slots[j].occupied /\ slots[j].id # id
           /\ \A i \in Occupied : slots[i].id = id => i = Step(home[id], k)
<1> DEFINE h == home[id]
           e == Step(h, k)
<1>1. h \in Slots /\ k \in Slots  BY IndexAssumption, Zenon DEF IndexInv, TypeOK, ProbeEnd, Slots
<1>2. e \in Slots /\ distance(h, e) = k  BY <1>1, Walk, Zenon
<1>3. ~slots[e].occupied \/ slots[e].id = id  BY DEF ProbeEnd, Ends
<1>4. ASSUME NEW j \in Slots, distance(h, j) < k PROVE slots[j].occupied /\ slots[j].id # id
  <2>1. distance(h, j) \in 0 .. k - 1 /\ j = Step(h, distance(h, j))
    BY <1>1, <1>2, <1>4, WayPoints
  <2>2. ~Ends(id, distance(h, j))  BY <2>1 DEF ProbeEnd
  <2> QED  BY <2>1, <2>2 DEF Ends
<1>5. ASSUME NEW i \in Occupied, slots[i].id = id PROVE i = e
  <2>1. i \in Slots /\ i \in Entered  BY DEF Occupied, Entered
  <2>2. ~(distance(h, i) < k)  BY <1>4, <1>5, <2>1
  <2>3. distance(h, e) < distance(h, i) => slots[e].occupied
    BY <1>2, <1>5, <2>1, ChainsAreProbes DEF IndexInv, Chains, OnTheWay
  <2>4. distance(h, e) < distance(h, i) => e = i
    <3> SUFFICES ASSUME distance(h, e) < distance(h, i) PROVE e = i
      OBVIOUS
    <3>1. e \in Entered /\ slots[e].id = id  BY <1>2, <1>3, <2>3 DEF Entered, Occupied
    <3> QED  BY <1>5, <2>1, <3>1 DEF IndexInv
  <2>5. distance(h, i) = k
    <3>1. distance(h, i) \in Int /\ k \in Int
      <4>1. distance(h, i) \in Slots  BY <1>1, <2>1, Walk, Zenon
      <4> QED  BY <1>1, <4>1 DEF Slots
    <3>2. ~(k < distance(h, i))
      <4> SUFFICES ASSUME k < distance(h, i) PROVE FALSE
        OBVIOUS
      <4>1. e = i  BY <1>2, <2>4
      <4>2. distance(h, i) = k  BY <1>2, <4>1
      <4> QED  BY <3>1, <4>2
    <3> QED  BY <2>2, <3>1, <3>2
  <2> QED  BY <1>1, <2>1, <2>5, Walk, Zenon
<1> QED  BY <1>2, <1>3, <1>4, <1>5

LEMMA ProbeEnds ==
    ASSUME IndexInv, pc = "idle", NEW i \in Occupied
    PROVE  distance(home[slots[i].id], i) \in ProbeEnd(slots[i].id)
<1> DEFINE id == slots[i].id
           h == home[id]
           d == distance(h, i)
<1>1. h \in Slots /\ i \in Slots /\ d \in Slots /\ Step(h, d) = i
  BY HomeInSlots, Walk, Zenon DEF IndexInv
<1>2. Ends(id, d)  BY <1>1 DEF Ends
<1>3. ASSUME NEW k \in 0 .. d - 1 PROVE ~Ends(id, k)
  <2> DEFINE j == Step(h, k)
  <2>1. j \in Slots /\ distance(h, j) < d  BY <1>1, WayPoints
  <2>2. slots[j].occupied
    BY <2>1, ChainsAreProbes DEF IndexInv, Chains, OnTheWay, Entered
  <2>3. j # i  BY <1>1, <2>1 DEF Slots
  <2>4. slots[j].id # id
    BY <1>1, <2>1, <2>2, <2>3 DEF IndexInv, Entered, Occupied
  <2> QED  BY <2>2, <2>4 DEF Ends
<1> QED  BY <1>1, <1>2, <1>3 DEF ProbeEnd

LEMMA FindSlot ==
    ASSUME IndexInv, pc = "idle", NEW id \in Ids
    PROVE  find_slot(id) = {i \in Occupied : slots[i].id = id}
<1>1. CASE id = 0  BY <1>1 DEF find_slot, IndexInv
<1>2. CASE id # 0
  <2>1. ASSUME NEW i \in find_slot(id) PROVE i \in Occupied /\ slots[i].id = id
    BY <1>2, <2>1, FirstEnd DEF find_slot, Occupied
  <2>2. ASSUME NEW i \in Occupied, slots[i].id = id PROVE i \in find_slot(id)
    <3>1. distance(home[id], i) \in ProbeEnd(id)  BY <2>2, ProbeEnds
    <3>2. i = Step(home[id], distance(home[id], i))  BY <1>2, <2>2, <3>1, FirstEnd
    <3> QED  BY <1>2, <3>1, <3>2 DEF find_slot, Occupied
  <2> QED  BY <2>1, <2>2
<1> QED  BY <1>1, <1>2

-----------------------------------------------------------------------------
(* The steps.  SizeCounts follows from the way each changes Occupied.      *)
LEMMA Counting ==
    ASSUME IndexInv, size' \in Nat,
           \/ Occupied' = Occupied /\ size' = size
           \/ \E i : i \notin Occupied /\ Occupied' = Occupied \cup {i} /\ size' = size + 1 /\ size < MaxLive
           \/ \E i \in Occupied : Occupied' = Occupied \ {i} /\ size' = size - 1
    PROVE  SizeCounts' /\ size' \in 0 .. MaxLive
<1>1. IsFiniteSet(Occupied) /\ Cardinality(Occupied) = size /\ size \in 0 .. MaxLive
  BY SomeFree DEF IndexInv, SizeCounts, TypeOK
<1>2. CASE Occupied' = Occupied /\ size' = size
  BY <1>1, <1>2 DEF IndexInv, SizeCounts
<1>3. ASSUME NEW i, i \notin Occupied, Occupied' = Occupied \cup {i}, size' = size + 1, size < MaxLive
      PROVE  SizeCounts' /\ size' \in 0 .. MaxLive
  <2>1. Cardinality(Occupied \cup {i}) = size + 1  BY <1>1, <1>3, FS_AddElement
  <2> QED  BY <1>1, <1>3, <2>1, IndexAssumption DEF SizeCounts
<1>4. ASSUME NEW i \in Occupied, Occupied' = Occupied \ {i}, size' = size - 1
      PROVE  SizeCounts' /\ size' \in 0 .. MaxLive
  <2>1. Cardinality(Occupied \ {i}) = size - 1  BY <1>1, <1>4, FS_RemoveElement
  <2> QED  BY <1>1, <1>4, <2>1, IndexAssumption DEF SizeCounts
<1> QED  BY <1>2, <1>3, <1>4

LEMMA InsertStep ==
    ASSUME IndexInv, NEW id \in Ids, NEW value \in Values, insert(id, value)
    PROVE  IndexInv'
<1>1. PICK k \in ProbeEnd(id) :
        /\ ~slots[Step(home[id], k)].occupied
        /\ slots' = [slots EXCEPT ![Step(home[id], k)] = [id |-> id, value |-> value, occupied |-> TRUE]]
  BY Zenon DEF insert
<1> DEFINE e == Step(home[id], k)
<1>2. /\ pc = "idle" /\ pc' = "idle" /\ id # 0 /\ size # MaxLive /\ size' = size + 1
      /\ UNCHANGED <<home, hole, next, erasing>>
  BY DEF insert
<1>3. home[id] \in Slots /\ k \in Slots  BY <1>2, IndexAssumption, Zenon DEF IndexInv, TypeOK, ProbeEnd, Slots
<1>4. e \in Slots /\ distance(home[id], e) = k  BY <1>3, Walk, Zenon
<1>5. /\ \A j \in Slots : distance(home[id], j) < k => slots[j].occupied
      /\ \A i \in Occupied : slots[i].id # id
  BY <1>1, <1>2, FirstEnd DEF Occupied
<1> HIDE DEF e
<1>6. /\ slots' = [slots EXCEPT ![e] = [id |-> id, value |-> value, occupied |-> TRUE]]
      /\ e \notin Occupied /\ DOMAIN slots = Slots
  BY <1>1 DEF e, Occupied, IndexInv, TypeOK
<1>7. /\ slots'[e] = [id |-> id, value |-> value, occupied |-> TRUE]
      /\ \A i \in Slots : i # e => slots'[i] = slots[i]
  BY <1>4, <1>6
<1>8. Occupied' = Occupied \cup {e} /\ Entered' = Occupied' /\ Entered = Occupied
  BY <1>2, <1>4, <1>7 DEF Occupied, Entered
<1>9. SizeCounts' /\ size' \in 0 .. MaxLive
  <2>1. size \in Nat /\ size < MaxLive  BY <1>2, IndexAssumption DEF IndexInv, TypeOK
  <2> QED  BY <1>2, <1>6, <1>8, <2>1, Counting
<1>10. TypeOK'
  <2>1. [id |-> id, value |-> value, occupied |-> TRUE]
          \in [id : Ids \cup {0}, value : Values \cup {0}, occupied : BOOLEAN]
    OBVIOUS
  <2> QED  BY <1>2, <1>6, <1>9, <2>1, Zenon DEF IndexInv, TypeOK
<1>11. \A i \in Occupied' : slots'[i].id # 0
  BY <1>2, <1>7, <1>8 DEF IndexInv, Occupied
<1>12. \A i, j \in Entered' : slots'[i].id = slots'[j].id => i = j
  BY <1>5, <1>7, <1>8 DEF IndexInv, Occupied
<1>13. Chains'
  <2> SUFFICES ASSUME NEW i \in Occupied', NEW j \in Slots,
                      distance(home[slots'[i].id], j) < distance(home[slots'[i].id], i)
               PROVE  slots'[j].occupied
    BY <1>2, <1>8 DEF Chains, OnTheWay, Slots, distance
  <2>1. CASE i = e  BY <1>4, <1>5, <1>7, <2>1
  <2>2. CASE i # e
    BY <1>7, <1>8, <2>2, ChainsAreProbes DEF IndexInv, Chains, OnTheWay, Occupied
  <2> QED  BY <2>1, <2>2
<1>14. ProbeChain'  BY <1>10, <1>11, <1>13, ChainsPrimed
<1>15. ShiftInv'  BY <1>2 DEF IndexInv, ShiftInv
<1> QED  BY <1>9, <1>10, <1>11, <1>12, <1>14, <1>15 DEF IndexInv

LEMMA UpdateStep ==
    ASSUME IndexInv, NEW id \in Ids, NEW value \in Values, Update(id, value)
    PROVE  IndexInv'
<1>1. PICK e \in find_slot(id) : slots' = [slots EXCEPT ![e].value = value]
  BY Zenon DEF Update
<1>2. pc = "idle" /\ UNCHANGED <<size, home, pc, hole, next, erasing>>  BY DEF Update
<1>3. e \in Slots /\ DOMAIN slots = Slots  BY <1>2, FindSlot DEF Occupied, IndexInv, TypeOK
<1>4. slots[e] \in [id : Ids \cup {0}, value : Values \cup {0}, occupied : BOOLEAN]
  BY <1>3 DEF IndexInv, TypeOK
<1>5. slots'[e] = [slots[e] EXCEPT !.value = value] /\ \A i \in Slots : i # e => slots'[i] = slots[i]
  BY <1>1, <1>3
<1>6. \A i \in Slots : slots'[i].id = slots[i].id /\ slots'[i].occupied = slots[i].occupied
  BY <1>4, <1>5
<1>7. Occupied' = Occupied /\ Entered' = Entered  BY <1>2, <1>6 DEF Occupied, Entered
<1>8. TypeOK'
  <2>1. slots'[e] \in [id : Ids \cup {0}, value : Values \cup {0}, occupied : BOOLEAN]
    BY <1>4, <1>5
  <2> QED  BY <1>1, <1>2, <1>3, <2>1 DEF IndexInv, TypeOK
<1>9. SizeCounts'  BY <1>2, <1>7 DEF IndexInv, SizeCounts
<1>10. Chains'
  BY <1>2, <1>6, <1>7, ChainsAreProbes DEF IndexInv, Chains, OnTheWay, Entered, Occupied, Slots, distance
<1>11. /\ \A i \in Occupied' : slots'[i].id # 0
       /\ \A i, j \in Entered' : slots'[i].id = slots'[j].id => i = j
  BY <1>6, <1>7 DEF IndexInv, Occupied, Entered
<1>12. ProbeChain'  BY <1>8, <1>10, <1>11, ChainsPrimed
<1>13. ShiftInv'  BY <1>2 DEF IndexInv, ShiftInv
<1> QED  BY <1>8, <1>9, <1>11, <1>12, <1>13 DEF IndexInv

LEMMA EraseStep ==
    ASSUME IndexInv, NEW id \in Ids, erase(id)
    PROVE  IndexInv'
<1>1. PICK e \in find_slot(id) : hole' = e /\ next' = Step(e, 1)
  BY DEF erase
<1>2. pc = "idle" /\ pc' = "shift" /\ erasing' = id /\ UNCHANGED <<slots, size, home>>
  BY DEF erase
<1>3. e \in Occupied /\ slots[e].id = id /\ e \in Slots
  BY <1>2, FindSlot DEF Occupied
<1>4. id # 0  BY <1>3 DEF IndexInv
<1>5. next' \in Slots /\ next' # e /\ distance(e, next') = 1  BY <1>1, <1>3, NextSlot
<1>6. Occupied' = Occupied /\ Entered' = Occupied \ {e} /\ Entered = Occupied
  BY <1>1, <1>2 DEF Occupied, Entered
<1>7. TypeOK'  BY <1>1, <1>2, <1>3, <1>5 DEF IndexInv, TypeOK
<1>8. SizeCounts'  BY <1>2, <1>6 DEF IndexInv, SizeCounts
<1>9. /\ \A i \in Occupied' : slots'[i].id # 0
      /\ \A i, j \in Entered' : slots'[i].id = slots'[j].id => i = j
  BY <1>2, <1>6 DEF IndexInv
<1>10. \A i \in Slots : i # e => 1 <= distance(e, i)
  BY <1>3, Walk DEF Slots
<1>11. Chains'
  <2> SUFFICES ASSUME NEW i \in Occupied \ {e}, NEW j \in Slots, OnTheWay(i, j)
               PROVE  slots[j].occupied /\ distance(e, next') <= distance(e, i)
    BY <1>1, <1>2, <1>6 DEF Chains, OnTheWay, Slots, distance
  <2>1. slots[j].occupied  BY <1>6, ChainsAreProbes DEF IndexInv, Chains
  <2> QED  BY <1>5, <1>10, <2>1 DEF Occupied
<1>12. ProbeChain'  BY <1>7, <1>9, <1>11, ChainsPrimed
<1>13. ShiftInv'
  <2>1. \A j \in Slots : distance(e, j) < distance(e, next') => slots[j].occupied
    <3>1. \A j \in Slots : distance(e, j) \in Slots /\ (distance(e, j) = 0 => j = e)
      BY <1>3, Walk
    <3> QED  BY <1>3, <1>5, <3>1 DEF Slots, Occupied
  <2>2. \A i \in Entered' : slots'[i].id # erasing'
    BY <1>2, <1>3, <1>6 DEF IndexInv
  <2>3. \A j \in Slots : distance(hole', j) < distance(hole', next') => slots'[j].occupied
    BY <1>1, <1>2, <2>1
  <2> QED  BY <1>1, <1>2, <1>3, <1>4, <1>5, <1>6, <2>2, <2>3 DEF ShiftInv, Slots, distance
<1> QED  BY <1>7, <1>8, <1>9, <1>12, <1>13 DEF IndexInv

(* The loop never comes back to the hole: it stops at a free slot.         *)
LEMMA LoopStops ==
    ASSUME IndexInv, pc = "shift", slots[next].occupied
    PROVE  Step(next, 1) # hole
<1>1. PICK f \in Slots : ~slots[f].occupied  BY SomeFree
<1>2. hole \in Slots /\ next \in Slots  BY DEF IndexInv, TypeOK
<1>3. ~(distance(hole, f) < distance(hole, next)) /\ f # next
  BY <1>1 DEF IndexInv, ShiftInv
<1>4. Step(next, 1) = hole => \A j \in Slots : j # next => distance(hole, j) < distance(hole, next)
  BY <1>2, IndexAssumption DEF Slots, Step, distance
<1> QED  BY <1>1, <1>3, <1>4

(* An entry moves into the hole.                                           *)
LEMMA MoveStep ==
    ASSUME IndexInv, Shift, slots' = [slots EXCEPT ![hole] = slots[next]], hole' = next,
           distance(home[slots[next].id], next) >= distance(home[slots[next].id], hole)
    PROVE  IndexInv'
<1>1. /\ pc = "shift" /\ pc' = "shift" /\ slots[next].occupied /\ next' = Step(next, 1)
      /\ UNCHANGED <<size, home, erasing>>
  BY DEF Shift
<1>2. /\ hole \in Slots /\ next \in Slots /\ hole # next /\ slots[hole].occupied
      /\ DOMAIN slots = Slots /\ erasing \in Ids \ {0}
  BY <1>1 DEF IndexInv, TypeOK, ShiftInv, Occupied
<1>3. slots'[hole] = slots[next] /\ \A i \in Slots : i # hole => slots'[i] = slots[i]
  BY <1>2
<1>4. Occupied' = Occupied /\ Entered = Occupied \ {hole} /\ Entered' = Occupied \ {next}
  BY <1>1, <1>2, <1>3 DEF Occupied, Entered
<1>5. next' \in Slots /\ next' # next /\ distance(next, next') = 1  BY <1>1, <1>2, NextSlot
<1>6. \A i \in Slots : i # next => 1 <= distance(next, i)
  BY <1>2, Walk DEF Slots
<1>7. TypeOK'
  <2>1. slots[next] \in [id : Ids \cup {0}, value : Values \cup {0}, occupied : BOOLEAN]
    BY <1>2 DEF IndexInv, TypeOK
  <2> QED  BY <1>1, <1>2, <1>5, <2>1 DEF IndexInv, TypeOK
<1>8. SizeCounts'  BY <1>1, <1>4 DEF IndexInv, SizeCounts
<1>9. next \in Entered  BY <1>1, <1>2, <1>4 DEF Occupied
<1>10. \A i \in Occupied' : slots'[i].id # 0
  BY <1>3, <1>4, <1>9 DEF IndexInv, Occupied
<1>11. \A i, j \in Entered' : slots'[i].id = slots'[j].id => i = j
  <2>1. \A i \in Entered' : i # hole => i \in Entered /\ i # next /\ slots'[i] = slots[i]
    BY <1>3, <1>4 DEF Occupied
  <2>2. \A i, j \in Entered : slots[i].id = slots[j].id => i = j  BY DEF IndexInv
  <2> QED  BY <1>3, <1>9, <2>1, <2>2
<1>12. Chains'
  <2> DEFINE h(i) == home[slots'[i].id]
  <2> SUFFICES ASSUME NEW i \in Occupied \ {next}, NEW j \in Slots, distance(h(i), j) < distance(h(i), i)
               PROVE  slots'[j].occupied /\ distance(next, next') <= distance(next, i)
    BY <1>1, <1>4 DEF Chains, OnTheWay, Slots, distance
  <2>1. distance(next, next') <= distance(next, i)  BY <1>5, <1>6 DEF Occupied
  <2>2. slots[j].occupied => slots'[j].occupied  BY <1>1, <1>3
  <2>3. CASE i # hole
    <3>1. i \in Entered /\ slots'[i] = slots[i]  BY <1>3, <1>4, <2>3 DEF Occupied
    <3>2. slots[j].occupied  BY <3>1, ChainsAreProbes DEF IndexInv, Chains, OnTheWay
    <3> QED  BY <2>1, <2>2, <3>2
  <2>4. CASE i = hole
    <3>1. h(i) = home[slots[next].id] /\ h(i) \in Slots
      BY <1>3, <1>4, <1>9, <2>4, HomeInSlots DEF IndexInv
    <3>2. distance(h(i), j) < distance(h(i), next)
      <4>1. distance(h(i), j) \in Slots /\ distance(h(i), hole) \in Slots /\ distance(h(i), next) \in Slots
        BY <1>2, <3>1, Walk, Zenon
      <4>2. distance(h(i), hole) <= distance(h(i), next) /\ distance(h(i), j) < distance(h(i), hole)
        BY <2>4, <3>1, <4>1 DEF Slots
      <4> QED  BY <4>1, <4>2 DEF Slots
    <3>3. slots[j].occupied  BY <1>9, <3>1, <3>2, ChainsAreProbes DEF IndexInv, Chains, OnTheWay
    <3> QED  BY <2>1, <2>2, <3>3
  <2> QED  BY <2>3, <2>4
<1>13. ProbeChain'  BY <1>7, <1>10, <1>12, ChainsPrimed
<1>14. ShiftInv'
  <2>1. \A j \in Slots : distance(next, j) < distance(next, next') => slots'[j].occupied
    <3>1. \A j \in Slots : distance(next, j) \in Slots /\ (distance(next, j) = 0 => j = next)
      BY <1>2, Walk
    <3> QED  BY <1>1, <1>2, <1>3, <1>5, <3>1 DEF Slots
  <2>2. \A i \in Entered' : slots'[i].id # erasing'
    <3>1. \A i \in Entered : slots[i].id # erasing  BY <1>1 DEF IndexInv, ShiftInv
    <3> QED  BY <1>1, <1>3, <1>4, <1>9, <3>1 DEF Occupied
  <2>3. hole \in Entered' /\ slots'[hole] = slots'[next]
    BY <1>2, <1>3, <1>4 DEF Occupied
  <2>4. next \in Occupied'  BY <1>4, <1>9
  <2> QED  BY <1>1, <1>2, <1>5, <2>1, <2>2, <2>3, <2>4 DEF ShiftInv, Slots, distance
<1> QED  BY <1>7, <1>8, <1>10, <1>11, <1>13, <1>14 DEF IndexInv

(* An entry stays: its home lies between the hole and it.                  *)
LEMMA StayStep ==
    ASSUME IndexInv, Shift, UNCHANGED <<slots, hole>>,
           ~(distance(home[slots[next].id], next) >= distance(home[slots[next].id], hole))
    PROVE  IndexInv'
<1>1. /\ pc = "shift" /\ pc' = "shift" /\ slots[next].occupied /\ next' = Step(next, 1)
      /\ UNCHANGED <<size, home, erasing>>
  BY DEF Shift
<1>2. hole \in Slots /\ next \in Slots /\ hole # next
  BY <1>1 DEF IndexInv, TypeOK, ShiftInv
<1>3. Occupied' = Occupied /\ Entered' = Entered /\ next \in Entered
  BY <1>1, <1>2 DEF Occupied, Entered
<1>4. next' \in Slots /\ next' # hole /\ distance(hole, next') = distance(hole, next) + 1
  BY <1>1, <1>2, LoopStops, NextSlot, OneOn
<1>5. \A i \in Slots : distance(hole, i) \in Int /\ (distance(hole, i) = distance(hole, next) => i = next)
  <2>1. \A i \in Slots : distance(hole, i) \in Slots /\ Step(hole, distance(hole, i)) = i
    BY <1>2, Walk
  <2> QED  BY <1>2, <2>1 DEF Slots
<1>6. TypeOK'  BY <1>1, <1>4 DEF IndexInv, TypeOK
<1>7. SizeCounts'  BY <1>1, <1>3 DEF IndexInv, SizeCounts
<1>8. /\ \A i \in Occupied' : slots'[i].id # 0
      /\ \A i, j \in Entered' : slots'[i].id = slots'[j].id => i = j
  BY <1>3 DEF IndexInv
<1>9. Chains'
  <2> SUFFICES ASSUME NEW i \in Entered, NEW j \in Slots, OnTheWay(i, j)
               PROVE  slots[j].occupied /\ (j = hole => distance(hole, next') <= distance(hole, i))
    BY <1>1, <1>3 DEF Chains, OnTheWay, Slots, distance
  <2>1. slots[j].occupied /\ (j = hole => distance(hole, next) <= distance(hole, i))
    BY <1>1, ChainsAreProbes DEF IndexInv, Chains
  <2>2. j = hole => i # next
    <3> SUFFICES ASSUME j = hole, i = next PROVE FALSE
      OBVIOUS
    <3>1. home[slots[next].id] \in Slots  BY <1>3, HomeInSlots DEF IndexInv, Entered
    <3>2. distance(home[slots[next].id], next) \in Slots /\ distance(home[slots[next].id], hole) \in Slots
      BY <1>2, <3>1, Walk, Zenon
    <3> QED  BY <3>2 DEF OnTheWay, Slots
  <2>3. i \in Slots  BY DEF Entered, Occupied
  <2> QED  BY <1>2, <1>4, <1>5, <2>1, <2>2, <2>3
<1>10. ProbeChain'  BY <1>6, <1>8, <1>9, ChainsPrimed
<1>11. ShiftInv'
  <2>1. \A j \in Slots : distance(hole, j) < distance(hole, next') => slots[j].occupied
    BY <1>1, <1>2, <1>4, <1>5 DEF IndexInv, ShiftInv
  <2> QED  BY <1>1, <1>3, <1>4, <2>1 DEF IndexInv, ShiftInv, Slots, distance
<1> QED  BY <1>6, <1>7, <1>8, <1>10, <1>11 DEF IndexInv

LEMMA ShiftStep ==
    ASSUME IndexInv, Shift
    PROVE  IndexInv'
BY MoveStep, StayStep DEF Shift

LEMMA EndStep ==
    ASSUME IndexInv, ShiftEnd
    PROVE  IndexInv' /\ Occupied' = Entered /\ \A i \in Entered : slots'[i] = slots[i]
<1>1. /\ pc = "shift" /\ ~slots[next].occupied /\ slots' = [slots EXCEPT ![hole] = Free]
      /\ size' = size - 1 /\ pc' = "idle" /\ hole' = 0 /\ next' = 0 /\ erasing' = 0
      /\ UNCHANGED home
  BY DEF ShiftEnd
<1>2. /\ hole \in Slots /\ next \in Slots /\ hole \in Occupied /\ DOMAIN slots = Slots
  BY <1>1 DEF IndexInv, TypeOK, ShiftInv
<1>3. ~slots'[hole].occupied /\ \A i \in Slots : i # hole => slots'[i] = slots[i]
  BY <1>1, <1>2 DEF Free
<1>4. Occupied' = Occupied \ {hole} /\ Entered = Occupied \ {hole} /\ Entered' = Occupied'
  BY <1>1, <1>3 DEF Occupied, Entered
<1>5. SizeCounts' /\ size' \in 0 .. MaxLive
  <2>1. size' \in Nat
    <3>1. Cardinality(Occupied \ {hole}) = size - 1 /\ Cardinality(Occupied \ {hole}) \in Nat
      BY <1>2, SomeFree, FS_RemoveElement, FS_CardinalityType DEF IndexInv, SizeCounts
    <3> QED  BY <1>1, <3>1
  <2> QED  BY <1>1, <1>2, <1>4, <2>1, Counting
<1>6. TypeOK'
  <2>1. Free \in [id : Ids \cup {0}, value : Values \cup {0}, occupied : BOOLEAN]  BY DEF Free
  <2>2. 0 \in Slots  BY IndexAssumption DEF Slots
  <2> QED  BY <1>1, <1>5, <2>1, <2>2 DEF IndexInv, TypeOK
<1>7. /\ \A i \in Occupied' : slots'[i].id # 0
      /\ \A i, j \in Entered' : slots'[i].id = slots'[j].id => i = j
  BY <1>3, <1>4 DEF IndexInv, Occupied
<1>8. Chains'
  <2> SUFFICES ASSUME NEW i \in Entered, NEW j \in Slots, OnTheWay(i, j)
               PROVE  slots[j].occupied /\ j # hole
    BY <1>1, <1>3, <1>4 DEF Chains, OnTheWay, Slots, distance, Occupied
  <2>1. slots[j].occupied /\ (j = hole => distance(hole, next) <= distance(hole, i))
    BY <1>1, ChainsAreProbes DEF IndexInv, Chains
  <2>2. ASSUME j = hole PROVE FALSE
    <3> DEFINE h == home[slots[i].id]
    <3>1. h \in Slots /\ i \in Slots /\ slots[i].occupied
      BY HomeInSlots DEF IndexInv, Entered, Occupied
    <3>2. distance(h, hole) < distance(h, i) /\ i # next
      BY <1>1, <2>2, <3>1 DEF OnTheWay
    <3>3. distance(h, next) < distance(h, i)
      BY <1>2, <2>1, <2>2, <3>1, <3>2, Between
    <3>4. OnTheWay(i, next)  BY <3>3 DEF OnTheWay
    <3>5. Chains  BY ChainsAreProbes DEF IndexInv
    <3>6. slots[next].occupied  BY <1>2, <3>4, <3>5 DEF Chains
    <3> QED  BY <1>1, <3>6
  <2> QED  BY <2>1, <2>2
<1>9. ProbeChain'  BY <1>6, <1>7, <1>8, ChainsPrimed
<1>10. ShiftInv'  BY <1>1 DEF ShiftInv
<1> QED  BY <1>3, <1>4, <1>5, <1>6, <1>7, <1>9, <1>10 DEF IndexInv, Occupied

LEMMA InitHolds ==
    ASSUME Init
    PROVE  IndexInv
<1>1. Occupied = {} /\ Entered = {}  BY DEF Init, Occupied, Entered, Free
<1>2. SizeCounts  BY <1>1, FS_EmptySet, IndexAssumption DEF Init, SizeCounts
<1>3. TypeOK
  <2>1. Free \in [id : Ids \cup {0}, value : Values \cup {0}, occupied : BOOLEAN]  BY DEF Free
  <2>2. 0 \in Slots /\ 0 \in 0 .. MaxLive  BY IndexAssumption DEF Slots
  <2> QED  BY <2>1, <2>2 DEF Init, TypeOK
<1>4. ProbeChain  BY <1>1 DEF ProbeChain, Entered
<1>5. ShiftInv  BY DEF Init, ShiftInv
<1> QED  BY <1>1, <1>2, <1>3, <1>4, <1>5 DEF IndexInv

LEMMA NextHolds ==
    ASSUME IndexInv, [Next]_indexVars
    PROVE  IndexInv'
<1>1. ASSUME NEW id \in Ids, NEW value \in Values, insert(id, value) PROVE IndexInv'
  BY <1>1, InsertStep
<1>2. ASSUME NEW id \in Ids, NEW value \in Values, Update(id, value) PROVE IndexInv'
  BY <1>2, UpdateStep
<1>3. ASSUME NEW id \in Ids, erase(id) PROVE IndexInv'
  BY <1>3, EraseStep
<1>4. CASE Shift  BY <1>4, ShiftStep
<1>5. CASE ShiftEnd  BY <1>5, EndStep
<1>6. CASE UNCHANGED indexVars
  <2>1. UNCHANGED <<slots, size, home, pc, hole, next, erasing>>  BY <1>6 DEF indexVars
  <2>2. Occupied' = Occupied /\ Entered' = Entered  BY <2>1 DEF Occupied, Entered
  <2>3. TypeOK'  BY <2>1 DEF IndexInv, TypeOK
  <2>4. ProbeChain'  BY <2>1, <2>2 DEF IndexInv, ProbeChain
  <2>5. SizeCounts'  BY <2>1, <2>2 DEF IndexInv, SizeCounts
  <2>6. ShiftInv'  BY <2>1, <2>2 DEF IndexInv, ShiftInv
  <2> QED  BY <2>1, <2>2, <2>3, <2>4, <2>5, <2>6 DEF IndexInv
<1> QED  BY <1>1, <1>2, <1>3, <1>4, <1>5, <1>6 DEF Next

-----------------------------------------------------------------------------
(* Backward-shift erasure keeps every probe chain whole, between calls and *)
(* at every probe of the loop of erase_at (fixed_order_index.hpp:179-192). *)
THEOREM ProbeChainsHold == Spec => []ProbeChain
<1>1. Init => IndexInv  BY InitHolds
<1>2. IndexInv /\ [Next]_indexVars => IndexInv'  BY NextHolds
<1>3. IndexInv => ProbeChain  BY DEF IndexInv
<1> QED  BY <1>1, <1>2, <1>3, PTL DEF Spec

(* insert, erase and the shifts keep the types; in particular size_ never  *)
(* exceeds maximum_live_entries_.                                          *)
THEOREM TypeCorrect == Spec => []TypeOK
<1>1. Init => IndexInv  BY InitHolds
<1>2. IndexInv /\ [Next]_indexVars => IndexInv'  BY NextHolds
<1>3. IndexInv => TypeOK  BY DEF IndexInv
<1> QED  BY <1>1, <1>2, <1>3, PTL DEF Spec

(* size_ counts the occupied slots and never exceeds half of the table, so *)
(* that every probe meets a free slot.                                     *)
THEOREM SizesHold == Spec => []SizeCounts
<1>1. Init => IndexInv  BY InitHolds
<1>2. IndexInv /\ [Next]_indexVars => IndexInv'  BY NextHolds
<1>3. IndexInv => SizeCounts  BY DEF IndexInv
<1> QED  BY <1>1, <1>2, <1>3, PTL DEF Spec

(* The entries are those of the slots that hold one.                       *)
LEMMA EnteredEntries ==
    ASSUME IndexInv
    PROVE  Entries = {<<slots[i].id, slots[i].value>> : i \in Entered}
<1>1. CASE pc # "shift"
  <2>1. Entered = Occupied /\ erasing = 0  BY <1>1 DEF IndexInv, ShiftInv, Entered
  <2> QED  BY <2>1 DEF IndexInv, Entries
<1>2. CASE pc = "shift"
  <2>1. /\ hole \in Occupied /\ Entered = Occupied \ {hole}
        /\ \A i \in Entered : slots[i].id # erasing
        /\ slots[hole].id = erasing \/ \E i \in Entered : slots[i] = slots[hole]
    BY <1>2 DEF IndexInv, ShiftInv, Entered
  <2> QED  BY <2>1 DEF Entries
<1> QED  BY <1>1, <1>2

(* find returns the record last stored for every live id, and nothing for  *)
(* any other id (find_slot, fixed_order_index.hpp:157-171).                *)
THEOREM FindsExactlyTheLive == Spec => []FindAgrees
<1>1. Init => IndexInv  BY InitHolds
<1>2. IndexInv /\ [Next]_indexVars => IndexInv'  BY NextHolds
<1>3. IndexInv => FindAgrees
  <2> SUFFICES ASSUME IndexInv, pc = "idle", NEW id \in Ids
               PROVE  {<<id, slots[i].value>> : i \in find_slot(id)} = {e \in Entries : e[1] = id}
    BY DEF FindAgrees
  <2>1. Entered = Occupied  BY DEF Entered
  <2>2. Entries = {<<slots[i].id, slots[i].value>> : i \in Occupied}  BY <2>1, EnteredEntries
  <2>3. find_slot(id) = {i \in Occupied : slots[i].id = id}  BY FindSlot
  <2> QED  BY <2>2, <2>3
<1> QED  BY <1>1, <1>2, <1>3, PTL DEF Spec

-----------------------------------------------------------------------------
(* The steps of the map.                                                   *)
LEMMA FewEntries ==
    ASSUME IndexInv
    PROVE  Cardinality(Entries) <= size /\ Cardinality(Entries) \in Nat
<1> DEFINE S == {j \in Occupied : slots[j].id # erasing}
           f == [i \in S |-> <<slots[i].id, slots[i].value>>]
<1>1. IsFiniteSet(Occupied) /\ Cardinality(Occupied) = size  BY SomeFree DEF IndexInv, SizeCounts
<1>2. IsFiniteSet(S) /\ Cardinality(S) <= size /\ Cardinality(S) \in Nat
  BY <1>1, FS_Subset, FS_CardinalityType
<1>3. f \in Surjection(S, Entries)  BY DEF Surjection, Entries
<1>4. IsFiniteSet(Entries) /\ Cardinality(Entries) <= Cardinality(S)  BY <1>2, <1>3, FS_Surjection
<1>5. size \in Nat  BY <1>1, FS_CardinalityType
<1>6. Cardinality(Entries) \in Nat  BY <1>4, FS_CardinalityType
<1> QED  BY <1>2, <1>4, <1>5, <1>6

LEMMA InsertsEntry ==
    ASSUME IndexInv, NEW id \in Ids, NEW value \in Values, insert(id, value)
    PROVE  Map!Insert(id, value)
<1>1. PICK k \in ProbeEnd(id) :
        /\ ~slots[Step(home[id], k)].occupied
        /\ slots' = [slots EXCEPT ![Step(home[id], k)] = [id |-> id, value |-> value, occupied |-> TRUE]]
  BY Zenon DEF insert
<1> DEFINE e == Step(home[id], k)
<1>2. /\ pc = "idle" /\ pc' = "idle" /\ id # 0 /\ size # MaxLive /\ UNCHANGED erasing
  BY DEF insert
<1>3. e \in Slots /\ \A i \in Occupied : slots[i].id # id
  BY <1>1, <1>2, FirstEnd DEF Occupied
<1> HIDE DEF e
<1>4. /\ slots' = [slots EXCEPT ![e] = [id |-> id, value |-> value, occupied |-> TRUE]]
      /\ e \notin Occupied /\ DOMAIN slots = Slots /\ erasing = 0
  BY <1>1, <1>2 DEF e, Occupied, IndexInv, TypeOK, ShiftInv
<1>5. /\ slots'[e] = [id |-> id, value |-> value, occupied |-> TRUE]
      /\ \A i \in Slots : i # e => slots'[i] = slots[i]
  BY <1>3, <1>4
<1>6. Occupied' = Occupied \cup {e}  BY <1>3, <1>5 DEF Occupied
<1>7. Entries' = Entries \cup {<<id, value>>}
  BY <1>2, <1>4, <1>5, <1>6 DEF Entries, Occupied
<1>8. ~Map!Live(id)  BY <1>3 DEF Map!Live, Entries
<1>9. Cardinality(Entries) < MaxLive
  <2>1. size \in 0 .. MaxLive  BY DEF IndexInv, TypeOK
  <2> QED  BY <1>2, <2>1, FewEntries, IndexAssumption
<1>10. Map!Cardinality(Entries) = Cardinality(Entries)  BY Zenon DEF Map!Cardinality, Cardinality
<1> QED  BY <1>2, <1>7, <1>8, <1>9, <1>10 DEF Map!Insert

LEMMA UpdatesEntry ==
    ASSUME IndexInv, NEW id \in Ids, NEW value \in Values, Update(id, value)
    PROVE  Map!Update(id, value)
<1>1. PICK e \in find_slot(id) : slots' = [slots EXCEPT ![e].value = value]
  BY Zenon DEF Update
<1>2. pc = "idle" /\ UNCHANGED erasing /\ erasing = 0  BY DEF Update, IndexInv, ShiftInv
<1>3. e \in Occupied /\ slots[e].id = id /\ e \in Slots /\ DOMAIN slots = Slots /\ id # 0
  BY <1>2, FindSlot DEF Occupied, IndexInv, TypeOK
<1>4. slots[e] \in [id : Ids \cup {0}, value : Values \cup {0}, occupied : BOOLEAN]
  BY <1>3 DEF IndexInv, TypeOK
<1>5. slots'[e] = [slots[e] EXCEPT !.value = value] /\ \A i \in Slots : i # e => slots'[i] = slots[i]
  BY <1>1, <1>3
<1>6. /\ slots'[e].id = id /\ slots'[e].value = value
      /\ \A i \in Slots : slots'[i].id = slots[i].id /\ slots'[i].occupied = slots[i].occupied
  BY <1>3, <1>4, <1>5
<1>7. Occupied' = Occupied  BY <1>6 DEF Occupied
<1>8. \A i \in Occupied : slots[i].id # 0 /\ (slots[i].id = id => i = e)
  BY <1>2, <1>3 DEF IndexInv, Entered
<1>9. Entries' = Map!Without(id) \cup {<<id, value>>}
  <2>1. ASSUME NEW p \in Entries' PROVE p \in Map!Without(id) \cup {<<id, value>>}
    <3>1. PICK i \in Occupied : p = <<slots'[i].id, slots'[i].value>>
      BY <1>7 DEF Entries
    <3>2. CASE i = e  BY <1>6, <3>1, <3>2
    <3>3. CASE i # e
      <4>1. p = <<slots[i].id, slots[i].value>>  BY <1>5, <3>1, <3>3 DEF Occupied
      <4> QED  BY <1>2, <1>8, <3>3, <4>1 DEF Entries, Map!Without
    <3> QED  BY <3>2, <3>3
  <2>2. ASSUME NEW p \in Map!Without(id) PROVE p \in Entries'
    <3>1. PICK i \in Occupied : p = <<slots[i].id, slots[i].value>> /\ slots[i].id # id
      BY DEF Entries, Map!Without
    <3>2. slots'[i] = slots[i]  BY <1>3, <1>5, <3>1 DEF Occupied
    <3> QED  BY <1>2, <1>7, <1>8, <3>1, <3>2 DEF Entries
  <2>3. <<id, value>> \in Entries'  BY <1>2, <1>3, <1>6, <1>7 DEF Entries
  <2> QED  BY <2>1, <2>2, <2>3
<1>10. <<id, slots[e].value>> \in Entries  BY <1>2, <1>3 DEF Entries
<1>11. Map!Live(id)  BY <1>10 DEF Map!Live
<1> QED  BY <1>9, <1>11 DEF Map!Update

LEMMA ErasesEntry ==
    ASSUME IndexInv, NEW id \in Ids, erase(id)
    PROVE  Map!Erase(id)
<1>1. /\ pc = "idle" /\ erasing = 0 /\ erasing' = id /\ UNCHANGED slots
      /\ \E i \in Occupied : slots[i].id = id
  BY FindSlot DEF erase, IndexInv, ShiftInv
<1>2. Occupied' = Occupied  BY <1>1 DEF Occupied
<1>3. \A i \in Occupied : slots[i].id # 0  BY DEF IndexInv
<1>4. Map!Live(id)
  <2>1. PICK i \in Occupied : slots[i].id = id  BY <1>1
  <2>2. <<id, slots[i].value>> \in Entries  BY <1>1, <1>3, <2>1 DEF Entries
  <2> QED  BY <2>2 DEF Map!Live
<1>5. Entries' = Map!Without(id)  BY <1>1, <1>2, <1>3 DEF Map!Without, Entries
<1> QED  BY <1>4, <1>5 DEF Map!Erase

LEMMA ShiftsKeepEntries ==
    ASSUME IndexInv, Shift
    PROVE  Entries' = Entries
<1>1. pc = "shift" /\ slots[next].occupied /\ UNCHANGED erasing  BY DEF Shift
<1>2. /\ hole \in Slots /\ next \in Slots /\ hole # next /\ hole \in Occupied
      /\ DOMAIN slots = Slots /\ Entered = Occupied \ {hole}
      /\ slots[hole].id = erasing \/ \E i \in Entered : slots[i] = slots[hole]
  BY <1>1 DEF IndexInv, TypeOK, ShiftInv, Entered
<1>3. CASE UNCHANGED slots  BY <1>1, <1>3 DEF Entries, Occupied
<1>4. CASE slots' = [slots EXCEPT ![hole] = slots[next]]
  <2>1. slots'[hole] = slots[next] /\ \A i \in Slots : i # hole => slots'[i] = slots[i]
    BY <1>2, <1>4
  <2>2. Occupied' = Occupied /\ next \in Occupied  BY <1>1, <1>2, <2>1 DEF Occupied
  <2>3. ASSUME NEW p \in Entries PROVE p \in Entries'
    <3>1. PICK i \in Entered : p = <<slots[i].id, slots[i].value>> /\ slots[i].id # erasing
      BY <1>2 DEF Entries
    <3> QED  BY <1>1, <1>2, <2>1, <2>2, <3>1 DEF Entries, Occupied
  <2>4. ASSUME NEW p \in Entries' PROVE p \in Entries
    <3>1. PICK i \in Occupied : p = <<slots'[i].id, slots'[i].value>> /\ slots'[i].id # erasing
      BY <1>1, <2>2 DEF Entries
    <3>2. slots'[i] = slots[i] \/ slots'[i] = slots[next]  BY <2>1 DEF Occupied
    <3> QED  BY <2>2, <3>1, <3>2 DEF Entries
  <2> QED  BY <2>3, <2>4
<1> QED  BY <1>3, <1>4 DEF Shift

LEMMA EndKeepsEntries ==
    ASSUME IndexInv, ShiftEnd
    PROVE  Entries' = Entries
<1>1. Occupied' = Entered /\ erasing' = 0 /\ \A i \in Entered : slots'[i] = slots[i]
  BY EndStep DEF ShiftEnd
<1>2. \A i \in Entered : slots[i].id # 0  BY DEF IndexInv, Entered
<1>3. Entries' = {<<slots[i].id, slots[i].value>> : i \in Entered}
  BY <1>1, <1>2 DEF Entries
<1> QED  BY <1>3, EnteredEntries

(* Whatever the hash and the history of collisions, the table is a bounded *)
(* map: an insert, an update and an erase change the entry they name and   *)
(* no other, and the shifts change none (fixed_order_index.hpp:78-192).    *)
THEOREM ImplementsMap == Spec => MapSpec
<1>1. Init => IndexInv  BY InitHolds
<1>2. IndexInv /\ [Next]_indexVars => IndexInv'  BY NextHolds
<1>3. Init => Map!Init  BY DEF Init, Map!Init, Entries, Occupied, Free
<1>4. ASSUME IndexInv, [Next]_indexVars PROVE [Map!Next]_Entries
  <2>1. ASSUME NEW id \in Ids, NEW value \in Values, insert(id, value) PROVE Map!Next
    BY <1>4, <2>1, InsertsEntry DEF Map!Next
  <2>2. ASSUME NEW id \in Ids, NEW value \in Values, Update(id, value) PROVE Map!Next
    BY <1>4, <2>2, UpdatesEntry DEF Map!Next
  <2>3. ASSUME NEW id \in Ids, erase(id) PROVE Map!Next
    BY <1>4, <2>3, ErasesEntry DEF Map!Next
  <2>4. CASE Shift  BY <1>4, <2>4, ShiftsKeepEntries
  <2>5. CASE ShiftEnd  BY <1>4, <2>5, EndKeepsEntries
  <2>6. CASE UNCHANGED indexVars  BY <2>6 DEF indexVars, Entries, Occupied
  <2> QED  BY <1>4, <2>1, <2>2, <2>3, <2>4, <2>5, <2>6 DEF Next
<1> QED  BY <1>1, <1>2, <1>3, <1>4, PTL DEF Spec, MapSpec, Map!Spec
=============================================================================
