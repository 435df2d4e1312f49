------------------------- MODULE L3OperationProofs -------------------------
(***************************************************************************)
(* The operations of the six L3 books.  A book represents a map of live    *)
(* orders: its levels are the sums of their quantities, its index holds    *)
(* them, and they are within its limits.  add, remove, cancel, execute and *)
(* upsert keep it so, or throw exactly when they should.                   *)
(***************************************************************************)
EXTENDS L3Books, L3LevelProofs, L3IndexProofs

(* A version has the price.                                                *)
Priced(v, o) == v \in Ladders => InLadder(o.price)

(* The levels of the book b of version v are the quantities S ...          *)
LevelsOf(v, b, S) == IF v = "v1" THEN MapLevels(b, S)
                     ELSE IF v = "v2" THEN ArrayLevels(b, S)
                     ELSE IF v = "v3" THEN CachedLadder(b, S)
                     ELSE MarkedLadder(b, S)

(* ... and with its index it represents the live orders O.                 *)
Represents(v, m, b, O) == /\ RoomFor(v, m, O)
                          /\ LevelsOf(v, b, Sums(O))
                          /\ IndexOf(v, m, b, O)

(* The levels of a book that threw are the quantities of some orders.      *)
LevelsLeft(v, b) == \E S \in Quantities : LevelsOf(v, b, S)

-----------------------------------------------------------------------------
(* The level operations of a version.                                      *)
LevelAdd(v, b, o) == CASE v = "v1" -> add_to_level_v1(b, o) [] v = "v2" -> add_to_level_v2(b, o)
                       [] v = "v3" -> add_level_v3(b, o)    [] v = "v4" -> add_level_v4(b, o)
                       [] v = "v5" -> add_level_v5(b, o)    [] v = "v6" -> add_level_v6(b, o)

LevelSubtract(v, b, o) ==
    CASE v = "v1" -> subtract_from_level_v1(b, o) [] v = "v2" -> subtract_from_level_v2(b, o)
      [] v = "v3" -> subtract_level_v3(b, o)      [] v = "v4" -> subtract_level_v4(b, o)
      [] v = "v5" -> subtract_level_v5(b, o)      [] v = "v6" -> subtract_level_v6(b, o)

(* Adding to a level succeeds exactly if the version has the price and the *)
(* sum fits a quantity; otherwise it throws and the book is as it was.     *)
LEMMA LevelAdds ==
    ASSUME NEW v \in Versions, NEW S \in Quantities, NEW b, LevelsOf(v, b, S), NEW o \in LiveOrder
    PROVE  LET r == LevelAdd(v, b, o)
               fine == Priced(v, o) /\ S[o.side][o.price] + o.quantity <= MaxQuantity
           IN  /\ fine => \E c : r = Return(c) /\ LevelsOf(v, c, Plus(S, o)) /\ SameIndex(b, c)
               /\ ~fine => r = Throw(b)
<1> USE Zenon
<1>1. CASE v = "v1"  BY <1>1, AddToMap DEF LevelAdd, LevelsOf, Priced, Ladders
<1>2. CASE v = "v2"
  <2>1. SameElsewhere(S, Plus(S, o), o.side, o.price)  BY PlusAt, SMT DEF SameElsewhere
  <2>2. Plus(S, o)[o.side][o.price] = S[o.side][o.price] + o.quantity  BY PlusAt, OrderType
  <2> USE <1>2
  <2>3. ArrayLevels(b, S)  BY DEF LevelsOf
  <2> QED  BY <2>1, <2>2, <2>3, AddToArray DEF LevelAdd, LevelsOf, Priced, Ladders
<1>3. CASE v = "v3"  BY <1>3, AddToCached DEF LevelAdd, LevelsOf, Priced, Ladders
<1>4. CASE v = "v4"  BY <1>4, AddToMarked DEF LevelAdd, LevelsOf, Priced, Ladders
<1>5. CASE v = "v5"
  BY <1>5, AddToMarked DEF LevelAdd, LevelsOf, Priced, Ladders, add_level_v5
<1>6. CASE v = "v6"
  BY <1>6, AddToMarked DEF LevelAdd, LevelsOf, Priced, Ladders, add_level_v6
<1> QED  BY <1>1, <1>2, <1>3, <1>4, <1>5, <1>6 DEF Versions

(* Subtracting what a level has always succeeds.                           *)
LEMMA LevelSubtracts ==
    ASSUME NEW v \in Versions, NEW S \in Quantities, NEW b, LevelsOf(v, b, S), NEW o \in LiveOrder,
           o.quantity <= S[o.side][o.price]
    PROVE  \E c : /\ LevelSubtract(v, b, o) = Return(c)
                  /\ LevelsOf(v, c, Minus(S, o)) /\ SameIndex(b, c)
<1> USE Zenon
<1>1. CASE v = "v1"  BY <1>1, SubtractFromMap DEF LevelSubtract, LevelsOf
<1>2. CASE v = "v2"
  <2>1. SameElsewhere(S, Minus(S, o), o.side, o.price)  BY MinusAt, SMT DEF SameElsewhere
  <2>2. Minus(S, o)[o.side][o.price] = S[o.side][o.price] - o.quantity
    BY MinusAt, OrderType
  <2> USE <1>2
  <2>3. ArrayLevels(b, S)  BY DEF LevelsOf
  <2> QED  BY <2>1, <2>2, <2>3, SubtractFromArray DEF LevelSubtract, LevelsOf
<1>3. CASE v = "v3"  BY <1>3, SubtractFromCached DEF LevelSubtract, LevelsOf
<1>4. CASE v = "v4"  BY <1>4, SubtractFromMarked DEF LevelSubtract, LevelsOf
<1>5. CASE v = "v5"
  BY <1>5, SubtractFromMarked DEF LevelSubtract, LevelsOf, subtract_level_v5
<1>6. CASE v = "v6"
  BY <1>6, SubtractFromMarked DEF LevelSubtract, LevelsOf, subtract_level_v6
<1> QED  BY <1>1, <1>2, <1>3, <1>4, <1>5, <1>6 DEF Versions

(* An operation on the index leaves the levels as they were.               *)
LEMMA LevelsKept ==
    ASSUME NEW v \in Versions, NEW b, NEW S, LevelsOf(v, b, S), NEW c, SameLevels(b, c)
    PROVE  LevelsOf(v, c, S)
<1> USE Zenon
<1>1. CASE v = "v1"  BY <1>1 DEF LevelsOf, SameLevels, MapLevels
<1>2. CASE v = "v2"  BY <1>2 DEF LevelsOf, SameLevels, ArrayLevels
<1>3. ASSUME v \notin {"v1", "v2"}
      PROVE  LadderOf(c, S) /\ c.ladder = b.ladder /\ "ladder" \in DOMAIN b
  <2>1. LadderOf(b, S)  BY <1>3 DEF LevelsOf, CachedLadder, MarkedLadder
  <2> QED  BY <2>1, SMT DEF LadderOf, SameLevels
<1> USE <1>3
<1>4. CASE v = "v3"
  <2> USE <1>4
  <2>1. "best" \in DOMAIN c /\ c.best = b.best  BY DEF LevelsOf, SameLevels, CachedLadder
  <2>2. \A side \in Sides : OccupiedOffsets(c, side) = OccupiedOffsets(b, side)
    BY DEF OccupiedOffsets
  <2>3. CachedLadder(b, S)  BY DEF LevelsOf
  <2>4. CachedLadder(c, S)  BY <2>1, <2>2, <2>3 DEF CachedLadder
  <2> QED  BY <2>4 DEF LevelsOf
<1>5. CASE v \in Bitmaps
  <2> USE <1>5
  <2>1. LadderBook(b)  BY DEF LevelsOf, MarkedLadder, Bitmaps
  <2> USE <2>1
  <2>2. c.occupied = b.occupied /\ "occupied" \in DOMAIN c /\ "ladder" \in DOMAIN c
    BY DEF SameLevels, LadderBook
  <2>3. c.ladder = b.ladder  BY DEF Bitmaps
  <2>4. LadderBook(c)  BY <2>2, <2>3 DEF LadderBook, Marked
  <2> QED  BY <2>4 DEF LevelsOf, MarkedLadder, Bitmaps
<1> QED  BY <1>1, <1>2, <1>4, <1>5 DEF Versions, Bitmaps

(* The operations of a version.                                            *)
AddTo(v, b, id, o) ==
    CASE v = "v1" -> add_order_v1(b, id, o) [] v = "v2" -> add_order_v2(b, id, o)
      [] v = "v3" -> add_order_v3(b, id, o) [] v = "v4" -> add_v4(b, id, o)
      [] v = "v5" -> add_v5(b, id, o)       [] v = "v6" -> add_v6(b, id, o)

RemoveFrom(v, b, id) ==
    CASE v = "v1" -> remove_order_v1(b, id) [] v = "v2" -> remove_order_v2(b, id)
      [] v = "v3" -> remove_order_v3(b, id) [] v = "v4" -> remove_v4(b, id)
      [] v = "v5" -> remove_v5(b, id)       [] v = "v6" -> remove_v6(b, id)

ReduceIn(v, b, id, quantity, full) ==
    CASE v = "v1" -> subtract_from_order_v1(b, id, quantity, full)
      [] v = "v2" -> subtract_from_order_v2(b, id, quantity, full)
      [] v = "v3" -> reduce_v3(b, id, quantity, full)
      [] v = "v4" -> reduce_v4(b, id, quantity, full)
      [] v = "v5" -> reduce_v5(b, id, quantity, full)
      [] v = "v6" -> reduce_v6(b, id, quantity, full)

UpsertIn(v, b, id, o) ==
    CASE v = "v1" -> upsert_order_v1(b, id, o) [] v = "v2" -> upsert_order_v2(b, id, o)
      [] v = "v3" -> upsert_v3(b, id, o)       [] v = "v4" -> upsert_v4(b, id, o)
      [] v = "v5" -> upsert_v5(b, id, o)       [] v = "v6" -> upsert_v6(b, id, o)

-----------------------------------------------------------------------------
(* One form for each operation: what the six versions check, and in which  *)
(* order they change the levels and the index.                             *)
RemoveForm(v, b, id) ==
    LET l == LevelSubtract(v, b, Held(v, b, id))
    IN  IF ~Known(v, b, id) THEN Throw(b)
        ELSE IF l.threw THEN l ELSE Return(Leave(v, b, l.book, id))

ReduceForm(v, b, id, quantity, full) ==
    LET l == LevelSubtract(v, b, Part(Held(v, b, id), quantity))
    IN  IF ~Known(v, b, id) THEN Throw(b)
        ELSE IF InvalidReduction(Kept(v, b, id), quantity, full) THEN Throw(b)
        ELSE IF l.threw THEN l
        ELSE IF quantity = Kept(v, b, id).quantity THEN Return(Leave(v, b, l.book, id))
        ELSE Return(Reduce(v, b, l.book, id, quantity))

Blocked(v, b, id, o) == \/ id = 0 \/ o.quantity = 0
                        \/ v \in {"v4", "v6"} /\ ~InLadder(o.price)
                        \/ Full(v, b, id)

AddForm(v, b, id, o) ==
    LET l == LevelAdd(v, b, o)
    IN  IF Blocked(v, b, id, o) THEN Throw(b)
        ELSE IF l.threw THEN l ELSE Return(Enter(v, b, l.book, id, Stored(v, o)))

FixedAddForm(v, b, id, o) ==
    LET l == LevelAdd(v, Enter(v, b, b, id, Stored(v, o)), o)
    IN  IF Blocked(v, b, id, o) THEN Throw(b)
        ELSE IF l.threw THEN l ELSE Return([l.book EXCEPT !.live = @ + 1])

MapUpsertForm(b, id, o) ==
    LET l == IF Known("v1", b, id) THEN LevelSubtract("v1", b, Held("v1", b, id)) ELSE Return(b)
    IN  IF id = 0 \/ o.quantity = 0 THEN Throw(b)
        ELSE IF l.threw THEN l ELSE LevelAdd("v1", Enter("v1", b, l.book, id, o), o)

UpsertForm(v, b, id, o) ==
    LET l == LevelSubtract(v, b, Held(v, b, id))
        k == LevelAdd(v, l.book, o)
    IN  IF id = 0 \/ o.quantity = 0 THEN Throw(b)
        ELSE IF ~Known(v, b, id) THEN AddTo(v, b, id, o)
        ELSE IF v = "v4" /\ ~InLadder(o.price) THEN Throw(b)
        ELSE IF l.threw THEN l
        ELSE IF k.threw THEN k ELSE Return(Store(v, b, k.book, id, Stored(v, o)))

(* remove of each version has this form, ...                               *)
LEMMA RemoveIs ==
    ASSUME NEW v \in Versions, NEW b, NEW id
    PROVE  RemoveFrom(v, b, id) = RemoveForm(v, b, id)
<1> USE DEF RemoveFrom, RemoveForm, LevelSubtract, Known, Held, Kept, Leave, SlotOf, Tables,
            WithSlot, Then
<1>1. CASE v = "v1"  BY <1>1 DEF remove_order_v1
<1>2. CASE v = "v2"  BY <1>2 DEF remove_order_v2, require_slot_v2
<1>3. CASE v = "v3"  BY <1>3 DEF remove_order_v3, require_v3, find_v3
<1>4. CASE v = "v4"  BY <1>4 DEF remove_v4, find_v4
<1>5. CASE v = "v5"  BY <1>5 DEF remove_v5
<1>6. CASE v = "v6"  BY <1>6 DEF remove_v6
<1> QED  BY <1>1, <1>2, <1>3, <1>4, <1>5, <1>6, Zenon DEF Versions

(* ... cancel and execute have this one, ...                               *)
LEMMA ReduceIs ==
    ASSUME NEW v \in Versions, NEW b, NEW id, NEW quantity, NEW full
    PROVE  ReduceIn(v, b, id, quantity, full) = ReduceForm(v, b, id, quantity, full)
<1> USE Zenon
<1> USE DEF ReduceIn, ReduceForm, LevelSubtract, Known, Held, Kept, Leave, Reduce, Rest, Part,
            SlotOf, Tables, WithSlot, Then
<1>1. CASE v = "v1"  BY <1>1 DEF subtract_from_order_v1
<1>2. CASE v = "v2"  BY <1>2 DEF subtract_from_order_v2, require_slot_v2
<1>3. CASE v = "v3"  BY <1>3 DEF reduce_v3, require_v3, find_v3
<1>4. CASE v = "v4"  BY <1>4 DEF reduce_v4, find_v4, InvalidReduction, Unpack
<1>5. CASE v = "v5"  BY <1>5 DEF reduce_v5
<1>6. CASE v = "v6"  BY <1>6 DEF reduce_v6
<1> QED  BY <1>1, <1>2, <1>3, <1>4, <1>5, <1>6 DEF Versions

(* ... add one of two (v5 and v6 enter the order before they add to the    *)
(* level) ...                                                              *)
LEMMA AddIs ==
    ASSUME NEW v \in Versions, NEW b, NEW id, NEW o
    PROVE  AddTo(v, b, id, o) = IF v \in Fixed THEN FixedAddForm(v, b, id, o)
                                ELSE AddForm(v, b, id, o)
<1> USE DEF AddTo, AddForm, FixedAddForm, Blocked, Full, LevelAdd, Enter, Stored, FreeSlot, Filled,
            Tables, Fixed, WithSlot, Then
<1>1. CASE v = "v1"  BY <1>1 DEF add_order_v1
<1>2. CASE v = "v2"  BY <1>2 DEF add_order_v2
<1>3. CASE v = "v3"  BY <1>3 DEF add_order_v3, insert_slot_v3
<1>4. CASE v = "v4"  BY <1>4 DEF add_v4, insertion_v4
<1>5. CASE v = "v5"  BY <1>5 DEF add_v5
<1>6. CASE v = "v6"  BY <1>6 DEF add_v6
<1> QED  BY <1>1, <1>2, <1>3, <1>4, <1>5, <1>6, Zenon DEF Versions

(* ... and so has upsert, where v1 does not look for a live order first.   *)
LEMMA UpsertIs ==
    ASSUME NEW v \in Versions, NEW b, NEW id, NEW o
    PROVE  UpsertIn(v, b, id, o) = IF v = "v1" THEN MapUpsertForm(b, id, o)
                                   ELSE UpsertForm(v, b, id, o)
<1> USE Zenon
<1> USE DEF UpsertIn, UpsertForm, MapUpsertForm, AddTo, LevelAdd, LevelSubtract, Known, Held, Kept,
            Enter, SlotOf, Tables, WithSlot, Then
<1>1. CASE v = "v1"  BY <1>1 DEF upsert_order_v1
<1>2. CASE v = "v2"
  <2> USE <1>2
  <2>1. \A c : Store(v, b, c, id, Stored(v, o)) =
              [c EXCEPT !.slots[CHOOSE i \in find_slot(b.slots, id) : TRUE].order = o]
    BY DEF Store, Stored, Restored
  <2> QED  BY <2>1 DEF upsert_order_v2, require_slot_v2
<1>3. CASE v = "v3"
  <2> USE <1>3
  <2>1. \A c : Store(v, b, c, id, Stored(v, o)) =
              [c EXCEPT !.slots[CHOOSE i \in find_slot(b.slots, id) : TRUE].order = o]
    BY DEF Store, Stored, Restored
  <2> QED  BY <2>1 DEF upsert_v3, require_v3, find_v3
<1>4. CASE v = "v4"
  <2> USE <1>4
  <2>1. \A c : Store(v, b, c, id, Stored(v, o)) =
              [c EXCEPT !.slots[CHOOSE i \in find_slot(b.slots, id) : TRUE].order = make(o)]
    BY DEF Store, Stored, Restored
  <2> QED  BY <2>1 DEF upsert_v4, find_v4
<1>5. CASE v = "v5"  BY <1>5 DEF upsert_v5, Store, Stored
<1>6. CASE v = "v6"  BY <1>6 DEF upsert_v6, Store, Stored
<1> QED  BY <1>1, <1>2, <1>3, <1>4, <1>5, <1>6 DEF Versions

(* What a call returned or threw.                                          *)
LEMMA CallResults ==
    ASSUME NEW c
    PROVE  /\ Return(c).threw = FALSE /\ Return(c).book = c
           /\ Throw(c).threw = TRUE /\ Throw(c).book = c
BY DEF Return, Throw

(* A version has a map, a table with tombstones or the fixed index.        *)
LEMMA VersionKinds ==
    ASSUME NEW v \in Versions
    PROVE  v = "v1" \/ v \in Tables \/ v \in Fixed
BY DEF Versions, Tables, Fixed

(* The orders that v4 and v6 pack have prices in the ladder.               *)
LEMMA OrdersPriced ==
    ASSUME NEW v \in Versions, NEW b, NEW O, Valid(O), LevelsOf(v, b, Sums(O)), NEW id \in DOMAIN O
    PROVE  v \in {"v4", "v6"} => InLadder(O[id].price)
<1> USE Zenon
<1>1. O[id] \in LiveOrder /\ O[id].quantity <= Sums(O)[O[id].side][O[id].price]  BY DropFits
<1> USE <1>1
<1>2. O[id].side \in Sides /\ O[id].price \in Nat /\ O[id].quantity \in Nat \ {0}
  BY OrderType
<1> USE <1>2
<1>3. Sums(O)[O[id].side][O[id].price] # 0  BY SMT
<1> QED  BY <1>3 DEF LevelsOf, MarkedLadder, LadderOf

(* A book that represents its orders knows exactly them.                   *)
HoldsAt(v, b, id, o) == /\ Known(v, b, id) /\ Held(v, b, id) = o
                        /\ Kept(v, b, id).quantity = o.quantity

(* find of a book that represents its orders finds them, and no others.    *)
LEMMA Finds ==
    ASSUME NEW v \in Versions, NEW m, NEW b, NEW O, Valid(O), Represents(v, m, b, O),
           NEW id \in DOMAIN Hash
    PROVE  IF id \in DOMAIN O THEN HoldsAt(v, b, id, O[id]) ELSE ~Known(v, b, id)
<1> USE Zenon
<1>1. IndexOf(v, m, b, O) /\ LevelsOf(v, b, Sums(O)) /\ OrderMap(O)
  BY DEF Represents, Valid
<1> USE <1>1
<1>2. Known(v, b, id) <=> id \in DOMAIN O  BY IndexHolds
<1>3. ASSUME id \in DOMAIN O
      PROVE  Held(v, b, id) = O[id] /\ Kept(v, b, id).quantity = O[id].quantity
  <2> USE <1>3
  <2>1. v \in {"v4", "v6"} => InLadder(O[id].price)  BY OrdersPriced
  <2> QED  BY <2>1, HeldOrder, SMT
<1> QED  BY <1>2, <1>3 DEF HoldsAt

-----------------------------------------------------------------------------
(* What a call with the result r makes of the book b: it returns a book    *)
(* that represents P, or it throws and leaves sound levels, and the book   *)
(* as it was if intact.                                                    *)
Outcome(v, m, b, r, ok, P, intact) ==
    /\ ok => \E c : r = Return(c) /\ Represents(v, m, c, P)
    /\ ~ok => \E c : r = Throw(c) /\ LevelsLeft(v, c) /\ (intact => c = b)

(* A book that represents its orders has sound levels.                     *)
LEMMA Stays ==
    ASSUME NEW v, NEW m, NEW b, NEW O, Valid(O), Represents(v, m, b, O)
    PROVE  LevelsLeft(v, b)
BY DEF Represents, Valid, LevelsLeft

(* The end of an operation on an id: levels and index agree again.         *)
LEMMA Settles ==
    ASSUME NEW v \in Versions, NEW m, NEW P, RoomFor(v, m, P), NEW c, LevelsOf(v, c, Sums(P)),
           NEW d, SameLevels(c, d), IndexOf(v, m, d, P)
    PROVE  Represents(v, m, d, P)
BY LevelsKept, Zenon DEF Represents

(* remove throws exactly at an id that is not live, and before any change. *)
LEMMA RemoveOutcome ==
    ASSUME NEW v \in Versions, NEW m \in Nat, NEW b, NEW O, Valid(O), Represents(v, m, b, O),
           NEW id \in DOMAIN Hash
    PROVE  Outcome(v, m, b, RemoveFrom(v, b, id), id \in DOMAIN O, Drop(O, id), TRUE)
<1> USE Zenon
<1>1. RemoveFrom(v, b, id) = RemoveForm(v, b, id)  BY RemoveIs
<1>2. IndexOf(v, m, b, O) /\ LevelsOf(v, b, Sums(O)) /\ OrderMap(O) /\ RoomFor(v, m, O)
      /\ Sums(O) \in Quantities  BY DEF Represents, Valid
<1> USE <1>1
<1>3. CASE id \notin DOMAIN O
  <2> USE <1>3
  <2>1. RemoveForm(v, b, id) = Throw(b)  BY Finds DEF RemoveForm
  <2> QED  BY <2>1, Stays DEF Outcome
<1>4. CASE id \in DOMAIN O
  <2> USE <1>4
  <2>1. /\ Sums(Drop(O, id)) = Minus(Sums(O), O[id])
        /\ O[id] \in LiveOrder /\ O[id].quantity <= Sums(O)[O[id].side][O[id].price]
    BY DropFits
  <2> USE <1>2
  <2>2. PICK c : /\ LevelSubtract(v, b, O[id]) = Return(c)
                 /\ LevelsOf(v, c, Sums(Drop(O, id))) /\ SameIndex(b, c)
    BY <2>1, LevelSubtracts
  <2> USE <2>2
  <2>3. RemoveForm(v, b, id) = Return(Leave(v, b, c, id))
    <3>1. Known(v, b, id) /\ Held(v, b, id) = O[id]  BY Finds DEF HoldsAt
    <3>2. Return(c).book = c /\ ~Return(c).threw  BY CallResults
    <3> QED  BY <3>1, <3>2 DEF RemoveForm
  <2>4. /\ IndexOf(v, m, Leave(v, b, c, id), Drop(O, id))
        /\ SameLevels(c, Leave(v, b, c, id))  BY IndexLeaves
  <2>5. RoomFor(v, m, Drop(O, id))  BY RoomLeft, TableCapacity
  <2>6. Represents(v, m, Leave(v, b, c, id), Drop(O, id))  BY <2>4, <2>5, Settles
  <2> QED  BY <2>3, <2>6 DEF Outcome
<1> QED  BY <1>3, <1>4

(* cancel and execute throw exactly at a quantity that is zero or too      *)
(* large, and before any change.                                           *)
LEMMA ReduceOutcome ==
    ASSUME NEW v \in Versions, NEW m \in Nat, NEW b, NEW O, Valid(O), Represents(v, m, b, O),
           NEW id \in DOMAIN Hash, NEW quantity \in Nat, NEW full \in BOOLEAN
    PROVE  Outcome(v, m, b, ReduceIn(v, b, id, quantity, full),
                   id \in DOMAIN O /\ ~InvalidReduction(O[id], quantity, full),
                   IF quantity = O[id].quantity THEN Drop(O, id) ELSE Reduced(O, id, quantity),
                   TRUE)
<1> USE Zenon
<1>1. ReduceIn(v, b, id, quantity, full) = ReduceForm(v, b, id, quantity, full)  BY ReduceIs
<1>2. IndexOf(v, m, b, O) /\ LevelsOf(v, b, Sums(O)) /\ OrderMap(O) /\ RoomFor(v, m, O)
      /\ Sums(O) \in Quantities  BY DEF Represents, Valid
<1>3. id \in DOMAIN O => (InvalidReduction(Kept(v, b, id), quantity, full)
                            <=> InvalidReduction(O[id], quantity, full))
  <2>1. id \in DOMAIN O => HoldsAt(v, b, id, O[id])  BY Finds
  <2> QED  BY <2>1 DEF InvalidReduction, HoldsAt
<1> USE <1>1, <1>3
<1>4. CASE ~(id \in DOMAIN O /\ ~InvalidReduction(O[id], quantity, full))
  <2> USE <1>4
  <2>1. ReduceForm(v, b, id, quantity, full) = Throw(b)  BY Finds DEF ReduceForm
  <2> QED  BY <2>1, Stays DEF Outcome
<1> USE <1>2
<1>5. CASE id \in DOMAIN O /\ ~InvalidReduction(O[id], quantity, full) /\ quantity = O[id].quantity
  <2> USE <1>5
  <2>1. /\ Sums(Drop(O, id)) = Minus(Sums(O), O[id])
        /\ O[id] \in LiveOrder /\ O[id].quantity <= Sums(O)[O[id].side][O[id].price]
    BY DropFits
  <2> USE <2>1
  <2>2. Part(O[id], quantity) = O[id]  BY DEF Part, LiveOrder
  <2>3. PICK c : /\ LevelSubtract(v, b, O[id]) = Return(c)
                 /\ LevelsOf(v, c, Sums(Drop(O, id))) /\ SameIndex(b, c)  BY LevelSubtracts
  <2> USE <2>3
  <2>4. ReduceForm(v, b, id, quantity, full) = Return(Leave(v, b, c, id))
    <3>1. HoldsAt(v, b, id, O[id])  BY Finds
    <3>2. /\ ~InvalidReduction(Kept(v, b, id), quantity, full) /\ Known(v, b, id)
          /\ quantity = Kept(v, b, id).quantity
          /\ LevelSubtract(v, b, Part(Held(v, b, id), quantity)) = Return(c)
      BY <2>2, <3>1 DEF HoldsAt
    <3> QED  BY <3>2, CallResults DEF ReduceForm
  <2>5. /\ IndexOf(v, m, Leave(v, b, c, id), Drop(O, id))
        /\ SameLevels(c, Leave(v, b, c, id))  BY IndexLeaves
  <2>6. RoomFor(v, m, Drop(O, id))  BY RoomLeft, TableCapacity
  <2>7. Represents(v, m, Leave(v, b, c, id), Drop(O, id))  BY <2>5, <2>6, Settles
  <2> QED  BY <2>4, <2>7 DEF Outcome
<1>6. CASE id \in DOMAIN O /\ ~InvalidReduction(O[id], quantity, full) /\ quantity # O[id].quantity
  <2> DEFINE P == Reduced(O, id, quantity)
             o == Part(O[id], quantity)
             x == Lessened(O[id], quantity)
  <2> USE <1>6
  <2>1. O[id].quantity \in Nat  BY DropFits, OrderType
  <2>2. quantity \in 1 .. O[id].quantity - 1  BY <2>1, SMT DEF InvalidReduction
  <2>3. /\ P = Put(O, id, x) /\ Sums(P) = Minus(Sums(O), o)
        /\ o \in LiveOrder /\ o.quantity <= Sums(O)[o.side][o.price]  BY <2>2, ReduceFits
  <2> HIDE DEF P, o, x
  <2> USE <2>3
  <2>4. PICK c : /\ LevelSubtract(v, b, o) = Return(c)
                 /\ LevelsOf(v, c, Sums(P)) /\ SameIndex(b, c)  BY LevelSubtracts
  <2> DEFINE d == Store(v, b, c, id, Stored(v, x))
  <2> USE <2>4
  <2>5. Reduce(v, b, c, id, quantity) = d  BY IndexReduces, SMT DEF x
  <2>6. IndexOf(v, m, d, P) /\ SameLevels(c, d)  BY IndexStores
  <2> HIDE DEF d
  <2>7. ReduceForm(v, b, id, quantity, full) = Return(d)
    <3>1. HoldsAt(v, b, id, O[id])  BY Finds
    <3>2. /\ ~InvalidReduction(Kept(v, b, id), quantity, full) /\ Known(v, b, id)
          /\ quantity # Kept(v, b, id).quantity
          /\ LevelSubtract(v, b, Part(Held(v, b, id), quantity)) = Return(c)
      BY <3>1 DEF HoldsAt, o
    <3> QED  BY <2>5, <3>2, CallResults DEF ReduceForm
  <2>8. RoomFor(v, m, P)  BY RoomLeft, TableCapacity
  <2>9. Represents(v, m, d, P)  BY <2>6, <2>8, Settles
  <2> QED  BY <2>7, <2>9 DEF Outcome, P
<1> QED  BY <1>4, <1>5, <1>6

(* The order o can go into the orders of a version, which are then P.      *)
Placeable(v, m, P, id, o) == /\ id # 0 /\ o.quantity # 0 /\ Priced(v, o)
                             /\ RoomFor(v, m, P) /\ LevelFits(P, o)

(* add enters the order in the index of v5 or v6 before its last check.    *)
EntersFirst(v, m, O, id, o) == /\ v \in Fixed /\ (v = "v6" => InLadder(o.price))
                               /\ id # 0 /\ o.quantity # 0 /\ id \notin DOMAIN O
                               /\ RoomFor(v, m, Put(O, id, o))

(* upsert takes a live order off its level before its last check, unless   *)
(* v4 sees a price outside the ladder; it enters a new one before it in    *)
(* v1, v5 and v6.                                                          *)
UpsertsFirst(v, m, O, id, o) == /\ id # 0 /\ o.quantity # 0
                                /\ IF id \in DOMAIN O THEN v = "v4" => InLadder(o.price)
                                   ELSE v = "v1" \/ EntersFirst(v, m, O, id, o)

(* add throws exactly if the id is live or zero, the quantity zero, the    *)
(* price outside the ladder, the index at its limit or the level too full. *)
LEMMA AddOutcome ==
    ASSUME NEW v \in Versions, NEW m \in Nat, NEW b, NEW O, Valid(O), Represents(v, m, b, O),
           NEW id \in DOMAIN Hash, NEW o, o.quantity # 0 => o \in LiveOrder
    PROVE  Outcome(v, m, b, AddTo(v, b, id, o),
                   id \notin DOMAIN O /\ Placeable(v, m, Put(O, id, o), id, o), Put(O, id, o),
                   ~EntersFirst(v, m, O, id, o))
<1> USE Zenon
<1> DEFINE P == Put(O, id, o)
<1>1. IndexOf(v, m, b, O) /\ LevelsOf(v, b, Sums(O)) /\ OrderMap(O) /\ Sums(O) \in Quantities
  BY DEF Represents, Valid
<1>2. v = "v1" \/ v \in Tables \/ v \in Fixed  BY VersionKinds
<1> USE <1>1, <1>2
<1>3. Blocked(v, b, id, o) <=> \/ id = 0 \/ o.quantity = 0
                               \/ v \in {"v4", "v6"} /\ ~InLadder(o.price)
                               \/ id \in DOMAIN O \/ ~RoomFor(v, m, P)
  BY IndexRoom DEF Blocked
<1> USE <1>3
<1>4. CASE Blocked(v, b, id, o)
  <2> USE <1>4
  <2>1. AddTo(v, b, id, o) = Throw(b)  BY AddIs DEF AddForm, FixedAddForm
  <2>2. ~(id \notin DOMAIN O /\ Placeable(v, m, P, id, o))
    BY DEF Placeable, Priced, Ladders
  <2> QED  BY <2>1, <2>2, Stays DEF Outcome
<1>5. CASE ~Blocked(v, b, id, o)
  <2> USE <1>5
  <2>1. /\ id \in DOMAIN Hash \ {0} /\ id \notin DOMAIN O /\ o \in LiveOrder /\ RoomFor(v, m, P)
        /\ v = "v6" => Priced(v, o)  BY DEF Priced
  <2> USE <2>1
  <2>2. /\ Sums(P) = Plus(Sums(O), o)
        /\ LevelFits(P, o) <=> Sums(O)[o.side][o.price] + o.quantity <= MaxQuantity
    BY PutFits
  <2>3. Placeable(v, m, P, id, o) <=> Priced(v, o) /\ LevelFits(P, o)  BY DEF Placeable
  <2> HIDE DEF P
  <2> USE <2>3
  <2>4. ASSUME NEW a, LevelsOf(v, a, Sums(O))
        PROVE  /\ Placeable(v, m, P, id, o) =>
                     \E c : LevelAdd(v, a, o) = Return(c) /\ LevelsOf(v, c, Sums(P)) /\ SameIndex(a, c)
               /\ ~Placeable(v, m, P, id, o) => LevelAdd(v, a, o) = Throw(a)
    BY <2>2, <2>4, LevelAdds
  <2> USE <2>4
  <2>5. CASE v \notin Fixed
    <3> USE <2>5
    <3>1. AddTo(v, b, id, o) = AddForm(v, b, id, o)  BY AddIs
    <3> USE <3>1
    <3>2. CASE ~Placeable(v, m, P, id, o)
      <4> USE <3>2
      <4>1. AddTo(v, b, id, o) = Throw(b)  BY CallResults DEF AddForm
      <4> QED  BY <4>1, Stays DEF Outcome, P
    <3>3. CASE Placeable(v, m, P, id, o)
      <4> USE <3>3
      <4>1. PICK c : LevelAdd(v, b, o) = Return(c) /\ LevelsOf(v, c, Sums(P)) /\ SameIndex(b, c)
        OBVIOUS
      <4> DEFINE d == Enter(v, b, c, id, Stored(v, o))
      <4> USE <4>1
      <4>2. IndexOf(v, m, d, P) /\ SameLevels(c, d)  BY IndexEnters DEF P
      <4>3. AddTo(v, b, id, o) = Return(d)  BY CallResults DEF AddForm
      <4> HIDE DEF d
      <4>4. Represents(v, m, d, P)  BY <4>2, Settles
      <4> QED  BY <4>3, <4>4 DEF Outcome, P
    <3> QED  BY <3>2, <3>3
  <2>6. CASE v \in Fixed
    <3> DEFINE a == Enter(v, b, b, id, Stored(v, o))
    <3> USE <2>6
    <3>1. AddTo(v, b, id, o) = FixedAddForm(v, b, id, o)  BY AddIs
    <3>2. SameLevels(b, a)  BY EnterLevels DEF Fixed, Tables
    <3>3. LevelsOf(v, a, Sums(O))  BY <3>2, LevelsKept
    <3> USE <3>1, <3>3
    <3>4. CASE ~Placeable(v, m, P, id, o)
      <4> USE <3>4
      <4>1. AddTo(v, b, id, o) = Throw(a)  BY CallResults DEF FixedAddForm
      <4>2. EntersFirst(v, m, O, id, o)  BY DEF EntersFirst, P, Fixed
      <4> QED  BY <4>1, <4>2 DEF Outcome, LevelsLeft, P
    <3>5. CASE Placeable(v, m, P, id, o)
      <4> USE <3>5
      <4>1. PICK c : LevelAdd(v, a, o) = Return(c) /\ LevelsOf(v, c, Sums(P)) /\ SameIndex(a, c)
        OBVIOUS
      <4> DEFINE d == [c EXCEPT !.live = @ + 1]
      <4> USE <4>1
      <4>2. IndexOf(v, m, d, P) /\ SameLevels(c, d)  BY FixedEnters DEF P
      <4>3. AddTo(v, b, id, o) = Return(d)  BY CallResults DEF FixedAddForm
      <4> HIDE DEF d
      <4>4. Represents(v, m, d, P)  BY <4>2, Settles
      <4> QED  BY <4>3, <4>4 DEF Outcome, P
    <3> QED  BY <3>4, <3>5
  <2> QED  BY <2>5, <2>6
<1> QED  BY <1>4, <1>5

(* upsert throws in the same cases, but for the live id.                   *)
LEMMA UpsertOutcome ==
    ASSUME NEW v \in Versions, NEW m \in Nat, NEW b, NEW O, Valid(O), Represents(v, m, b, O),
           NEW id \in DOMAIN Hash, NEW o, o.quantity # 0 => o \in LiveOrder
    PROVE  Outcome(v, m, b, UpsertIn(v, b, id, o),
                   Placeable(v, m, Put(O, id, o), id, o), Put(O, id, o),
                   ~UpsertsFirst(v, m, O, id, o))
<1> USE Zenon
<1> DEFINE P == Put(O, id, o)
           D == IF id \in DOMAIN O THEN Drop(O, id) ELSE O
           l == IF id \in DOMAIN O THEN LevelSubtract(v, b, O[id]) ELSE Return(b)
<1>1. IndexOf(v, m, b, O) /\ LevelsOf(v, b, Sums(O)) /\ OrderMap(O) /\ Sums(O) \in Quantities
      /\ RoomFor(v, m, O)  BY DEF Represents, Valid
<1>11. UpsertIn(v, b, id, o) = IF v = "v1" THEN MapUpsertForm(b, id, o) ELSE UpsertForm(v, b, id, o)
  BY UpsertIs
<1> USE <1>11
<1>2. CASE id = 0 \/ o.quantity = 0
  <2> USE <1>2
  <2>1. UpsertIn(v, b, id, o) = Throw(b)  BY DEF UpsertForm, MapUpsertForm
  <2> QED  BY <2>1, Stays DEF Outcome, Placeable
<1>3. CASE v # "v1" /\ id \notin DOMAIN O /\ ~(id = 0 \/ o.quantity = 0)
  <2> USE <1>3
  <2>1. ~Known(v, b, id)  BY Finds
  <2>2. UpsertIn(v, b, id, o) = AddTo(v, b, id, o)  BY <2>1 DEF UpsertForm
  <2>3. Outcome(v, m, b, AddTo(v, b, id, o),
                id \notin DOMAIN O /\ Placeable(v, m, P, id, o), P,
                ~EntersFirst(v, m, O, id, o))  BY AddOutcome
  <2> QED  BY <2>2, <2>3 DEF Outcome, UpsertsFirst
<1> USE <1>1
<1>4. ASSUME ~(id = 0 \/ o.quantity = 0)
      PROVE  /\ id \in DOMAIN Hash \ {0} /\ o \in LiveOrder
             /\ Valid(D) /\ id \notin DOMAIN D /\ P = Put(D, id, o)
             /\ \E c : l = Return(c) /\ LevelsOf(v, c, Sums(D)) /\ SameIndex(b, c)
  <2> USE <1>4
  <2>1. CASE id \in DOMAIN O
    <3> USE <2>1
    <3>1. /\ Valid(D) /\ id \notin DOMAIN D /\ Sums(D) = Minus(Sums(O), O[id])
          /\ O[id] \in LiveOrder /\ O[id].quantity <= Sums(O)[O[id].side][O[id].price]
      BY DropFits
    <3>2. P = Put(D, id, o)  BY UpsertFits
    <3> USE <3>1
    <3>3. \E c : l = Return(c) /\ LevelsOf(v, c, Sums(D)) /\ SameIndex(b, c)
      BY LevelSubtracts
    <3> QED  BY <3>2, <3>3
  <2>2. CASE id \notin DOMAIN O
    <3>1. SameIndex(b, b)  BY DEF SameIndex
    <3> QED  BY <2>2, <3>1
  <2> QED  BY <2>1, <2>2
<1> USE <1>4
<1>5. ASSUME ~(id = 0 \/ o.quantity = 0)
      PROVE  /\ Sums(P) = Plus(Sums(D), o) /\ Sums(D) \in Quantities
             /\ LevelFits(P, o) <=> Sums(D)[o.side][o.price] + o.quantity <= MaxQuantity
  BY <1>5, PutFits DEF Valid
<1>6. ASSUME ~(id = 0 \/ o.quantity = 0), v = "v1" \/ id \in DOMAIN O
      PROVE  RoomFor(v, m, P)  BY <1>6, RoomLeft, TableCapacity DEF RoomFor, Tables, Fixed
<1> USE <1>6
<1>7. ASSUME ~(id = 0 \/ o.quantity = 0), v = "v1" \/ id \in DOMAIN O
      PROVE  Placeable(v, m, P, id, o) <=> Priced(v, o) /\ LevelFits(P, o)
  BY <1>7 DEF Placeable
<1> HIDE DEF P, D, l
<1> USE <1>7
<1>8. ASSUME ~(id = 0 \/ o.quantity = 0), v = "v1" \/ id \in DOMAIN O,
             NEW a, LevelsOf(v, a, Sums(D))
      PROVE  /\ Placeable(v, m, P, id, o) =>
                   \E c : LevelAdd(v, a, o) = Return(c) /\ LevelsOf(v, c, Sums(P)) /\ SameIndex(a, c)
             /\ ~Placeable(v, m, P, id, o) => LevelAdd(v, a, o) = Throw(a) /\ LevelsLeft(v, a)
  BY <1>5, <1>8, LevelAdds DEF LevelsLeft
<1> USE <1>8
<1>9. CASE v # "v1" /\ id \in DOMAIN O /\ ~(id = 0 \/ o.quantity = 0)
  <2> USE <1>9
  <2>1. HoldsAt(v, b, id, O[id])  BY Finds
  <2>2. PICK a : l = Return(a) /\ LevelsOf(v, a, Sums(D)) /\ SameIndex(b, a)  OBVIOUS
  <2> USE <2>2
  <2>3. Known(v, b, id) /\ LevelSubtract(v, b, Held(v, b, id)) = Return(a)
    BY <2>1 DEF HoldsAt, l
  <2> DEFINE k == LevelAdd(v, a, o)
             d == Store(v, b, k.book, id, Stored(v, o))
  <2>4. UpsertIn(v, b, id, o) = IF v = "v4" /\ ~InLadder(o.price) THEN Throw(b)
                                ELSE IF k.threw THEN k ELSE Return(d)
    BY <2>3, CallResults DEF UpsertForm
  <2> USE <2>4
  <2>5. CASE Placeable(v, m, P, id, o)
    <3> USE <2>5
    <3>1. PICK c : k = Return(c) /\ LevelsOf(v, c, Sums(P)) /\ SameIndex(a, c)  OBVIOUS
    <3> USE <3>1
    <3>2. SameIndex(b, c)  BY SameIndexTwice
    <3>3. k.book = c /\ ~k.threw  BY CallResults
    <3> USE <3>3
    <3>4. IndexOf(v, m, d, P) /\ SameLevels(c, d)  BY <3>2, IndexStores DEF P
    <3>5. Represents(v, m, d, P)  BY <3>4, Settles
    <3>6. ~(v = "v4" /\ ~InLadder(o.price))  BY DEF Placeable, Priced, Ladders
    <3> QED  BY <3>5, <3>6 DEF Outcome, P
  <2>6. CASE ~Placeable(v, m, P, id, o)
    <3> USE <2>6
    <3>1. k = Throw(a) /\ LevelsLeft(v, a) /\ LevelsLeft(v, b) /\ k.threw
      BY Stays, CallResults
    <3>2. UpsertsFirst(v, m, O, id, o) \/ (v = "v4" /\ ~InLadder(o.price))  BY DEF UpsertsFirst
    <3> QED  BY <3>1, <3>2, ZenonT(40) DEF Outcome, P
  <2> QED  BY <2>5, <2>6
<1>10. CASE v = "v1" /\ ~(id = 0 \/ o.quantity = 0)
  <2> USE <1>10
  <2>1. PICK c : l = Return(c) /\ LevelsOf(v, c, Sums(D)) /\ SameIndex(b, c)  OBVIOUS
  <2> DEFINE a == Enter(v, b, c, id, o)
  <2> USE <2>1
  <2>2. (IF Known(v, b, id) THEN LevelSubtract(v, b, Held(v, b, id)) ELSE Return(b)) = Return(c)
    <3>1. IF id \in DOMAIN O THEN HoldsAt(v, b, id, O[id]) ELSE ~Known(v, b, id)  BY Finds
    <3> QED  BY <3>1 DEF l, HoldsAt
  <2>3. UpsertIn(v, b, id, o) = LevelAdd(v, a, o)
    <3>1. UpsertIn(v, b, id, o) = MapUpsertForm(b, id, o)  OBVIOUS
    <3> QED  BY <2>2, <3>1, CallResults DEF MapUpsertForm
  <2>4. LevelsOf(v, a, Sums(D))
    <3>1. SameLevels(c, a)  BY EnterLevels DEF Tables
    <3> QED  BY <3>1, LevelsKept
  <2>5. MapIndex(a, P)
    <3>1. MapIndex(c, O)  BY DEF IndexOf, MapIndex, SameIndex
    <3> QED  BY <3>1 DEF MapIndex, Enter, Tables, P
  <2> HIDE DEF a
  <2> USE <2>3, <2>4
  <2>6. CASE Placeable(v, m, P, id, o)
    <3> USE <2>6
    <3>1. PICK d : LevelAdd(v, a, o) = Return(d) /\ LevelsOf(v, d, Sums(P)) /\ SameIndex(a, d)
      OBVIOUS
    <3> USE <3>1
    <3>2. Represents(v, m, d, P)  BY <2>5, MapSame DEF Represents, IndexOf
    <3> QED  BY <3>2 DEF Outcome, P
  <2>7. CASE ~Placeable(v, m, P, id, o)
    <3> USE <2>7
    <3>1. LevelAdd(v, a, o) = Throw(a) /\ LevelsLeft(v, a)  OBVIOUS
    <3>2. UpsertsFirst(v, m, O, id, o)  BY DEF UpsertsFirst
    <3> QED  BY <3>1, <3>2 DEF Outcome, P
  <2> QED  BY <2>6, <2>7
<1> QED
  BY <1>2, <1>3, <1>9, <1>10, Zenon
=============================================================================
