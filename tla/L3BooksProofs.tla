--------------------------- MODULE L3BooksProofs ---------------------------
(***************************************************************************)
(* The six L3 books agree: every version that has not thrown represents    *)
(* the live orders of L3Book, through maps, sorted arrays, tombstones,     *)
(* packed orders, ladders and bitmaps alike, for every set of events,      *)
(* ladder, word width, hash and limit.                                     *)
(***************************************************************************)
EXTENDS L3OperationProofs

(* A new book of a version.                                                *)
New(v, m) == CASE v = "v1" -> New_v1    [] v = "v2" -> New_v2(m) [] v = "v3" -> New_v3(m)
               [] v = "v4" -> New_v4(m) [] v = "v5" -> New_v5(m) [] v = "v6" -> New_v6(m)

(* The empty map of live orders.                                           *)
LEMMA NoOrders ==
    /\ DOMAIN << >> = {} /\ Cardinality(DOMAIN << >>) = 0 /\ Valid(<< >>)
    /\ Sums(<< >>) \in Quantities
    /\ \A side \in Sides, price \in Nat : Sums(<< >>)[side][price] = 0
    /\ \A f : DOMAIN f = {} /\ f = [i \in DOMAIN f |-> f[i]] => f = << >>
<1>1. DOMAIN << >> = {}  OBVIOUS
<1>2. Cardinality({}) = 0 /\ IsFiniteSet({})  BY FS_EmptySet
<1> USE <1>1, <1>2
<1>3. \A side, price : Level(<< >>, side, price) = 0
  <2>1. \A side, price : Units(<< >>, side, price) = {}  BY DEF Units
  <2> QED  BY <2>1 DEF Level
<1>4. OrderMap(<< >>)  BY DEF OrderMap
<1> USE <1>3
<1>5. Sums(<< >>) \in Quantities  BY QuantityType DEF Sums, Quantities
<1>6. \A f : DOMAIN f = {} /\ f = [i \in DOMAIN f |-> f[i]] => f = << >>  OBVIOUS
<1> QED  BY <1>4, <1>5, <1>6 DEF Valid, Sums

(* A new book of each version represents it.                               *)
LEMMA NewRepresents ==
    ASSUME NEW v \in Versions, NEW m \in Nat
    PROVE  Represents(v, m, New(v, m), << >>)
<1> DEFINE b == New(v, m)
           S == Sums(<< >>)
           M == StoredMap(v, << >>)
<1>1. RoomFor(v, m, << >>)  BY NoOrders, TableCapacity DEF RoomFor
<1>2. DOMAIN M = {} /\ M = << >>  BY NoOrders DEF StoredMap
<1>3. S \in Quantities /\ \A side \in Sides, price \in Nat : S[side][price] = 0  BY NoOrders
<1> USE <1>3
<1>4. \A side \in Sides : LevelMap(S[side]) = << >>  BY NoOrders DEF LevelMap, Quoted
<1> HIDE DEF S, M
<1>5. ASSUME v \notin {"v1", "v2"}
      PROVE  LadderOf(b, S) /\ b.ladder = [side \in Sides |-> [i \in Offsets |-> 0]]
  <2>1. "ladder" \in DOMAIN b /\ b.ladder = [side \in Sides |-> [i \in Offsets |-> 0]]
    BY <1>5 DEF New, Versions, New_v3, New_v4, New_v5, New_v6
  <2>2. \A i \in Offsets : MinimumPrice + i \in Nat  BY LadderType DEF Offsets
  <2> QED  BY <2>1, <2>2 DEF LadderOf
<1>6. LevelsOf(v, b, S)
  <2>1. CASE v = "v1"  BY <2>1, <1>4 DEF LevelsOf, MapLevels, New, New_v1
  <2>2. CASE v = "v2"
    <3> USE <2>2
    <3>1. "levels" \in DOMAIN b /\ b.levels = [side \in Sides |-> << >>]  BY DEF New, New_v2
    <3>2. \A side \in Sides : SortedArray(<< >>, S[side])  BY DEF SortedArray
    <3>3. << >> \in Seq(LevelEntry)  OBVIOUS
    <3> QED  BY <3>1, <3>2, <3>3, Zenon DEF LevelsOf, ArrayLevels
  <2> USE <1>5
  <2>3. CASE v = "v3"
    <3> USE <2>3
    <3>1. "best" \in DOMAIN b /\ b.best = [side \in Sides |-> NoPrice]  BY DEF New, New_v3
    <3>2. \A side \in Sides : OccupiedOffsets(b, side) = {}  BY DEF OccupiedOffsets
    <3> QED  BY <3>1, <3>2 DEF LevelsOf, CachedLadder, Caches, NoPrice
  <2>4. CASE v \in {"v4", "v5", "v6"}
    <3> USE <2>4
    <3>1. "occupied" \in DOMAIN b /\ b.occupied = [side \in Sides |-> [word \in Words |-> {}]]
      BY DEF New, New_v4, New_v5, New_v6
    <3>2. \A i \in Offsets : i \div WordBits \in Words  BY WordOfPrice
    <3> USE <3>1
    <3>3. Marked(b)  BY <3>2 DEF Marked
    <3> QED  BY <3>3 DEF LevelsOf, MarkedLadder, LadderBook, LadderOf
  <2> QED  BY <2>1, <2>2, <2>3, <2>4 DEF Versions
<1>7. IndexOf(v, m, b, << >>)
  <2>1. CASE v = "v1"  BY <2>1 DEF IndexOf, MapIndex, New, New_v1
  <2> USE <1>2
  <2>2. CASE v \in Tables
    <3> DEFINE n == table_capacity(m)
    <3>1. n \in Nat \ {0}  BY TableCapacity
    <3> USE <2>2
    <3>2. {"slots", "live"} \subseteq DOMAIN b /\ b.slots = [i \in 0 .. n - 1 |-> Empty] /\ b.live = 0
      BY DEF New, Tables, New_v2, New_v3, New_v4
    <3> HIDE DEF n
    <3> USE <3>2
    <3>3. Table(b.slots, M, n)  BY <3>1, NewTable
    <3>4. TableIndex(b, M, n)  BY <3>3, NoOrders DEF TableIndex
    <3> QED  BY <3>4 DEF IndexOf, Tables, M, n
  <2>3. CASE v \in Fixed
    <3> USE <2>3
    <3>1. /\ {"live", "maximum", "orders"} \subseteq DOMAIN b /\ b.live = 0 /\ b.maximum = m
          /\ b.orders = << >>  BY DEF New, Fixed, New_v5, New_v6
    <3>2. FixedIndex(b, M, m)  BY <3>1, NoOrders DEF FixedIndex, MapIndex
    <3> QED  BY <3>2 DEF IndexOf, Fixed, Tables, M
  <2> QED  BY <2>1, <2>2, <2>3, VersionKinds
<1> QED  BY <1>1, <1>6, <1>7 DEF Represents, S

(* The parts of the digest of a version.                                   *)
LevelsSeen(v, b) == IF v = "v1" THEN [side \in Sides |-> Ascending(b.levels[side])]
                    ELSE IF v = "v2" THEN b.levels
                    ELSE [side \in Sides |-> Levels(b.ladder[side])]

LiveSeen(v, b) == IF v = "v1" THEN Cardinality(DOMAIN b.orders) ELSE b.live

OrdersSeen(v, b) ==
    IF v \in {"v2", "v3"} THEN Orders(b.slots)
    ELSE IF v = "v4" THEN {<<entry[1], Unpack(entry[2])>> : entry \in Orders(b.slots)}
    ELSE IF v = "v6" THEN {<<id, Unpack(b.orders[id])>> : id \in DOMAIN b.orders}
    ELSE {<<id, b.orders[id]>> : id \in DOMAIN b.orders}

(* The levels of state_digest are those of the live orders, ...            *)
LEMMA DigestLevels ==
    ASSUME NEW v \in Versions, NEW b, NEW O, Valid(O), LevelsOf(v, b, Sums(O))
    PROVE  LevelsSeen(v, b) = Digest(O).levels
<1> DEFINE S == Sums(O)
           A == [side \in Sides |-> Ascending(LevelMap(S[side]))]
<1>1. Digest(O).levels = A
  <2>1. OrderMap(O)  BY DEF Valid
  <2>2. \A side \in Sides :
           [price \in Prices(O, side) |-> Level(O, side, price)] = LevelMap(S[side])
    BY <2>1, OrderLevels
  <2> HIDE DEF S
  <2> QED  BY <2>2, Zenon DEF Digest
<1>2. S \in Quantities /\ \A side \in Sides : S[side] \in [Nat -> Nat]
  BY QuantityType DEF Valid, Quantities
<1> HIDE DEF S
<1>3. v = "v1" => [side \in Sides |-> Ascending(b.levels[side])] = A
  BY DEF LevelsOf, MapLevels, S
<1> USE <1>2
<1>4. v = "v2" => b.levels = A
  <2>1. SUFFICES ASSUME v = "v2" PROVE b.levels = A  OBVIOUS
  <2>2. ArrayLevels(b, S)  BY <2>1 DEF LevelsOf, S
  <2> USE <2>2
  <2>3. \A side \in Sides : b.levels[side] = Ascending(LevelMap(S[side]))
    BY ArrayAscends, Zenon DEF ArrayLevels
  <2> QED  BY <2>3 DEF ArrayLevels
<1>5. v \in Ladders => [side \in Sides |-> Levels(b.ladder[side])] = A
  <2>1. SUFFICES ASSUME v \in Ladders PROVE [side \in Sides |-> Levels(b.ladder[side])] = A
    OBVIOUS
  <2>2. LadderOf(b, S)  BY <2>1 DEF LevelsOf, S, Ladders, CachedLadder, MarkedLadder
  <2>3. \A side \in Sides : Levels(b.ladder[side]) = Ascending(LevelMap(S[side]))
    BY <2>2, LadderLevels
  <2> QED  BY <2>3, Zenon
<1> QED  BY <1>1, <1>3, <1>4, <1>5 DEF LevelsSeen, Versions, Ladders

(* ... and so are its orders and their number.                             *)
LEMMA DigestOrders ==
    ASSUME NEW v \in Versions, NEW m, NEW b, NEW O, Valid(O), Represents(v, m, b, O)
    PROVE  OrdersSeen(v, b) = Digest(O).orders /\ LiveSeen(v, b) = Digest(O).live
<1> DEFINE M == StoredMap(v, O)
           R == {<<id, O[id]>> : id \in DOMAIN O}
<1>1. IndexOf(v, m, b, O) /\ LevelsOf(v, b, Sums(O)) /\ OrderMap(O)
  BY DEF Represents, Valid
<1>2. Digest(O).orders = R /\ Digest(O).live = Cardinality(DOMAIN O)  BY DEF Digest
<1>3. DOMAIN M = DOMAIN O /\ \A id \in DOMAIN O : M[id] = Stored(v, O[id])  BY DEF StoredMap
<1> USE <1>1, <1>3
<1>4. ASSUME NEW id \in DOMAIN O
      PROVE  IF v \in {"v4", "v6"} THEN Unpack(M[id]) = O[id] ELSE M[id] = O[id]
  <2>1. O[id] \in LiveOrder  BY DropFits
  <2>2. v \in {"v4", "v6"} => InLadder(O[id].price)  BY OrdersPriced
  <2> QED  BY <2>1, <2>2, PackRoundTrip DEF Stored
<1> HIDE DEF M
<1> USE <1>2
<1>5. CASE v = "v1"  BY <1>5 DEF IndexOf, MapIndex, OrdersSeen, LiveSeen
<1> USE <1>4
<1>6. CASE v \in Tables
  <2> USE <1>6
  <2>1. Table(b.slots, M, table_capacity(m)) /\ b.live = Cardinality(DOMAIN M)
    BY DEF IndexOf, TableIndex, Tables, M
  <2> USE <2>1
  <2>2. Orders(b.slots) = {<<id, M[id]>> : id \in DOMAIN M}  BY TableOrders
  <2> USE <2>2
  <2>3. ASSUME v # "v4" PROVE Orders(b.slots) = R  BY <2>3 DEF Tables
  <2>4. ASSUME v = "v4" PROVE {<<entry[1], Unpack(entry[2])>> : entry \in Orders(b.slots)} = R
    <3>1. \A id \in DOMAIN O : LET entry == <<id, M[id]>>
                               IN  <<entry[1], Unpack(entry[2])>> = <<id, O[id]>>  BY <2>4
    <3>2. \A entry \in Orders(b.slots) : \E id \in DOMAIN O : entry = <<id, M[id]>>  OBVIOUS
    <3>3. \A id \in DOMAIN O : <<id, M[id]>> \in Orders(b.slots)  OBVIOUS
    <3> USE <3>1
    <3>4. ASSUME NEW entry \in Orders(b.slots) PROVE <<entry[1], Unpack(entry[2])>> \in R
      BY <3>2
    <3>5. ASSUME NEW id \in DOMAIN O
          PROVE  <<id, O[id]>> \in {<<entry[1], Unpack(entry[2])>> : entry \in Orders(b.slots)}
      BY <3>3, Zenon
    <3> QED  BY <3>4, <3>5
  <2> QED  BY <2>3, <2>4 DEF Tables, OrdersSeen, LiveSeen
<1>7. CASE v \in Fixed
  <2> USE <1>7
  <2>1. b.orders = M /\ b.live = Cardinality(DOMAIN M)
    BY DEF IndexOf, FixedIndex, MapIndex, Fixed, Tables, M
  <2> QED  BY <2>1 DEF Fixed, OrdersSeen, LiveSeen
<1> QED  BY <1>5, <1>6, <1>7, VersionKinds

(* The digest of a book that represents its orders.                        *)
LEMMA DigestIs ==
    ASSUME NEW v \in Versions, NEW m, NEW O, Valid(O), Represents(v, m, books[v], O)
    PROVE  state_digest(v) = Digest(O)
<1> DEFINE b == books[v]
<1>1. state_digest(v) = [live |-> LiveSeen(v, b), levels |-> LevelsSeen(v, b),
                         orders |-> OrdersSeen(v, b)]
  BY Zenon DEF Versions, state_digest, LiveSeen, LevelsSeen, OrdersSeen, state_digest_v1,
     state_digest_v2, state_digest_v3, state_digest_v4, state_digest_v5, state_digest_v6
<1>2. LevelsSeen(v, b) = Digest(O).levels  BY DigestLevels DEF Represents
<1>3. OrdersSeen(v, b) = Digest(O).orders /\ LiveSeen(v, b) = Digest(O).live
  BY DigestOrders
<1> QED  BY <1>1, <1>2, <1>3 DEF Digest

(* best_bid and best_ask are the best prices of the live orders.           *)
LEMMA BestIs ==
    ASSUME NEW v \in Versions, NEW O, Valid(O), LevelsOf(v, books[v], Sums(O)), NEW side \in Sides
    PROVE  best(v, side) = Best(O, side)
<1> DEFINE S == Sums(O)
           b == books[v]
<1>1. /\ Best(O, side) = BestLevel(S[side], side) /\ IsFiniteSet(Quoted(S[side]))
      /\ S \in Quantities  BY OrderLevels, Zenon DEF Valid
<1>2. Quoted(S[side]) \in SUBSET Nat  BY DEF Quoted
<1> USE <1>1
<1>3. Quoted(S[side]) # {} => Max(Quoted(S[side])) \in Quoted(S[side])  BY <1>2, FiniteMax
<1>4. LevelsOf(v, b, S)  OBVIOUS
<1> HIDE DEF S, b
<1> USE <1>4
<1>5. CASE v = "v1"
  <2> USE <1>5
  <2>1. best_v1(b, side) = BestLevel(S[side], side)  BY <1>3, MapBest DEF LevelsOf
  <2> QED  BY <2>1 DEF best, b
<1>6. CASE v = "v2"
  <2> USE <1>6
  <2>1. best_v2(b, side) = BestLevel(S[side], side)  BY ArrayBest DEF LevelsOf
  <2> QED  BY <2>1 DEF best, b
<1>7. CASE v = "v3"
  <2> USE <1>7
  <2>1. best_v3(b, side) = BestLevel(S[side], side)  BY CachedBest DEF LevelsOf
  <2> QED  BY <2>1 DEF best, b
<1>8. CASE v \in Bitmaps
  <2> USE <1>8
  <2>1. best_v4(b, side) = BestLevel(S[side], side)  BY MarkedBest DEF LevelsOf, Bitmaps
  <2> QED  BY <2>1 DEF best, b, Bitmaps, best_v5, best_v6
<1> QED  BY <1>5, <1>6, <1>7, <1>8 DEF Versions, Bitmaps

-----------------------------------------------------------------------------
(* apply of a version, from its operations.                                *)
Applied(v, b, e) ==
    LET r == RemoveFrom(v, b, e.order_id)
    IN  CASE e.type = "Add"         -> AddTo(v, b, e.order_id, e.order)
          [] e.type = "Cancel"      -> ReduceIn(v, b, e.order_id, e.order.quantity, FALSE)
          [] e.type = "Execute"     -> ReduceIn(v, b, e.order_id, e.order.quantity, TRUE)
          [] e.type = "Delete"      -> RemoveFrom(v, b, e.order_id)
          [] e.type = "OrderDelete" -> RemoveFrom(v, b, e.order_id)
          [] e.type = "Replace"     ->
                IF e.order_id = e.replacement_order_id THEN Throw(b)
                ELSE IF r.threw THEN r
                ELSE AddTo(v, r.book, e.replacement_order_id, e.order)
          [] e.type = "OrderUpsert" -> UpsertIn(v, b, e.order_id, e.order)

(* The dispatch of apply is the same in all versions.                      *)
LEMMA AppliedIs ==
    ASSUME NEW v \in Versions, NEW e
    PROVE  apply(v, e) = Applied(v, books[v], e)
<1> USE Zenon
<1> USE DEF apply, Applied, AddTo, RemoveFrom, ReduceIn, UpsertIn, Dispatch, Then
<1>1. CASE v = "v1"  BY <1>1 DEF apply_v1
<1>2. CASE v = "v2"  BY <1>2 DEF apply_v2
<1>3. CASE v = "v3"  BY <1>3 DEF apply_v3
<1>4. CASE v = "v4"  BY <1>4 DEF apply_v4
<1>5. CASE v = "v5"  BY <1>5 DEF apply_v5
<1>6. CASE v = "v6"  BY <1>6 DEF apply_v6
<1> HIDE DEF apply, Applied, AddTo, RemoveFrom, ReduceIn, UpsertIn, Dispatch, Then
<1> QED  BY <1>1, <1>2, <1>3, <1>4, <1>5, <1>6 DEF Versions

(* The event is within the limits of a version with the live orders O.     *)
FitsAt(v, m, O, e) == /\ e.type \in {"Add", "Replace", "OrderUpsert"} => Priced(v, e.order)
                      /\ RoomFor(v, m, After(O, e))

(* The version changes the book before the last check of the event.        *)
TouchedAt(v, m, O, e) ==
    \/ e.type = "Add" /\ EntersFirst(v, m, O, e.order_id, e.order)
    \/ e.type = "OrderUpsert" /\ UpsertsFirst(v, m, O, e.order_id, e.order)
    \/ e.type = "Replace" /\ e.order_id \in DOMAIN O /\ e.order_id # e.replacement_order_id

(* The fields of an event.                                                 *)
LEMMA EventType ==
    ASSUME NEW e \in Event
    PROVE  /\ e.order_id \in DOMAIN Hash /\ e.replacement_order_id \in DOMAIN Hash
           /\ e.order.side \in Sides /\ e.order.price \in Nat /\ e.order.quantity \in Nat
           /\ e.order.quantity # 0 => e.order \in LiveOrder
           /\ e.type \in {"Add", "Cancel", "Execute", "Delete", "OrderDelete", "Replace", "OrderUpsert"}
BY QuantityType DEF Event, EventOrder, LiveOrder

(* What Admits asks of the level of an order that comes in.                *)
LEMMA AdmitsLevel ==
    ASSUME NEW e \in Event, NEW P
    PROVE  Level(P, e.order.side, e.order.price) <= MaxQuantity <=> LevelFits(P, e.order)
BY EventType DEF LevelFits, Sums

(* The map of live orders admits a reduction exactly if the books do.      *)
LEMMA AdmittedReduction ==
    ASSUME NEW O, Valid(O), NEW e \in Event, e.type \in {"Cancel", "Execute"}
    PROVE  Admits(O, e) <=> /\ e.order_id \in DOMAIN O
                            /\ ~InvalidReduction(O[e.order_id], e.order.quantity, e.type = "Execute")
<1>1. e.order_id \in DOMAIN O => O[e.order_id].quantity \in Nat  BY DropFits, OrderType
<1> QED  BY <1>1, EventType DEF Admits, InvalidReduction

(* An admitted event keeps the live orders valid.                          *)
LEMMA ValidAfter ==
    ASSUME NEW O, Valid(O), NEW e \in Event, Admits(O, e)
    PROVE  Valid(After(O, e))
<1> DEFINE id == e.order_id
           o == e.order
<1>1. /\ id \in DOMAIN Hash /\ e.replacement_order_id \in DOMAIN Hash /\ o.quantity \in Nat
      /\ o.quantity # 0 => o \in LiveOrder  BY EventType
<1> USE <1>1
<1>2. CASE e.type \in {"Add", "OrderUpsert", "Replace"}
  <2> USE <1>2
  <2>1. o \in LiveOrder /\ LevelFits(After(O, e), o)  BY AdmitsLevel DEF Admits
  <2> USE <2>1
  <2>2. \A P, i : Valid(P) /\ i \in DOMAIN Hash \ {0} /\ i \notin DOMAIN P
                    /\ LevelFits(Put(P, i, o), o) => Valid(Put(P, i, o))  BY PutFits
  <2> USE <2>2
  <2>3. CASE id \notin DOMAIN O /\ e.type # "Replace"
    <3> USE <2>3
    <3>1. After(O, e) = Put(O, id, o) /\ id # 0  BY DEF After, Admits
    <3> QED  BY <3>1
  <2>4. CASE id \in DOMAIN O /\ e.type # "Replace"
    <3> USE <2>4
    <3>1. After(O, e) = Put(O, id, o) /\ id # 0  BY DEF After, Admits
    <3>2. Put(O, id, o) = Put(Drop(O, id), id, o)  BY UpsertFits
    <3> QED  BY <3>1, <3>2, DropFits
  <2>5. CASE e.type = "Replace"
    <3>1. /\ After(O, e) = Put(Drop(O, id), e.replacement_order_id, o) /\ id \in DOMAIN O
          /\ e.replacement_order_id \notin DOMAIN O \cup {0}  BY <2>5 DEF After, Admits
    <3> USE <3>1
    <3>2. Valid(Drop(O, id))  BY DropFits
    <3>3. DOMAIN Drop(O, id) \subseteq DOMAIN O  BY DEF Drop, Restrict
    <3> QED  BY <3>2, <3>3
  <2> QED  BY <2>3, <2>4, <2>5
<1>3. CASE e.type \in {"Cancel", "Execute"}
  <2> USE <1>3
  <2>1. id \in DOMAIN O /\ ~InvalidReduction(O[id], o.quantity, e.type = "Execute")
    BY AdmittedReduction, Zenon
  <2> USE <2>1
  <2>2. O[id].quantity \in Nat /\ Valid(Drop(O, id))  BY DropFits, OrderType
  <2> USE <2>2
  <2>3. o.quantity # O[id].quantity => o.quantity \in 1 .. O[id].quantity - 1
    BY DEF InvalidReduction
  <2>4. o.quantity # O[id].quantity => Valid(Reduced(O, id, o.quantity))
    BY <2>3, ReduceFits
  <2> QED  BY <2>4 DEF After, Reduced
<1>4. CASE e.type \in {"Delete", "OrderDelete"}  BY <1>4, DropFits DEF After, Admits
<1> QED  BY <1>2, <1>3, <1>4, EventType

(* apply returns a book that represents the orders after the event if the  *)
(* map admits it and the version has room, and throws otherwise.           *)
LEMMA ApplyOutcome ==
    ASSUME NEW v \in Versions, NEW m \in Nat, NEW b, NEW O, Valid(O), Represents(v, m, b, O),
           NEW e \in Event
    PROVE  Outcome(v, m, b, Applied(v, b, e), Admits(O, e) /\ FitsAt(v, m, O, e), After(O, e),
                   ~TouchedAt(v, m, O, e))
<1> USE Zenon
<1> DEFINE id == e.order_id
           o == e.order
           fine == Admits(O, e) /\ FitsAt(v, m, O, e)
           unharmed == ~TouchedAt(v, m, O, e)
<1>1. /\ id \in DOMAIN Hash /\ e.replacement_order_id \in DOMAIN Hash /\ o.quantity \in Nat
      /\ o.quantity # 0 => o \in LiveOrder
      /\ \A P : Level(P, o.side, o.price) <= MaxQuantity <=> LevelFits(P, o)
  BY EventType, AdmitsLevel
<1>2. ASSUME id \in DOMAIN O, NEW x
      PROVE  RoomFor(v, m, Drop(O, id)) /\ RoomFor(v, m, Put(O, id, x))
  <2>1. OrderMap(O) /\ RoomFor(v, m, O) /\ table_capacity(m) \in Nat
    BY TableCapacity DEF Valid, Represents
  <2> QED  BY <1>2, <2>1, RoomLeft
<1> USE <1>1
<1>3. CASE e.type = "Add"
  <2> DEFINE P == Put(O, id, o)
  <2>1. Outcome(v, m, b, AddTo(v, b, id, o), id \notin DOMAIN O /\ Placeable(v, m, P, id, o), P,
                ~EntersFirst(v, m, O, id, o))  BY AddOutcome
  <2> USE <1>3
  <2>2. Applied(v, b, e) = AddTo(v, b, id, o) /\ After(O, e) = P  BY DEF Applied, After
  <2> USE <2>2
  <2>3. fine <=> id \notin DOMAIN O /\ Placeable(v, m, P, id, o)
    BY DEF Admits, FitsAt, Placeable
  <2>4. unharmed => ~EntersFirst(v, m, O, id, o)  BY DEF TouchedAt
  <2> QED  BY <2>1, <2>3, <2>4 DEF Outcome
<1>4. CASE e.type = "OrderUpsert"
  <2> DEFINE P == Put(O, id, o)
  <2>1. Outcome(v, m, b, UpsertIn(v, b, id, o), Placeable(v, m, P, id, o), P,
                ~UpsertsFirst(v, m, O, id, o))  BY UpsertOutcome
  <2> USE <1>4
  <2>2. Applied(v, b, e) = UpsertIn(v, b, id, o) /\ After(O, e) = P  BY DEF Applied, After
  <2> USE <2>2
  <2>3. fine <=> Placeable(v, m, P, id, o)  BY DEF Admits, FitsAt, Placeable
  <2>4. unharmed => ~UpsertsFirst(v, m, O, id, o)  BY DEF TouchedAt
  <2> QED  BY <2>1, <2>3, <2>4 DEF Outcome
<1> USE <1>2
<1>5. CASE e.type \in {"Cancel", "Execute"}
  <2> DEFINE full == e.type = "Execute"
             P == IF o.quantity = O[id].quantity THEN Drop(O, id) ELSE Reduced(O, id, o.quantity)
             ok == id \in DOMAIN O /\ ~InvalidReduction(O[id], o.quantity, full)
  <2>1. Outcome(v, m, b, ReduceIn(v, b, id, o.quantity, full), ok, P, TRUE)
    BY ReduceOutcome
  <2> USE <1>5
  <2>2. Applied(v, b, e) = ReduceIn(v, b, id, o.quantity, full) /\ After(O, e) = P
    BY DEF Applied, After, Reduced
  <2>3. Admits(O, e) <=> ok  BY AdmittedReduction
  <2>4. ok => RoomFor(v, m, P)
    <3>1. ASSUME id \in DOMAIN O PROVE O[id].quantity \in Nat  BY <3>1, DropFits, OrderType
    <3>2. ASSUME ok, o.quantity # O[id].quantity PROVE P = Put(O, id, Lessened(O[id], o.quantity))
      <4> USE <3>2
      <4>1. o.quantity \in 1 .. O[id].quantity - 1  BY <3>1, SMT DEF InvalidReduction
      <4> QED  BY <4>1, ReduceFits, SMT
    <3> QED  BY <3>2
  <2> USE <2>2
  <2>5. fine <=> ok  BY <2>3, <2>4 DEF FitsAt
  <2> QED  BY <2>1, <2>5 DEF Outcome
<1>6. CASE e.type \in {"Delete", "OrderDelete"}
  <2>1. Outcome(v, m, b, RemoveFrom(v, b, id), id \in DOMAIN O, Drop(O, id), TRUE)
    BY RemoveOutcome
  <2> USE <1>6
  <2>2. Applied(v, b, e) = RemoveFrom(v, b, id) /\ After(O, e) = Drop(O, id)
    BY DEF Applied, After
  <2> USE <2>2
  <2>3. fine <=> id \in DOMAIN O  BY DEF Admits, FitsAt
  <2> QED  BY <2>1, <2>3 DEF Outcome
<1>7. CASE e.type = "Replace"
  <2> DEFINE rep == e.replacement_order_id
             D == Drop(O, id)
             P == Put(D, rep, o)
             r == RemoveFrom(v, b, id)
  <2>1. Outcome(v, m, b, r, id \in DOMAIN O, D, TRUE)  BY RemoveOutcome
  <2> USE <1>7
  <2>2. /\ Applied(v, b, e) = IF id = rep THEN Throw(b)
                              ELSE IF r.threw THEN r ELSE AddTo(v, r.book, rep, o)
        /\ After(O, e) = P /\ (unharmed => id = rep \/ id \notin DOMAIN O)
    BY DEF Applied, After, TouchedAt
  <2>3. fine => id \in DOMAIN O /\ id # rep  BY DEF Admits
  <2> USE <2>1, <2>2
  <2>4. CASE id = rep \/ id \notin DOMAIN O
    <3> USE <2>4
    <3>1. Applied(v, b, e) = Throw(b)  BY CallResults DEF Outcome
    <3> QED  BY <2>3, <3>1, Stays DEF Outcome
  <2>5. CASE id # rep /\ id \in DOMAIN O
    <3> USE <2>5
    <3>1. PICK c : r = Return(c) /\ Represents(v, m, c, D)  BY DEF Outcome
    <3>2. Valid(D)  BY DropFits
    <3> USE <3>1
    <3>3. Outcome(v, m, c, AddTo(v, c, rep, o), rep \notin DOMAIN D /\ Placeable(v, m, P, rep, o), P,
                  ~EntersFirst(v, m, D, rep, o))  BY <3>2, AddOutcome
    <3>4. Applied(v, b, e) = AddTo(v, c, rep, o)  BY CallResults, ZenonT(40)
    <3>5. rep \in DOMAIN D <=> rep \in DOMAIN O  BY DEF Drop, Restrict
    <3>6. fine <=> rep \notin DOMAIN D /\ Placeable(v, m, P, rep, o)
      BY <3>5 DEF Admits, FitsAt, Placeable
    <3> QED  BY <3>3, <3>4, <3>6 DEF Outcome
  <2> QED  BY <2>4, <2>5
<1> QED  BY <1>3, <1>4, <1>5, <1>6, <1>7, EventType

-----------------------------------------------------------------------------
(* The inductive invariant.  Every version that is alive represents the    *)
(* live orders in full: levels, index and limits; of one that threw the    *)
(* levels are still sound.                                                 *)
IInv == /\ alive \subseteq Versions /\ thrown \subseteq Versions /\ alive \cap thrown = {}
        /\ thrown = refused
        /\ maximum_live \in MaximumLives
        /\ Valid(orders)
        /\ \A v \in alive : Represents(v, maximum_live, books[v], orders)
        /\ \A v \in thrown : LevelsLeft(v, books[v])

(* What an event does to a version that is alive.                          *)
LEMMA AppliesTo ==
    ASSUME IInv, NEW e \in Events, NEW v \in alive
    PROVE  Outcome(v, maximum_live, books[v], apply(v, e), Admits(orders, e) /\ Fits(v, e),
                   After(orders, e), ~TouchedAt(v, maximum_live, orders, e))
<1> USE Zenon
<1>1. v \in Versions /\ maximum_live \in Nat /\ e \in Event  BY L3BooksAssumption DEF IInv
<1>2. Valid(orders) /\ Represents(v, maximum_live, books[v], orders)  BY DEF IInv
<1> USE <1>1
<1>3. Outcome(v, maximum_live, books[v], Applied(v, books[v], e),
              Admits(orders, e) /\ FitsAt(v, maximum_live, orders, e), After(orders, e),
              ~TouchedAt(v, maximum_live, orders, e))  BY <1>2, ApplyOutcome
<1>4. e.order.price \in MinimumPrice .. MinimumPrice + PriceCount - 1 <=> InLadder(e.order.price)
  BY EventType, LadderType, SMT DEF InLadder
<1>5. Fits(v, e) <=> FitsAt(v, maximum_live, orders, e)
  BY <1>4 DEF Fits, FitsAt, Priced, RoomFor, Tables, Fixed
<1> QED  BY <1>3, <1>5, AppliedIs

(* What a step does to a version that is alive: it goes on representing    *)
(* the live orders, or it is thrown and its levels are sound.              *)
LEMMA ApplyStep ==
    ASSUME IInv, NEW e \in Events, Apply(e), NEW v \in alive
    PROVE  /\ Admits(orders, e) /\ Fits(v, e) =>
                 /\ v \in alive' /\ v \notin thrown'
                 /\ Represents(v, maximum_live, books'[v], After(orders, e))
           /\ ~(Admits(orders, e) /\ Fits(v, e)) =>
                 /\ v \in thrown' /\ v \notin alive' /\ LevelsLeft(v, books'[v])
                 /\ TouchedAt(v, maximum_live, orders, e) \/ books'[v] = books[v]
<1> USE Zenon
<1> DEFINE r == apply(v, e)
<1>1. Outcome(v, maximum_live, books[v], r, Admits(orders, e) /\ Fits(v, e),
              After(orders, e), ~TouchedAt(v, maximum_live, orders, e))  BY AppliesTo
<1>2. v \in Versions  BY DEF IInv
<1>3. books'[v] = r.book /\ (v \in thrown' <=> r.threw) /\ (v \in alive' <=> v \notin thrown')
  BY <1>2 DEF Apply
<1> HIDE DEF r
<1> QED  BY <1>1, <1>3, CallResults DEF Outcome

(* An event preserves the invariant.                                       *)
LEMMA ApplyKeeps ==
    ASSUME IInv, NEW e \in Events, Apply(e)
    PROVE  IInv'
<1>1. /\ alive' = alive \ thrown' /\ thrown' \subseteq alive /\ maximum_live' = maximum_live
      /\ orders' = IF Admits(orders, e) THEN After(orders, e) ELSE orders
      /\ refused' = {v \in alive : ~(Admits(orders, e) /\ Fits(v, e))}  BY DEF Apply
<1> USE <1>1
<1>2. Valid(orders')
  <2>1. e \in Event /\ Valid(orders)  BY L3BooksAssumption DEF IInv
  <2> QED  BY <2>1, ValidAfter
<1>3. thrown' = refused'  BY ApplyStep
<1>4. \A v \in alive' : Represents(v, maximum_live', books'[v], orders')  BY ApplyStep
<1>5. \A v \in thrown' : LevelsLeft(v, books'[v])  BY ApplyStep
<1> QED  BY <1>2, <1>3, <1>4, <1>5 DEF IInv

(* A version that has not thrown represents the live orders in its levels, *)
(* its index and its limits, after any events; of one that threw the       *)
(* levels are still the quantities of some orders.                         *)
THEOREM Invariance == Spec => []IInv
<1> USE Zenon
<1>1. Init => IInv
  <2> SUFFICES ASSUME Init PROVE IInv  OBVIOUS
  <2>1. maximum_live \in Nat  BY L3BooksAssumption DEF Init
  <2>2. \A v \in Versions : books[v] = New(v, maximum_live)  BY DEF Init, New
  <2>3. \A v \in Versions : Represents(v, maximum_live, books[v], orders)
    BY <2>1, <2>2, NewRepresents DEF Init
  <2> QED  BY <2>3, NoOrders DEF Init, IInv
<1>2. IInv /\ [Next]_vars => IInv'
  <2>1. ASSUME IInv, UNCHANGED vars PROVE IInv'  BY <2>1 DEF IInv, vars
  <2> QED  BY <2>1, ApplyKeeps DEF Next, Finished
<1> QED  BY <1>1, <1>2, PTL DEF Spec

(* The levels of a version that is alive or has just thrown.               *)
LEMMA PresentLevels ==
    ASSUME IInv, NEW v \in Present
    PROVE  v \in Versions /\ LevelsLeft(v, books[v])
BY Stays DEF IInv, Present

(* The books keep their types, and no level of a ladder exceeds the        *)
(* largest quantity: add_level checks before it adds.                      *)
THEOREM TypeCorrect == Spec => []TypeOK
<1>1. IInv => TypeOK
  <2> SUFFICES ASSUME IInv PROVE TypeOK  OBVIOUS
  <2>1. \A id \in DOMAIN orders : orders[id].quantity \in 1 .. MaxQuantity
    BY DEF IInv, Valid, OrderMap, LiveOrder
  <2>2. ASSUME NEW v \in Ladders \cap Present
        PROVE  books[v].ladder \in [Sides -> [Offsets -> 0 .. MaxQuantity]]
    <3>1. PICK S \in Quantities : LevelsOf(v, books[v], S)  BY PresentLevels DEF LevelsLeft
    <3>2. LadderOf(books[v], S)  BY <3>1 DEF LevelsOf, Ladders, CachedLadder, MarkedLadder
    <3>3. \A i \in Offsets : MinimumPrice + i \in Nat  BY LadderType DEF Offsets
    <3> USE <3>2
    <3>4. \A side \in Sides, i \in Offsets : books[v].ladder[side][i] \in 0 .. MaxQuantity
      BY <3>3 DEF LadderOf, Quantities
    <3> QED  BY <3>4 DEF LadderOf
  <2> QED  BY <2>1, <2>2 DEF IInv, TypeOK
<1> QED  BY <1>1, Invariance, PTL

(* state_digest of every version that is alive is the digest of the live   *)
(* orders, hence the same for all six.                                     *)
THEOREM DigestsAlwaysAgree == Spec => []DigestsAgree
<1>1. IInv => DigestsAgree  BY DigestIs DEF IInv, DigestsAgree
<1> QED  BY <1>1, Invariance, PTL

(* best_bid and best_ask of every version that is alive are the best live  *)
(* prices with the sums of their quantities.                               *)
THEOREM BestAlwaysAgrees == Spec => []BestAgrees
<1>1. IInv => BestAgrees  BY BestIs DEF IInv, BestAgrees, Represents
<1> QED  BY <1>1, Invariance, PTL

(* apply throws exactly at the events that the map of live orders does not *)
(* admit or that are beyond the limits of the version.                     *)
THEOREM AlwaysRefusesExactly == Spec => []RefusesExactly
<1>1. IInv => RefusesExactly  BY DEF IInv, RefusesExactly
<1> QED  BY <1>1, Invariance, PTL

(* The bitmaps of v4, v5 and v6 mark exactly the prices with a quantity,   *)
(* also in what a throw leaves.                                            *)
THEOREM BitmapsAlwaysAgree == Spec => []BitmapsAgree
<1>1. IInv => BitmapsAgree
  <2> SUFFICES ASSUME IInv, NEW v \in Bitmaps \cap Present PROVE Marked(books[v])
    BY DEF BitmapsAgree, Marked
  <2>1. LevelsLeft(v, books[v])  BY PresentLevels
  <2> QED  BY <2>1 DEF LevelsLeft, LevelsOf, Bitmaps, MarkedLadder, LadderBook
<1> QED  BY <1>1, Invariance, PTL

(* The best price that v3 caches is the one that a walk over the ladder    *)
(* would find, also in what a throw leaves.                                *)
THEOREM CachedBestAlwaysBest == Spec => []CachedBestIsBest
<1>1. IInv => CachedBestIsBest
  <2> SUFFICES ASSUME IInv, "v3" \in Present, NEW side \in Sides
               PROVE  refresh_best(books["v3"], side).best = books["v3"].best
    BY DEF CachedBestIsBest
  <2>1. PICK S \in Quantities : LevelsOf("v3", books["v3"], S)
    BY PresentLevels DEF LevelsLeft
  <2>2. CachedLadder(books["v3"], S)  BY <2>1 DEF LevelsOf
  <2> QED  BY <2>2, CachedBest
<1> QED  BY <1>1, Invariance, PTL

(* ChangesFirst, in terms of the operations.                               *)
LEMMA TouchedIs ==
    ASSUME NEW v \in Versions, NEW e \in Event, TouchedAt(v, maximum_live, orders, e)
    PROVE  ChangesFirst(v, e)
<1>1. EntersFirst(v, maximum_live, orders, e.order_id, e.order) /\ e.type \in {"Add", "OrderUpsert"} =>
         /\ v \in {"v5", "v6"} /\ (v = "v6" => InLadder(e.order.price))
         /\ e.order_id # 0 /\ e.order.quantity # 0 /\ e.order_id \notin DOMAIN orders
         /\ Cardinality(DOMAIN After(orders, e)) <= maximum_live
  BY Zenon DEF EntersFirst, RoomFor, Fixed, After
<1> QED  BY <1>1, Zenon DEF TouchedAt, UpsertsFirst, ChangesFirst

(* Every version, for every set of events and every limit, leaves its book *)
(* as it was when it refuses an event, but where apply changes the book    *)
(* before the check that the event fails.                                  *)
THEOREM RefusalsLeaveBook == Spec => RefusalLeavesBook
<1> DEFINE Left(v) == ChangesFirst(v, last') \/ books'[v] = books[v]
<1>1. ASSUME IInv, NEW e \in Events, Apply(e), NEW v \in thrown' PROVE Left(v)
  <2> USE <1>1
  <2>1. v \in alive /\ v \in Versions /\ last' = e /\ e \in Event
    BY L3BooksAssumption DEF Apply, IInv
  <2> USE <2>1
  <2>2. TouchedAt(v, maximum_live, orders, e) \/ books'[v] = books[v]  BY ApplyStep
  <2> QED  BY <2>2, TouchedIs, Zenon
<1>2. IInv /\ [Next]_vars => [\A v \in thrown' : Left(v)]_vars  BY <1>1 DEF Next, Finished
<1> QED  BY <1>2, Invariance, PTL DEF Spec, RefusalLeavesBook
=============================================================================
