---------------------------- MODULE L3LevelProofs ----------------------------
(***************************************************************************)
(* The quantities of the price levels in v1 (maps), v3 (ladder with a      *)
(* cached best price) and v4 to v6 (ladder with a bitmap): what add_level  *)
(* and subtract_level make of them, and what best_bid and best_ask find in *)
(* them. The end of the module follows v4, v5 and v6 each on its own       *)
(* through any sequence of events.                                         *)
(***************************************************************************)
EXTENDS L3Levels, OrderBook, DenseLadderOrderBook, BitmapLadderOrderBook, BitmapPackedOrderBook,
        FiniteSetTheorems, TLAPS

-----------------------------------------------------------------------------
(* Word and bit of a price: a price has a word of the bitmap and a bit of  *)
(* a word, no two prices share them, and every bit belongs to a price.     *)
LEMMA DivMod ==
    ASSUME NEW i \in Nat, NEW w \in Nat \ {0}
    PROVE  /\ i \div w \in Nat
           /\ i % w \in 0 .. w - 1
           /\ i = w * (i \div w) + (i % w)
OBVIOUS

(* Quotient and rest of a number are determined by it.                     *)
LEMMA DivModUnique ==
    ASSUME NEW q \in Nat, NEW w \in Nat \ {0}, NEW r \in Nat, r < w
    PROVE  (q * w + r) \div w = q /\ (q * w + r) % w = r
<1> DEFINE i == q * w + r
           d == i \div w
           m == i % w
<1>1. i \in Nat  OBVIOUS
<1>2. d \in Nat /\ m \in 0 .. w - 1 /\ i = w * d + m  BY <1>1, DivMod, Zenon
<1>3. q * w + r = w * d + m  BY <1>2
<1> HIDE DEF i, d, m
<1>4. ~(d < q)
  <2> SUFFICES ASSUME d + 1 <= q PROVE FALSE  BY <1>2
  <2>1. (d + 1) * w <= q * w  BY <1>2
  <2>2. (d + 1) * w = w * d + w  BY <1>2
  <2> QED  BY <1>2, <1>3, <2>1, <2>2
<1>5. ~(q < d)
  <2> SUFFICES ASSUME q + 1 <= d PROVE FALSE  BY <1>2
  <2>1. (q + 1) * w <= d * w  BY <1>2
  <2>2. (q + 1) * w = q * w + w /\ d * w = w * d  BY <1>2
  <2> QED  BY <1>2, <1>3, <2>1, <2>2
<1>6. d = q  BY <1>2, <1>4, <1>5
<1>7. w * d = q * w  BY <1>6
<1>8. m = r  BY <1>2, <1>3, <1>7
<1> QED  BY <1>6, <1>8 DEF i, d, m

(* A set of numbers has its minimum, and a bounded one its maximum.        *)
LEMMA MinIsLeast ==
    ASSUME NEW S \in SUBSET Nat, S # {}
    PROVE  Min(S) \in S /\ \A x \in S : Min(S) <= x
<1>1. PICK m \in S : \A x \in S : ~(<<x, m>> \in OpToRel(<, Nat))
  BY NatLessThanWellFounded, WFMin, Zenon
<1>2. ASSUME NEW x \in S  PROVE m <= x
  <2> SUFFICES ASSUME x < m PROVE FALSE  OBVIOUS
  <2>1. <<x, m>> \in OpToRel(<, Nat)  BY DEF OpToRel
  <2> QED  BY <1>1, <2>1, Zenon
<1> QED  BY <1>2, Zenon DEF Min

(* The maximum of a bounded set is in it.                                  *)
LEMMA MaxIsGreatest ==
    ASSUME NEW n \in Nat, NEW S \in SUBSET (0 .. n), S # {}
    PROVE  Max(S) \in S /\ \A x \in S : x <= Max(S)
<1> DEFINE T == {n - x : x \in S}
<1>1. T \in SUBSET Nat
  <2>1. \A x \in S : n - x \in Nat  OBVIOUS
  <2> QED  BY <2>1
<1>6. T # {}
  <2>1. PICK x \in S : TRUE  BY Zenon
  <2>2. n - x \in T  OBVIOUS
  <2> QED  BY <2>2
<1> HIDE DEF T
<1>2. Min(T) \in T /\ \A t \in T : Min(T) <= t  BY <1>1, <1>6, MinIsLeast
<1>3. PICK m \in S : Min(T) = n - m  BY <1>2 DEF T
<1>4. \A x \in S : n - m <= n - x  BY <1>2, <1>3, Zenon DEF T
<1>5. \A x \in S : m >= x  BY <1>4
<1> QED  BY <1>5, Zenon DEF Max

(* What L3Assumption says of the largest quantity and of the ladder.       *)
LEMMA QuantityType == MaxQuantity \in Nat
BY L3Assumption

(* The ladder of a book has at least one price.                            *)
LEMMA LadderType == MinimumPrice \in Nat /\ PriceCount \in Nat \ {0}
BY L3Assumption

-----------------------------------------------------------------------------
(* Entering and erasing keep a map a map.                                  *)
LEMMA PutType ==
    ASSUME NEW Order, NEW f, f \in [DOMAIN f -> Order], NEW key, NEW o \in Order
    PROVE  Put(f, key, o) \in [DOMAIN Put(f, key, o) -> Order]
BY DEF Put

(* The same of erasing.                                                    *)
LEMMA DropType ==
    ASSUME NEW Order, NEW f, f \in [DOMAIN f -> Order], NEW key
    PROVE  Drop(f, key) \in [DOMAIN Drop(f, key) -> Order]
BY DEF Drop, Restrict

(* The capacity of an order index: the doubling is a function, and after k *)
(* steps it has passed k, so that the loop of table_capacity ends.         *)
DoubledTo(n, f) == /\ f \in [Nat -> Nat] /\ f[0] = SmallestTable
                   /\ \A k \in 1 .. n : f[k] = 2 * f[k - 1]

(* The loop of table_capacity: its doublings exist to any length ...       *)
LEMMA DoublesFurther ==
    ASSUME NEW n \in Nat
    PROVE  \E f : DoubledTo(n, f)
<1> DEFINE Stuck == {k \in Nat : ~\E f : DoubledTo(k, f)}
<1> SUFFICES ASSUME Stuck # {} PROVE FALSE  OBVIOUS
<1> DEFINE m == Min(Stuck)
<1>1. m \in Stuck /\ \A k \in Stuck : m <= k  BY MinIsLeast, Zenon
<1>2. m \in Nat /\ ~\E f : DoubledTo(m, f)  BY <1>1
<1>3. m # 0
  <2> DEFINE f == [k \in Nat |-> SmallestTable]
  <2>1. DoubledTo(0, f)  BY L3Assumption DEF DoubledTo
  <2> QED  BY <1>2, <2>1, Zenon
<1> HIDE DEF m
<1>4. m - 1 \in Nat /\ m - 1 \notin Stuck  BY <1>1, <1>2, <1>3
<1>5. PICK f : DoubledTo(m - 1, f)  BY <1>4
<1> DEFINE g == [f EXCEPT ![m] = 2 * f[m - 1]]
<1>6. DoubledTo(m, g)  BY <1>2, <1>3, <1>4, <1>5 DEF DoubledTo
<1> QED  BY <1>2, <1>6, Zenon

(* ... and agree wherever two of them are defined, ...                     *)
LEMMA DoublesAlike ==
    ASSUME NEW n \in Nat, NEW f, DoubledTo(n, f), NEW g, DoubledTo(n, g), NEW k \in 0 .. n
    PROVE  f[k] = g[k]
<1> DEFINE Apart == {i \in 0 .. n : f[i] # g[i]}
<1> SUFFICES ASSUME Apart # {} PROVE FALSE  OBVIOUS
<1> DEFINE m == Min(Apart)
<1>1. m \in Apart /\ \A i \in Apart : m <= i
  <2>1. Apart \in SUBSET Nat  OBVIOUS
  <2> QED  BY <2>1, MinIsLeast, Zenon
<1>2. m \in 0 .. n /\ f[m] # g[m]  BY <1>1
<1> HIDE DEF m
<1>3. m # 0  BY <1>2 DEF DoubledTo
<1>4. m \in 1 .. n /\ m - 1 \in 0 .. n /\ m - 1 \notin Apart  BY <1>1, <1>2, <1>3
<1>5. f[m - 1] = g[m - 1]  BY <1>4
<1> QED  BY <1>2, <1>4, <1>5 DEF DoubledTo

(* ... so that Doubled satisfies its recursion, ...                        *)
LEMMA DoubledDef ==
    /\ Doubled \in [Nat -> Nat \ {0}]
    /\ Doubled[0] = SmallestTable
    /\ \A k \in Nat \ {0} : Doubled[k] = 2 * Doubled[k - 1]
<1> DEFINE F(n) == CHOOSE f : DoubledTo(n, f)
           h == [k \in Nat |-> F(k)[k]]
<1>1. \A n \in Nat : DoubledTo(n, F(n))  BY DoublesFurther, Zenon
<1> HIDE DEF F
<1>2. ASSUME NEW k \in Nat
      PROVE  h[k] = IF k = 0 THEN SmallestTable ELSE 2 * h[k - 1]
  <2>1. CASE k = 0  BY <1>1, <2>1 DEF DoubledTo
  <2>2. CASE k # 0
    <3>1. k - 1 \in Nat /\ k \in 1 .. k  BY <2>2
    <3>2. DoubledTo(k, F(k)) /\ DoubledTo(k - 1, F(k - 1))  BY <1>1, <3>1
    <3>3. DoubledTo(k - 1, F(k))  BY <3>1, <3>2 DEF DoubledTo
    <3>4. F(k)[k - 1] = F(k - 1)[k - 1]  BY <3>1, <3>2, <3>3, DoublesAlike
    <3>5. F(k)[k] = 2 * F(k)[k - 1]  BY <3>1, <3>2 DEF DoubledTo
    <3> QED  BY <2>2, <3>1, <3>4, <3>5
  <2> QED  BY <2>1, <2>2
<1>3. h = [k \in Nat |-> IF k = 0 THEN SmallestTable ELSE 2 * h[k - 1]]
  <2> HIDE DEF h
  <2>1. h = [k \in Nat |-> h[k]]  BY DEF h
  <2> QED  BY <1>2, <2>1, Zenon
<1>4. Doubled = [k \in Nat |-> IF k = 0 THEN SmallestTable ELSE 2 * Doubled[k - 1]]
  <2> HIDE DEF h
  <2> QED  BY <1>3, Zenon DEF Doubled
<1> DEFINE Bad == {k \in Nat : Doubled[k] \notin Nat \ {0}}
<1>5. Bad = {}
  <2> SUFFICES ASSUME Bad # {} PROVE FALSE  OBVIOUS
  <2> DEFINE m == Min(Bad)
  <2>1. m \in Bad /\ \A i \in Bad : m <= i  BY MinIsLeast, Zenon
  <2>2. m \in Nat /\ Doubled[m] \notin Nat \ {0}  BY <2>1
  <2> HIDE DEF m
  <2>3. Doubled[m] = IF m = 0 THEN SmallestTable ELSE 2 * Doubled[m - 1]  BY <1>4, <2>2
  <2>4. m # 0  BY <2>2, <2>3, L3Assumption
  <2>5. m - 1 \in Nat /\ m - 1 \notin Bad  BY <2>1, <2>2, <2>4
  <2>6. Doubled[m - 1] \in Nat \ {0}  BY <2>5
  <2> QED  BY <2>2, <2>3, <2>4, <2>6
<1> QED  BY <1>4, <1>5, Zenon

(* ... and passes every number.                                            *)
LEMMA DoubledGrows ==
    ASSUME NEW n \in Nat
    PROVE  Doubled[n] > n
<1> DEFINE Small == {k \in Nat : ~(Doubled[k] > k)}
<1> SUFFICES ASSUME Small # {} PROVE FALSE  OBVIOUS
<1> DEFINE m == Min(Small)
<1>1. m \in Small /\ \A i \in Small : m <= i  BY MinIsLeast, Zenon
<1>2. m \in Nat /\ ~(Doubled[m] > m)  BY <1>1
<1> HIDE DEF m
<1>3. m # 0  BY <1>2, DoubledDef
<1>4. m - 1 \in Nat /\ m - 1 \notin Small  BY <1>1, <1>2, <1>3
<1>5. Doubled[m - 1] > m - 1  BY <1>4
<1> QED  BY <1>2, <1>3, <1>4, <1>5, DoubledDef

(* The constructor of v2 to v4 finds a capacity, whatever limit it is      *)
(* given.                                                                  *)
LEMMA TableCapacity ==
    ASSUME NEW maximum \in Nat
    PROVE  table_capacity(maximum) \in Nat \ {0}
<1> DEFINE Enough == {k \in 0 .. 2 * maximum : Doubled[k] >= 2 * maximum}
<1>1. 2 * maximum \in Nat  OBVIOUS
<1>2. 2 * maximum \in Enough  BY <1>1, DoubledGrows, DoubledDef
<1>3. Enough \in SUBSET Nat /\ Enough # {}  BY <1>2
<1>4. Min(Enough) \in Nat  BY <1>3, MinIsLeast
<1> QED  BY <1>4, DoubledDef DEF table_capacity

MapLevels(b, S) == "levels" \in DOMAIN b /\ b.levels = [side \in Sides |-> LevelMap(S[side])]

-----------------------------------------------------------------------------
(* The fields of a live order.                                             *)
LEMMA OrderType ==
    ASSUME NEW o \in LiveOrder
    PROVE  o.side \in Sides /\ o.price \in Nat /\ o.quantity \in Nat \ {0}
BY DEF LiveOrder

(* The quantities after an order came, at each price ...                   *)
LEMMA PlusAt ==
    ASSUME NEW S \in Quantities, NEW o \in LiveOrder
    PROVE  /\ S[o.side][o.price] \in Nat
           /\ \A side \in Sides, price \in Nat :
                Plus(S, o)[side][price] =
                   IF side = o.side /\ price = o.price THEN S[side][price] + o.quantity
                   ELSE S[side][price]
           /\ S[o.side][o.price] + o.quantity <= MaxQuantity => Plus(S, o) \in Quantities
<1>1. \A side \in Sides, price \in Nat : S[side][price] \in 0 .. MaxQuantity  BY DEF Quantities
<1>2. \A side \in Sides, price \in Nat :
         Plus(S, o)[side][price] =
            IF side = o.side /\ price = o.price THEN S[side][price] + o.quantity ELSE S[side][price]
  BY <1>1, OrderType DEF Plus, At
<1>3. ASSUME S[o.side][o.price] + o.quantity <= MaxQuantity,
             NEW side \in Sides, NEW price \in Nat
      PROVE  Plus(S, o)[side][price] \in 0 .. MaxQuantity
  BY <1>1, <1>2, <1>3, OrderType, QuantityType
<1>4. Plus(S, o) = [side \in Sides |-> [price \in Nat |-> Plus(S, o)[side][price]]]
  BY DEF Plus
<1> HIDE DEF Plus
<1>5. ASSUME S[o.side][o.price] + o.quantity <= MaxQuantity  PROVE Plus(S, o) \in Quantities
  BY <1>3, <1>4, <1>5 DEF Quantities
<1> QED  BY <1>1, <1>2, <1>5, OrderType

(* ... and after one went.                                                 *)
LEMMA MinusAt ==
    ASSUME NEW S \in Quantities, NEW o \in LiveOrder, o.quantity <= S[o.side][o.price]
    PROVE  /\ S[o.side][o.price] \in Nat
           /\ \A side \in Sides, price \in Nat :
                Minus(S, o)[side][price] =
                   IF side = o.side /\ price = o.price THEN S[side][price] - o.quantity
                   ELSE S[side][price]
           /\ Minus(S, o) \in Quantities
<1>1. \A side \in Sides, price \in Nat : S[side][price] \in 0 .. MaxQuantity  BY DEF Quantities
<1>2. \A side \in Sides, price \in Nat :
         Minus(S, o)[side][price] =
            IF side = o.side /\ price = o.price THEN S[side][price] - o.quantity ELSE S[side][price]
  BY <1>1, OrderType DEF Minus, At
<1>3. ASSUME NEW side \in Sides, NEW price \in Nat
      PROVE  Minus(S, o)[side][price] \in 0 .. MaxQuantity
  BY <1>1, <1>2, OrderType, QuantityType
<1>4. Minus(S, o) = [side \in Sides |-> [price \in Nat |-> Minus(S, o)[side][price]]]
  BY DEF Minus
<1> HIDE DEF Minus
<1>5. Minus(S, o) \in Quantities  BY <1>3, <1>4 DEF Quantities
<1> QED  BY <1>1, <1>2, <1>5, OrderType

(* Two level operations in a row leave the index alone.                    *)
LEMMA SameIndexTwice ==
    ASSUME NEW b, NEW c, SameIndex(b, c), NEW d, SameIndex(c, d)
    PROVE  SameIndex(b, d)
BY DEF SameIndex

-----------------------------------------------------------------------------
(* Equal quantities have the same map of levels.                           *)
LEMMA SameMap ==
    ASSUME NEW F, NEW G, \A price \in Nat : F[price] = G[price]
    PROVE  LevelMap(F) = LevelMap(G)
<1>1. {p \in Nat : F[p] # 0} = {p \in Nat : G[p] # 0}  OBVIOUS
<1> QED  BY <1>1 DEF LevelMap, Quoted

(* add_to_level of v1 adds to its map, or throws before it changes it.     *)
LEMMA AddToMap ==
    ASSUME NEW S \in Quantities, NEW b, MapLevels(b, S), NEW o \in LiveOrder
    PROVE  LET r == add_to_level_v1(b, o)
               fine == S[o.side][o.price] + o.quantity <= MaxQuantity
           IN  /\ fine => \E c : r = Return(c) /\ MapLevels(c, Plus(S, o)) /\ SameIndex(b, c)
               /\ ~fine => r = Throw(b)
<1> DEFINE levels == b.levels[o.side]
           level == IF o.price \in DOMAIN levels THEN levels[o.price] ELSE 0
           fine == S[o.side][o.price] + o.quantity <= MaxQuantity
           c == [b EXCEPT !.levels[o.side] = Put(@, o.price, level + o.quantity)]
           r == add_to_level_v1(b, o)
           T == Plus(S, o)
<1>1. o.side \in Sides /\ o.price \in Nat /\ o.quantity \in Nat \ {0}  BY OrderType
<1>2. S[o.side][o.price] \in Nat  BY PlusAt
<1>3. levels = [price \in {p \in Nat : S[o.side][p] # 0} |-> S[o.side][price]]
  BY <1>1 DEF MapLevels, LevelMap, Quoted
<1>4. level = S[o.side][o.price]  BY <1>1, <1>3
<1>5. r = IF MaxQuantity - level < o.quantity THEN Throw(b) ELSE Return(c)
  BY DEF add_to_level_v1
<1>6. c.levels = [b.levels EXCEPT ![o.side] = Put(levels, o.price, level + o.quantity)]
  BY DEF MapLevels
<1>7. SameIndex(b, c)  BY DEF SameIndex, MapLevels
<1> HIDE DEF level, c, r
<1>8. (MaxQuantity - level < o.quantity) = ~fine  BY <1>1, <1>2, <1>4, QuantityType
<1>9. MapLevels(c, T)
  <2>1. \A side \in Sides, price \in Nat :
           T[side][price] = IF side = o.side /\ price = o.price THEN S[side][price] + o.quantity
                            ELSE S[side][price]
    BY PlusAt
  <2> HIDE DEF T
  <2>2. Put(levels, o.price, level + o.quantity) = LevelMap(T[o.side])
    <3>1. DOMAIN levels \cup {o.price} = {p \in Nat : T[o.side][p] # 0}
      BY <1>1, <1>2, <1>3, <2>1
    <3>2. ASSUME NEW k \in {p \in Nat : T[o.side][p] # 0}
          PROVE  (IF k = o.price THEN level + o.quantity ELSE levels[k]) = T[o.side][k]
      BY <1>1, <1>3, <1>4, <2>1, <3>1
    <3> HIDE DEF levels
    <3> QED  BY <3>1, <3>2, Zenon DEF Put, LevelMap, Quoted
  <2>3. c.levels = [side \in Sides |-> LevelMap(T[side])]
    <3>1. \A other \in Sides : other # o.side => \A price \in Nat : T[other][price] = S[other][price]
      BY <2>1
    <3>2. \A other \in Sides : other # o.side => LevelMap(T[other]) = LevelMap(S[other])
      BY <3>1, SameMap, Zenon
    <3>3. c.levels = [b.levels EXCEPT ![o.side] = LevelMap(T[o.side])]  BY <1>6, <2>2
    <3> QED  BY <1>1, <3>2, <3>3 DEF MapLevels
  <2> QED  BY <1>7, <2>3 DEF MapLevels, SameIndex
<1> HIDE DEF fine, T
<1>10. (fine => r = Return(c)) /\ (~fine => r = Throw(b))  BY <1>5, <1>8
<1> QED  BY <1>7, <1>9, <1>10 DEF fine, T, r

(* subtract_from_level of v1 erases a level that becomes empty.            *)
LEMMA SubtractFromMap ==
    ASSUME NEW S \in Quantities, NEW b, MapLevels(b, S), NEW o \in LiveOrder,
           o.quantity <= S[o.side][o.price]
    PROVE  \E c : /\ subtract_from_level_v1(b, o) = Return(c)
                  /\ MapLevels(c, Minus(S, o)) /\ SameIndex(b, c)
<1> DEFINE levels == b.levels[o.side]
           level == levels[o.price]
           f == IF level = o.quantity THEN Drop(levels, o.price)
                ELSE Put(levels, o.price, level - o.quantity)
           c == [b EXCEPT !.levels[o.side] = IF level = o.quantity THEN Drop(@, o.price)
                                             ELSE Put(@, o.price, level - o.quantity)]
           r == subtract_from_level_v1(b, o)
           T == Minus(S, o)
<1>1. o.side \in Sides /\ o.price \in Nat /\ o.quantity \in Nat \ {0}  BY OrderType
<1>2. S[o.side][o.price] \in Nat  BY MinusAt
<1>3. levels = [price \in {p \in Nat : S[o.side][p] # 0} |-> S[o.side][price]]
  BY <1>1 DEF MapLevels, LevelMap, Quoted
<1>4. o.price \in DOMAIN levels /\ level = S[o.side][o.price]  BY <1>1, <1>2, <1>3
<1>5. r = IF o.price \notin DOMAIN levels \/ o.quantity = 0 \/ o.quantity > level THEN Throw(b)
          ELSE Return(c)
  BY DEF subtract_from_level_v1
<1>6. c.levels = [b.levels EXCEPT ![o.side] = f]  BY DEF MapLevels
<1>7. SameIndex(b, c)  BY DEF SameIndex, MapLevels
<1> HIDE DEF level, c, r
<1>8. r = Return(c)  BY <1>1, <1>2, <1>4, <1>5
<1>9. MapLevels(c, T)
  <2>1. \A side \in Sides, price \in Nat :
           T[side][price] = IF side = o.side /\ price = o.price THEN S[side][price] - o.quantity
                            ELSE S[side][price]
    BY MinusAt
  <2> HIDE DEF T
  <2> DEFINE F == S[o.side]
             G == T[o.side]
  <2>0. /\ \A price \in Nat : F[price] \in Nat
        /\ \A price \in Nat : G[price] = IF price = o.price THEN F[price] - o.quantity ELSE F[price]
    BY <1>1, <2>1 DEF Quantities
  <2> HIDE DEF F, G
  <2>2. ASSUME level = o.quantity  PROVE f = LevelMap(G)
    <3>1. DOMAIN levels \ {o.price} = {p \in Nat : G[p] # 0}
      <4>1. G[o.price] = 0 /\ \A price \in Nat \ {o.price} : G[price] = F[price]
        <5>1. F[o.price] = o.quantity  BY <1>4, <2>2 DEF F
        <5> QED  BY <1>1, <2>0, <5>1
      <4>2. DOMAIN levels = {p \in Nat : F[p] # 0}  BY <1>3 DEF F
      <4> QED  BY <1>1, <4>1, <4>2
    <3>2. ASSUME NEW k \in {p \in Nat : G[p] # 0}
          PROVE  levels[k] = G[k]
      BY <1>1, <1>3, <1>4, <2>0, <3>1 DEF F
    <3> HIDE DEF levels, F
    <3>3. f = [k \in DOMAIN levels \ {o.price} |-> levels[k]]  BY <2>2 DEF Drop, Restrict
    <3> QED  BY <3>1, <3>2, <3>3, Zenon DEF LevelMap, Quoted
  <2>3. ASSUME level # o.quantity  PROVE f = LevelMap(G)
    <3>1. DOMAIN levels \cup {o.price} = {p \in Nat : G[p] # 0}
      BY <1>1, <1>3, <1>4, <2>0, <2>3 DEF F
    <3>2. ASSUME NEW k \in {p \in Nat : G[p] # 0}
          PROVE  (IF k = o.price THEN level - o.quantity ELSE levels[k]) = G[k]
      BY <1>1, <1>3, <1>4, <2>0, <3>1 DEF F
    <3> HIDE DEF levels, F
    <3>3. f = [k \in DOMAIN levels \cup {o.price} |-> IF k = o.price THEN level - o.quantity ELSE levels[k]]
      BY <2>3 DEF Put
    <3> QED  BY <3>1, <3>2, <3>3, Zenon DEF LevelMap, Quoted
  <2>4. f = LevelMap(T[o.side])  BY <2>2, <2>3 DEF G
  <2> HIDE DEF f
  <2>5. c.levels = [side \in Sides |-> LevelMap(T[side])]
    <3>1. \A other \in Sides : other # o.side => \A price \in Nat : T[other][price] = S[other][price]
      BY <2>1
    <3>2. \A other \in Sides : other # o.side => LevelMap(T[other]) = LevelMap(S[other])
      BY <3>1, SameMap, Zenon
    <3>3. c.levels = [b.levels EXCEPT ![o.side] = LevelMap(T[o.side])]  BY <1>6, <2>4
    <3> QED  BY <1>1, <3>2, <3>3 DEF MapLevels
  <2> QED  BY <1>7, <2>5 DEF MapLevels, SameIndex
<1> QED  BY <1>7, <1>8, <1>9 DEF r

(* Bit i is set exactly when price i has a quantity.                       *)
Marked(b) == \A side \in Sides, i \in Offsets :
                i % WordBits \in b.occupied[side][i \div WordBits] <=> b.ladder[side][i] # 0

(* A book as far as its ladders and bitmaps go.                            *)
LadderBook(b) == /\ {"ladder", "occupied"} \subseteq DOMAIN b
                 /\ b.ladder \in [Sides -> [Offsets -> Nat]]
                 /\ b.occupied \in [Sides -> [Words -> SUBSET Bits]]
                 /\ Marked(b)

(* What add_level_v4 and subtract_level_v4 are given.                      *)
IsOrder(o) == o.side \in Sides /\ o.price \in Int /\ o.quantity \in Nat

(* A price has a word of the bitmap and a bit of the word ...              *)
LEMMA WordOfPrice ==
    ASSUME NEW i \in Offsets
    PROVE  i \in Nat /\ i \div WordBits \in Words /\ i % WordBits \in Bits
<1> DEFINE q == i \div WordBits
           n == PriceCount \div WordBits
<1>1. i \in Nat /\ i < PriceCount  BY L3Assumption DEF Offsets
<1>2. q \in Nat /\ i % WordBits \in 0 .. WordBits - 1 /\ i = WordBits * q + (i % WordBits)
  BY <1>1, L3Assumption, DivMod
<1>3. n \in Nat /\ PriceCount = WordBits * n
  BY L3Assumption, DivMod
<1>4. WordBits * q < WordBits * n
  BY <1>1, <1>2, <1>3, L3Assumption
<1> HIDE DEF q, n
<1>5. q < n
  <2> SUFFICES ASSUME q >= n PROVE FALSE  BY <1>2, <1>3
  <2>1. WordBits * q >= WordBits * n  BY <1>2, <1>3, L3Assumption
  <2> QED  BY <1>2, <1>3, <1>4, <2>1, L3Assumption
<1> QED  BY <1>1, <1>2, <1>3, <1>5 DEF Words, Bits, q, n

(* ... no other price shares them ...                                      *)
LEMMA OnePricePerBit ==
    ASSUME NEW i \in Offsets, NEW j \in Offsets,
           i \div WordBits = j \div WordBits, i % WordBits = j % WordBits
    PROVE  i = j
<1>1. i \in Nat /\ j \in Nat  BY WordOfPrice
<1>2. i = WordBits * (i \div WordBits) + (i % WordBits)  BY <1>1, L3Assumption, DivMod
<1>3. j = WordBits * (j \div WordBits) + (j % WordBits)  BY <1>1, L3Assumption, DivMod
<1> QED  BY <1>2, <1>3

(* ... and every bit belongs to a price.                                   *)
LEMMA PriceOfBit ==
    ASSUME NEW word \in Words, NEW bit \in Bits
    PROVE  LET i == word * WordBits + bit
           IN  i \in Offsets /\ i \div WordBits = word /\ i % WordBits = bit
<1> DEFINE n == PriceCount \div WordBits
<1>1. n \in Nat /\ PriceCount = WordBits * n  BY L3Assumption, DivMod
<1>2. word \in Nat /\ bit \in Nat /\ word < n /\ bit < WordBits
  BY <1>1, L3Assumption DEF Words, Bits
<1> HIDE DEF n
<1>3. (word + 1) * WordBits <= n * WordBits
  BY <1>1, <1>2, L3Assumption
<1>4. word * WordBits + bit < (word + 1) * WordBits
  BY <1>2, L3Assumption
<1>5. word * WordBits \in Nat  BY <1>2, L3Assumption
<1>6. word * WordBits + bit < PriceCount
  BY <1>1, <1>2, <1>3, <1>4, <1>5, L3Assumption
<1>7. word * WordBits + bit \in Offsets
  BY <1>2, <1>5, <1>6, L3Assumption DEF Offsets
<1>8. (word * WordBits + bit) \div WordBits = word /\ (word * WordBits + bit) % WordBits = bit
  BY <1>2, L3Assumption, DivModUnique
<1> QED  BY <1>7, <1>8
-----------------------------------------------------------------------------
(* A price changes together with its word of the bitmap; they stay in step *)

(* if the bit of the new quantity is right and no other bit changes.       *)
Updated(b, side, i, quantity, word) == [b EXCEPT !.ladder[side][i] = quantity,
                                                 !.occupied[side][i \div WordBits] = word]

(* A change of one price and its bit keeps ladder and bitmap in step.      *)
LEMMA MarkedStep ==
    ASSUME NEW b, LadderBook(b), NEW side \in Sides, NEW i \in Offsets, NEW quantity \in Nat,
           NEW word \in SUBSET Bits,
           i % WordBits \in word <=> quantity # 0,
           \A bit \in Bits \ {i % WordBits} :
              bit \in word <=> bit \in b.occupied[side][i \div WordBits]
    PROVE  LadderBook(Updated(b, side, i, quantity, word))
<1> DEFINE c == Updated(b, side, i, quantity, word)
<1>1. i \div WordBits \in Words /\ i % WordBits \in Bits  BY WordOfPrice
<1>2. /\ DOMAIN c = DOMAIN b
      /\ c.ladder = [b.ladder EXCEPT ![side][i] = quantity]
      /\ c.occupied = [b.occupied EXCEPT ![side][i \div WordBits] = word]
  BY DEF LadderBook, Updated
<1> HIDE DEF c
<1>3. /\ c.ladder \in [Sides -> [Offsets -> Nat]]
      /\ c.occupied \in [Sides -> [Words -> SUBSET Bits]]
  BY <1>1, <1>2 DEF LadderBook
<1>4. ASSUME NEW s \in Sides, NEW j \in Offsets
      PROVE  j % WordBits \in c.occupied[s][j \div WordBits] <=> c.ladder[s][j] # 0
  <2>1. /\ j \div WordBits \in Words /\ j % WordBits \in Bits  BY WordOfPrice
  <2>2. j % WordBits \in b.occupied[s][j \div WordBits] <=> b.ladder[s][j] # 0
    BY DEF LadderBook, Marked
  <2>3. c.ladder[s][j] = IF s = side /\ j = i THEN quantity ELSE b.ladder[s][j]
    BY <1>2 DEF LadderBook
  <2>4. c.occupied[s][j \div WordBits] =
          IF s = side /\ j \div WordBits = i \div WordBits THEN word
          ELSE b.occupied[s][j \div WordBits]
    BY <1>1, <1>2, <2>1 DEF LadderBook
  <2>5. CASE s = side /\ j = i  BY <2>3, <2>4, <2>5
  <2>6. CASE s = side /\ j # i /\ j \div WordBits = i \div WordBits
    <3>1. j % WordBits # i % WordBits  BY <2>6, OnePricePerBit
    <3> QED  BY <2>1, <2>2, <2>3, <2>4, <2>6, <3>1
  <2>7. CASE s # side \/ j \div WordBits # i \div WordBits
    BY <2>2, <2>3, <2>4, <2>7
  <2> QED  BY <2>5, <2>6, <2>7
<1>5. LadderBook(c)  BY <1>2, <1>3, <1>4 DEF LadderBook, Marked
<1> QED  BY <1>5 DEF c

(* add_level_v4, whether it throws or not, leaves a book whose bitmaps mark*)
(* the occupied prices.                                                    *)
LEMMA AddLevelMarks ==
    ASSUME NEW b, LadderBook(b), NEW o, IsOrder(o), o.quantity # 0
    PROVE  LadderBook(add_level_v4(b, o).book)
<1> DEFINE i == offset(o.price)
           level == b.ladder[o.side][i]
           word == IF level = 0 THEN b.occupied[o.side][i \div WordBits] \cup {i % WordBits}
                   ELSE b.occupied[o.side][i \div WordBits]
<1>1. CASE add_level_v4(b, o) = Throw(b)  BY <1>1 DEF Throw
<1>2. CASE InLadder(o.price) /\ ~(MaxQuantity - level < o.quantity)
  <2>1. i \in Offsets
    BY <1>2, L3Assumption DEF InLadder, offset, Offsets, IsOrder
  <2>2. /\ i \div WordBits \in Words /\ i % WordBits \in Bits  BY <2>1, WordOfPrice
  <2>3. o.side \in Sides /\ o.quantity \in Nat  BY DEF IsOrder
  <2>4. level \in Nat /\ b.occupied[o.side][i \div WordBits] \in SUBSET Bits
    BY <2>1, <2>2, <2>3 DEF LadderBook
  <2>5. i % WordBits \in b.occupied[o.side][i \div WordBits] <=> level # 0
    BY <2>1, <2>3 DEF LadderBook, Marked
  <2>6. add_level_v4(b, o).book = Updated(b, o.side, i, level + o.quantity, word)
    BY <1>2 DEF add_level_v4, Return, Updated
  <2> HIDE DEF i, level
  <2>7. level + o.quantity \in Nat /\ level + o.quantity # 0  BY <2>3, <2>4
  <2>8. word \in SUBSET Bits  BY <2>2, <2>4
  <2>9. i % WordBits \in word  BY <2>5
  <2>10. \A bit \in Bits \ {i % WordBits} :
            bit \in word <=> bit \in b.occupied[o.side][i \div WordBits]
    OBVIOUS
  <2> HIDE DEF word
  <2> QED  BY <2>1, <2>3, <2>6, <2>7, <2>8, <2>9, <2>10, MarkedStep
<1>3. add_level_v4(b, o) = Throw(b) \/ (InLadder(o.price) /\ ~(MaxQuantity - level < o.quantity))
  BY DEF add_level_v4
<1> QED  BY <1>1, <1>2, <1>3

(* So does subtract_level_v4.                                              *)
LEMMA SubtractLevelMarks ==
    ASSUME NEW b, LadderBook(b), NEW o, IsOrder(o)
    PROVE  LadderBook(subtract_level_v4(b, o).book)
<1> DEFINE i == offset(o.price)
           level == b.ladder[o.side][i]
           word == IF level = o.quantity THEN b.occupied[o.side][i \div WordBits] \ {i % WordBits}
                   ELSE b.occupied[o.side][i \div WordBits]
<1>1. CASE subtract_level_v4(b, o) = Throw(b)  BY <1>1 DEF Throw
<1>2. CASE InLadder(o.price) /\ ~(o.quantity = 0 \/ o.quantity > level)
  <2>1. i \in Offsets
    BY <1>2, L3Assumption DEF InLadder, offset, Offsets, IsOrder
  <2>2. /\ i \div WordBits \in Words /\ i % WordBits \in Bits  BY <2>1, WordOfPrice
  <2>3. o.side \in Sides /\ o.quantity \in Nat  BY DEF IsOrder
  <2>4. level \in Nat /\ b.occupied[o.side][i \div WordBits] \in SUBSET Bits
    BY <2>1, <2>2, <2>3 DEF LadderBook
  <2>5. i % WordBits \in b.occupied[o.side][i \div WordBits] <=> level # 0
    BY <2>1, <2>3 DEF LadderBook, Marked
  <2>6. subtract_level_v4(b, o).book = Updated(b, o.side, i, level - o.quantity, word)
    BY <1>2 DEF subtract_level_v4, Return, Updated
  <2>11. ~(o.quantity = 0 \/ o.quantity > level)  BY <1>2
  <2> HIDE DEF i, level
  <2>7. level - o.quantity \in Nat /\ level # 0 /\ (level - o.quantity = 0 <=> level = o.quantity)
    BY <2>11, <2>3, <2>4
  <2>8. word \in SUBSET Bits  BY <2>4
  <2>9. i % WordBits \in word <=> level # o.quantity  BY <2>5, <2>7
  <2>10. \A bit \in Bits \ {i % WordBits} :
            bit \in word <=> bit \in b.occupied[o.side][i \div WordBits]
    OBVIOUS
  <2> HIDE DEF word
  <2> QED  BY <2>1, <2>3, <2>6, <2>7, <2>8, <2>9, <2>10, MarkedStep
<1>3. \/ subtract_level_v4(b, o) = Throw(b)
      \/ InLadder(o.price) /\ ~(o.quantity = 0 \/ o.quantity > level)
  BY DEF subtract_level_v4
<1> QED  BY <1>1, <1>2, <1>3
-----------------------------------------------------------------------------
(* A set of natural numbers has a least element, and a bounded one has a   *)

(* The prices of a side that have a quantity.                              *)
OccupiedOffsets(b, side) == {i \in Offsets : b.ladder[side][i] # 0}

(* The scan of the words and then of the bits of one word, which best does *)
(* with the highest or the lowest set bit, finds the extreme price.        *)
THEOREM ScanFindsBest ==
    ASSUME NEW b, LadderBook(b), NEW side \in Sides
    PROVE  /\ OccupiedOffsets(b, side) = {} => best_v4(b, side) = NoLevel
           /\ OccupiedOffsets(b, side) # {} =>
                \E i \in OccupiedOffsets(b, side) :
                   /\ best_v4(b, side) = <<MinimumPrice + i, b.ladder[side][i]>>
                   /\ \A j \in OccupiedOffsets(b, side) : IF side = "Bid" THEN j <= i ELSE i <= j
<1> DEFINE map == b.occupied[side]
           words == {word \in Words : map[word] # {}}
<1>1. map \in [Words -> SUBSET Bits]  BY DEF LadderBook
<1>2. \A i \in Offsets : i % WordBits \in map[i \div WordBits] <=> i \in OccupiedOffsets(b, side)
  BY DEF LadderBook, Marked, OccupiedOffsets
<1>3. PriceCount \div WordBits \in Nat  BY L3Assumption, DivMod
<1>4. words \in SUBSET (0 .. PriceCount \div WordBits) /\ words \in SUBSET Nat
  BY <1>3 DEF Words
<1>5. ASSUME NEW j \in OccupiedOffsets(b, side)
      PROVE  j \in Nat /\ j \div WordBits \in words /\ j % WordBits \in map[j \div WordBits]
             /\ j = WordBits * (j \div WordBits) + (j % WordBits)
  <2>1. j \in Offsets  BY DEF OccupiedOffsets
  <2>2. j \in Nat /\ j \div WordBits \in Words  BY <2>1, WordOfPrice
  <2>3. j % WordBits \in map[j \div WordBits]  BY <1>2, <2>1
  <2>4. j = WordBits * (j \div WordBits) + (j % WordBits)  BY <2>2, L3Assumption, DivMod
  <2> QED  BY <2>2, <2>3, <2>4
<1>6. ASSUME NEW word \in words, NEW bit \in map[word]
      PROVE  word * WordBits + bit \in OccupiedOffsets(b, side)
  <2>1. word \in Words /\ bit \in Bits  BY <1>1
  <2> DEFINE i == word * WordBits + bit
  <2>2. i \in Offsets /\ i \div WordBits = word /\ i % WordBits = bit  BY <2>1, PriceOfBit
  <2> HIDE DEF i
  <2>3. i \in OccupiedOffsets(b, side)  BY <1>2, <2>2
  <2> QED  BY <2>3 DEF i
<1>7. CASE words = {}
  BY <1>5, <1>7 DEF best_v4
<1>8. CASE words # {}
  <2> DEFINE word == IF side = "Bid" THEN Max(words) ELSE Min(words)
             bit == IF side = "Bid" THEN Max(map[word]) ELSE Min(map[word])
             i == word * WordBits + bit
  <2>1. word \in words /\ \A w \in words : IF side = "Bid" THEN w <= word ELSE word <= w
    BY <1>3, <1>4, <1>8, MinIsLeast, MaxIsGreatest, Zenon
  <2>2. best_v4(b, side) = <<MinimumPrice + i, b.ladder[side][i]>>
    BY <1>8, Zenon DEF best_v4, Sides
  <2> HIDE DEF word
  <2>3. map[word] # {} /\ map[word] \in SUBSET (0 .. WordBits) /\ map[word] \in SUBSET Nat
    BY <1>1, <2>1, L3Assumption DEF Bits
  <2>4. bit \in map[word] /\ \A t \in map[word] : IF side = "Bid" THEN t <= bit ELSE bit <= t
    BY <2>3, L3Assumption, MinIsLeast, MaxIsGreatest
  <2> HIDE DEF bit
  <2>5. i \in OccupiedOffsets(b, side)  BY <1>6, <2>1, <2>4
  <2>6. ASSUME NEW j \in OccupiedOffsets(b, side)
        PROVE  IF side = "Bid" THEN j <= i ELSE i <= j
    <3> DEFINE w == j \div WordBits
               t == j % WordBits
    <3>1. j \in Nat /\ w \in words /\ t \in map[w] /\ j = WordBits * w + t  BY <1>5
    <3>2. w \in Nat /\ word \in Nat  BY <1>4, <2>1, <3>1
    <3>3. t \in 0 .. WordBits - 1 /\ bit \in 0 .. WordBits - 1  BY <1>1, <2>1, <2>4, <3>1 DEF Bits
    <3>4. w = word => t \in map[word]  BY <3>1
    <3> HIDE DEF w, t
    <3>5. CASE w = word  BY <2>4, <3>1, <3>2, <3>3, <3>4, <3>5, L3Assumption
    <3>6. CASE side = "Bid" /\ w < word
      <4>1. (w + 1) * WordBits <= word * WordBits  BY <3>2, <3>6, L3Assumption
      <4>2. j < (w + 1) * WordBits  BY <3>1, <3>2, <3>3, L3Assumption
      <4>3. w * WordBits \in Nat /\ word * WordBits \in Nat /\ (w + 1) * WordBits \in Nat  BY <3>2, L3Assumption
      <4> QED  BY <3>1, <3>3, <3>6, <4>1, <4>2, <4>3
    <3>7. CASE side # "Bid" /\ word < w
      <4>1. (word + 1) * WordBits <= w * WordBits  BY <3>2, <3>7, L3Assumption
      <4>2. i < (word + 1) * WordBits  BY <3>2, <3>3, L3Assumption
      <4>3. w * WordBits \in Nat /\ word * WordBits \in Nat /\ (word + 1) * WordBits \in Nat  BY <3>2, L3Assumption
      <4>4. w * WordBits <= j  BY <3>1, <3>2, <3>3, L3Assumption
      <4> QED  BY <3>1, <3>3, <3>7, <4>1, <4>2, <4>3, <4>4
    <3> QED  BY <2>1, <3>1, <3>2, <3>5, <3>6, <3>7
  <2> QED  BY <2>2, <2>5, <2>6
<1> QED  BY <1>7, <1>8

-----------------------------------------------------------------------------
(* v3 to v6: an array of the quantities in the range of the ladder.        *)
LadderOf(b, S) ==
    /\ "ladder" \in DOMAIN b
    /\ b.ladder \in [Sides -> [Offsets -> Nat]]
    /\ \A side \in Sides, i \in Offsets : b.ladder[side][i] = S[side][MinimumPrice + i]
    /\ \A side \in Sides, price \in Nat : S[side][price] # 0 => InLadder(price)

(* v3: the best of the occupied offsets is cached.                         *)
Extreme(side, left, i) == i \in left /\ \A j \in left : IF side = "Bid" THEN j <= i ELSE i <= j

Caches(side, left, price) ==
    IF left = {} THEN price = NoPrice
    ELSE \E i \in left : price = MinimumPrice + i /\ Extreme(side, left, i)

CachedLadder(b, S) ==
    /\ LadderOf(b, S)
    /\ "best" \in DOMAIN b /\ b.best \in [Sides -> Int]
    /\ \A side \in Sides : Caches(side, OccupiedOffsets(b, side), b.best[side])

(* v4 to v6: the occupied offsets are marked in a bitmap.                  *)
MarkedLadder(b, S) == LadderOf(b, S) /\ LadderBook(b)

-----------------------------------------------------------------------------
(* A ladder has the quantity of a price at its offset.                     *)
LEMMA LadderAt ==
    ASSUME NEW S \in Quantities, NEW b, LadderOf(b, S), NEW side \in Sides, NEW price \in Nat,
           InLadder(price)
    PROVE  offset(price) \in Offsets /\ b.ladder[side][offset(price)] = S[side][price]
<1>1. offset(price) \in Offsets /\ MinimumPrice + offset(price) = price
  BY LadderType DEF offset, Offsets, InLadder
<1> QED  BY <1>1 DEF LadderOf

LadderSet(b, c, side, price, quantity) ==
    "ladder" \in DOMAIN c /\ c.ladder = [b.ladder EXCEPT ![side][offset(price)] = quantity]

Reoccupied(b, c, side, price, quantity) ==
    /\ \A s \in Sides \ {side} : OccupiedOffsets(c, s) = OccupiedOffsets(b, s)
    /\ OccupiedOffsets(c, side) = IF quantity = 0
                                  THEN OccupiedOffsets(b, side) \ {offset(price)}
                                  ELSE OccupiedOffsets(b, side) \cup {offset(price)}

(* A change of one quantity in the ladder.                                 *)
LEMMA LadderUpdate ==
    ASSUME NEW S \in Quantities, NEW b, LadderOf(b, S), NEW T \in Quantities,
           NEW side \in Sides, NEW price \in Nat, InLadder(price),
           SameElsewhere(S, T, side, price),
           NEW c, LadderSet(b, c, side, price, T[side][price])
    PROVE  LadderOf(c, T) /\ Reoccupied(b, c, side, price, T[side][price])
<1>1. offset(price) \in Offsets /\ MinimumPrice + offset(price) = price
  BY LadderType DEF offset, Offsets, InLadder
<1>2. b.ladder \in [Sides -> [Offsets -> Nat]]  BY DEF LadderOf
<1>3. T[side][price] \in Nat  BY QuantityType DEF Quantities
<1>4. \A s \in Sides, i \in Offsets :
         c.ladder[s][i] = IF s = side /\ i = offset(price) THEN T[side][price] ELSE b.ladder[s][i]
  BY <1>1, <1>2 DEF LadderSet
<1>5. c.ladder \in [Sides -> [Offsets -> Nat]]  BY <1>1, <1>2, <1>3 DEF LadderSet
<1>6. ASSUME NEW s \in Sides, NEW i \in Offsets  PROVE c.ladder[s][i] = T[s][MinimumPrice + i]
  <2>1. MinimumPrice + i \in Nat /\ (MinimumPrice + i = price => i = offset(price))
    BY LadderType DEF offset, Offsets
  <2>2. b.ladder[s][i] = S[s][MinimumPrice + i]  BY DEF LadderOf
  <2> QED  BY <1>1, <1>4, <2>1, <2>2 DEF SameElsewhere
<1>7. ASSUME NEW s \in Sides, NEW p \in Nat, T[s][p] # 0  PROVE InLadder(p)
  BY <1>7 DEF LadderOf, SameElsewhere
<1>8. LadderOf(c, T)  BY <1>5, <1>6, <1>7 DEF LadderOf, LadderSet
<1>9. \A s \in Sides \ {side} : OccupiedOffsets(c, s) = OccupiedOffsets(b, s)
  BY <1>4 DEF OccupiedOffsets
<1>10. OccupiedOffsets(c, side) = IF T[side][price] = 0
                                  THEN OccupiedOffsets(b, side) \ {offset(price)}
                                  ELSE OccupiedOffsets(b, side) \cup {offset(price)}
  BY <1>1, <1>4 DEF OccupiedOffsets
<1> QED  BY <1>8, <1>9, <1>10 DEF Reoccupied

-----------------------------------------------------------------------------
(* add_level of v4 to v6 sets the bit of the level, or throws before any   *)
(* change.                                                                 *)
LEMMA AddToMarked ==
    ASSUME NEW S \in Quantities, NEW b, MarkedLadder(b, S), NEW o \in LiveOrder
    PROVE  LET r == add_level_v4(b, o)
               fine == InLadder(o.price) /\ S[o.side][o.price] + o.quantity <= MaxQuantity
           IN  /\ fine => \E c : r = Return(c) /\ MarkedLadder(c, Plus(S, o)) /\ SameIndex(b, c)
               /\ ~fine => r = Throw(b)
<1> DEFINE i == offset(o.price)
           level == b.ladder[o.side][i]
           r == add_level_v4(b, o)
           T == Plus(S, o)
           c == [b EXCEPT !.ladder[o.side][i] = level + o.quantity,
                          !.occupied[o.side][i \div WordBits] =
                                IF level = 0 THEN @ \cup {i % WordBits} ELSE @]
<1>1. o.side \in Sides /\ o.price \in Nat /\ o.quantity \in Nat \ {0}  BY OrderType
<1>2. S[o.side][o.price] \in Nat  BY PlusAt
<1>3. LadderOf(b, S) /\ LadderBook(b)  BY DEF MarkedLadder
<1>4. CASE ~InLadder(o.price)  BY <1>4 DEF add_level_v4
<1>5. CASE InLadder(o.price)
  <2>1. i \in Offsets /\ level = S[o.side][o.price]  BY <1>1, <1>3, <1>5, LadderAt
  <2>2. r = IF MaxQuantity - level < o.quantity THEN Throw(b) ELSE Return(c)
    BY <1>5 DEF add_level_v4
  <2>3. "ladder" \in DOMAIN b /\ "occupied" \in DOMAIN b  BY <1>3 DEF LadderBook
  <2>4. c.ladder = [b.ladder EXCEPT ![o.side][i] = level + o.quantity]  BY <2>3
  <2>5. SameIndex(b, c)  BY Zenon DEF SameIndex
  <2>6. "ladder" \in DOMAIN c  BY <2>3
  <2> HIDE DEF level, c, r, i
  <2>7. (MaxQuantity - level < o.quantity) = ~(S[o.side][o.price] + o.quantity <= MaxQuantity)
    BY <1>1, <1>2, <2>1, QuantityType
  <2>8. CASE ~(S[o.side][o.price] + o.quantity <= MaxQuantity)  BY <2>2, <2>7, <2>8 DEF r
  <2>9. CASE S[o.side][o.price] + o.quantity <= MaxQuantity
    <3>1. r = Return(c)  BY <2>2, <2>7, <2>9
    <3>2. T \in Quantities /\ T[o.side][o.price] = level + o.quantity
      BY <1>1, <2>1, <2>9, PlusAt
    <3>3. SameElsewhere(S, T, o.side, o.price)  BY PlusAt DEF SameElsewhere
    <3> HIDE DEF T
    <3>4. LadderOf(c, T)
      <4>1. LadderSet(b, c, o.side, o.price, T[o.side][o.price])
        BY <2>4, <2>6, <3>2 DEF i, LadderSet
      <4> QED  BY <1>1, <1>3, <1>5, <3>2, <3>3, <4>1, LadderUpdate, Zenon
    <3>5. LadderBook(c)
      <4>1. IsOrder(o) /\ o.quantity # 0  BY <1>1 DEF IsOrder
      <4>2. LadderBook(r.book)  BY <1>3, <4>1, AddLevelMarks DEF r
      <4> QED  BY <3>1, <4>2 DEF Return
    <3> QED  BY <1>5, <2>5, <2>9, <3>1, <3>4, <3>5 DEF MarkedLadder, T, r
  <2> QED  BY <2>8, <2>9
<1> QED  BY <1>4, <1>5

(* subtract_level of v4 to v6 clears the bit of a level that becomes       *)
(* empty.                                                                  *)
LEMMA SubtractFromMarked ==
    ASSUME NEW S \in Quantities, NEW b, MarkedLadder(b, S), NEW o \in LiveOrder,
           o.quantity <= S[o.side][o.price]
    PROVE  \E c : /\ subtract_level_v4(b, o) = Return(c)
                  /\ MarkedLadder(c, Minus(S, o)) /\ SameIndex(b, c)
<1> DEFINE i == offset(o.price)
           level == b.ladder[o.side][i]
           r == subtract_level_v4(b, o)
           T == Minus(S, o)
           c == [b EXCEPT !.ladder[o.side][i] = level - o.quantity,
                          !.occupied[o.side][i \div WordBits] =
                                IF level = o.quantity THEN @ \ {i % WordBits} ELSE @]
<1>1. o.side \in Sides /\ o.price \in Nat /\ o.quantity \in Nat \ {0}  BY OrderType
<1>2. S[o.side][o.price] \in Nat  BY MinusAt
<1>3. LadderOf(b, S) /\ LadderBook(b)  BY DEF MarkedLadder
<1>4. InLadder(o.price)  BY <1>1, <1>2, <1>3 DEF LadderOf
<1>5. i \in Offsets /\ level = S[o.side][o.price]  BY <1>1, <1>3, <1>4, LadderAt
<1>6. r = IF o.quantity = 0 \/ o.quantity > level THEN Throw(b) ELSE Return(c)
  BY <1>4 DEF subtract_level_v4
<1>7. "ladder" \in DOMAIN b /\ "occupied" \in DOMAIN b  BY <1>3 DEF LadderBook
<1>8. c.ladder = [b.ladder EXCEPT ![o.side][i] = level - o.quantity]  BY <1>7
<1>9. SameIndex(b, c)  BY Zenon DEF SameIndex
<1>10. "ladder" \in DOMAIN c  BY <1>7
<1> HIDE DEF level, c, r, i
<1>11. r = Return(c)  BY <1>1, <1>2, <1>5, <1>6
<1>12. T \in Quantities /\ T[o.side][o.price] = level - o.quantity
  BY <1>1, <1>5, MinusAt
<1>13. SameElsewhere(S, T, o.side, o.price)  BY MinusAt DEF SameElsewhere
<1> HIDE DEF T
<1>14. LadderOf(c, T)
  <2>1. LadderSet(b, c, o.side, o.price, T[o.side][o.price])
    BY <1>8, <1>10, <1>12 DEF i, LadderSet
  <2> QED  BY <1>1, <1>3, <1>4, <1>12, <1>13, <2>1, LadderUpdate, Zenon
<1>15. LadderBook(c)
  <2>1. IsOrder(o)  BY <1>1 DEF IsOrder
  <2>2. LadderBook(r.book)  BY <1>3, <2>1, SubtractLevelMarks DEF r
  <2> QED  BY <1>11, <2>2 DEF Return
<1> QED  BY <1>9, <1>11, <1>14, <1>15 DEF MarkedLadder, T, r

-----------------------------------------------------------------------------
(* An extreme of the offsets stays one while no better offset comes.       *)
LEMMA ExtremeJoin ==
    ASSUME NEW left \in SUBSET Offsets, NEW i \in Offsets, NEW side \in Sides, NEW price \in Nat,
           price = MinimumPrice + i, NEW cached, Caches(side, left, cached)
    PROVE  Caches(side, left \cup {i},
                  IF cached = NoPrice \/ Better(side, price, cached) THEN price ELSE cached)
<1>1. Offsets \subseteq Nat /\ NoPrice \notin Nat  BY LadderType DEF Offsets, NoPrice
<1>2. left \cup {i} # {}  OBVIOUS
<1>3. CASE left = {}
  <2>1. cached = NoPrice /\ left \cup {i} = {i}  BY <1>3 DEF Caches
  <2>2. Extreme(side, {i}, i)  BY <1>1 DEF Extreme
  <2> QED  BY <2>1, <2>2, Zenon DEF Caches
<1>4. CASE left # {}
  <2>1. PICK k \in left : cached = MinimumPrice + k /\ Extreme(side, left, k)
    BY <1>4 DEF Caches
  <2>2. cached # NoPrice  BY <1>1, <2>1, LadderType
  <2>3. CASE Better(side, price, cached)
    <3>1. IF side = "Bid" THEN k < i ELSE i < k  BY <1>1, <2>1, <2>3, LadderType DEF Better
    <3>2. Extreme(side, left \cup {i}, i)  BY <1>1, <2>1, <3>1 DEF Extreme
    <3> QED  BY <1>2, <2>3, <3>2 DEF Caches
  <2>4. CASE ~Better(side, price, cached)
    <3>1. IF side = "Bid" THEN i <= k ELSE k <= i  BY <1>1, <2>1, <2>4, LadderType DEF Better
    <3>2. Extreme(side, left \cup {i}, k)  BY <1>1, <2>1, <3>1 DEF Extreme
    <3> QED  BY <1>2, <2>1, <2>2, <2>4, <3>2 DEF Caches
  <2> QED  BY <2>3, <2>4
<1> QED  BY <1>3, <1>4

(* The walk of refresh_best finds the extreme offset.                      *)
Walked(side, left) == IF left = {} THEN NoPrice
                      ELSE MinimumPrice + (IF side = "Bid" THEN Max(left) ELSE Min(left))

(* refresh_best of v3 walks to the best price that has a quantity.         *)
LEMMA WalkedCaches ==
    ASSUME NEW left \in SUBSET Offsets, NEW side \in Sides
    PROVE  Caches(side, left, Walked(side, left))
<1>1. CASE left = {}  BY <1>1 DEF Caches, Walked
<1>2. CASE left # {}
  <2>1. PriceCount - 1 \in Nat /\ Offsets = 0 .. PriceCount - 1 /\ left \in SUBSET Nat
    BY LadderType DEF Offsets
  <2>2. Max(left) \in left /\ \A x \in left : x <= Max(left)  BY <1>2, <2>1, MaxIsGreatest, Zenon
  <2>3. Min(left) \in left /\ \A x \in left : Min(left) <= x  BY <1>2, <2>1, MinIsLeast
  <2> QED  BY <1>2, <2>2, <2>3 DEF Caches, Walked, Extreme
<1> QED  BY <1>1, <1>2

(* There is one such price.                                                *)
LEMMA CachesOne ==
    ASSUME NEW left \in SUBSET Offsets, NEW side \in Sides, NEW p, NEW q,
           Caches(side, left, p), Caches(side, left, q)
    PROVE  p = q
<1>1. CASE left = {}  BY <1>1 DEF Caches
<1>2. CASE left # {}
  <2>1. PICK i \in left : p = MinimumPrice + i /\ Extreme(side, left, i)  BY <1>2 DEF Caches
  <2>2. PICK j \in left : q = MinimumPrice + j /\ Extreme(side, left, j)  BY <1>2 DEF Caches
  <2>3. i \in Nat /\ j \in Nat  BY LadderType DEF Offsets
  <2>4. i = j  BY <2>1, <2>2, <2>3 DEF Extreme
  <2> QED  BY <2>1, <2>2, <2>4
<1> QED  BY <1>1, <1>2

(* add_level of v3 moves the cached price to a better one, or throws       *)
(* before any change.                                                      *)
LEMMA AddToCached ==
    ASSUME NEW S \in Quantities, NEW b, CachedLadder(b, S), NEW o \in LiveOrder
    PROVE  LET r == add_level_v3(b, o)
               fine == InLadder(o.price) /\ S[o.side][o.price] + o.quantity <= MaxQuantity
           IN  /\ fine => \E c : r = Return(c) /\ CachedLadder(c, Plus(S, o)) /\ SameIndex(b, c)
               /\ ~fine => r = Throw(b)
<1> DEFINE i == offset(o.price)
           level == b.ladder[o.side][i]
           r == add_level_v3(b, o)
           T == Plus(S, o)
           cached == IF b.best[o.side] = NoPrice \/ Better(o.side, o.price, b.best[o.side])
                     THEN o.price ELSE b.best[o.side]
           c == [b EXCEPT !.ladder[o.side][i] = @ + o.quantity,
                          !.best[o.side] = IF @ = NoPrice \/ Better(o.side, o.price, @)
                                           THEN o.price ELSE @]
<1>1. o.side \in Sides /\ o.price \in Nat /\ o.quantity \in Nat \ {0}  BY OrderType
<1>2. S[o.side][o.price] \in Nat  BY PlusAt
<1>3. LadderOf(b, S) /\ "best" \in DOMAIN b /\ b.best \in [Sides -> Int]  BY DEF CachedLadder
<1>4. CASE ~InLadder(o.price)  BY <1>4 DEF add_level_v3
<1>5. CASE InLadder(o.price)
  <2>1. i \in Offsets /\ level = S[o.side][o.price]  BY <1>1, <1>3, <1>5, LadderAt
  <2>2. r = IF MaxQuantity - level < o.quantity THEN Throw(b) ELSE Return(c)
    BY <1>5 DEF add_level_v3
  <2>3. "ladder" \in DOMAIN b /\ b.ladder \in [Sides -> [Offsets -> Nat]]  BY <1>3 DEF LadderOf
  <2>4. c.ladder = [b.ladder EXCEPT ![o.side][i] = level + o.quantity]  BY <1>1, <2>1, <2>3
  <2>5. c.best = [b.best EXCEPT ![o.side] = cached]  BY <1>3
  <2>6. SameIndex(b, c)  BY Zenon DEF SameIndex
  <2>7. "ladder" \in DOMAIN c /\ "best" \in DOMAIN c  BY <1>3, <2>3
  <2>8. MinimumPrice + i = o.price  BY <1>1, LadderType DEF offset
  <2> HIDE DEF level, c, r, i, cached
  <2>9. (MaxQuantity - level < o.quantity) = ~(S[o.side][o.price] + o.quantity <= MaxQuantity)
    BY <1>1, <1>2, <2>1, QuantityType
  <2>10. CASE ~(S[o.side][o.price] + o.quantity <= MaxQuantity)  BY <2>2, <2>9, <2>10 DEF r
  <2>11. CASE S[o.side][o.price] + o.quantity <= MaxQuantity
    <3>1. r = Return(c)  BY <2>2, <2>9, <2>11
    <3>2. T \in Quantities /\ T[o.side][o.price] = level + o.quantity
      BY <1>1, <2>1, <2>11, PlusAt
    <3>3. SameElsewhere(S, T, o.side, o.price)  BY PlusAt DEF SameElsewhere
    <3> HIDE DEF T
    <3>4. LadderSet(b, c, o.side, o.price, T[o.side][o.price])
      BY <2>4, <2>7, <3>2 DEF i, LadderSet
    <3>5. LadderOf(c, T) /\ Reoccupied(b, c, o.side, o.price, T[o.side][o.price])
      BY <1>1, <1>3, <1>5, <3>2, <3>3, <3>4, LadderUpdate, Zenon
    <3>6. OccupiedOffsets(c, o.side) = OccupiedOffsets(b, o.side) \cup {i}
      BY <1>1, <1>2, <2>1, <3>2, <3>5 DEF i, Reoccupied
    <3>7. Caches(o.side, OccupiedOffsets(b, o.side) \cup {i}, cached)
      <4>1. OccupiedOffsets(b, o.side) \in SUBSET Offsets  BY DEF OccupiedOffsets
      <4>2. Caches(o.side, OccupiedOffsets(b, o.side), b.best[o.side])  BY <1>1 DEF CachedLadder
      <4> QED  BY <1>1, <2>1, <2>8, <4>1, <4>2, ExtremeJoin, Zenon DEF cached
    <3>8. \A s \in Sides : Caches(s, OccupiedOffsets(c, s), c.best[s])
      BY <1>1, <1>3, <2>5, <3>5, <3>6, <3>7 DEF CachedLadder, Reoccupied
    <3>10. cached \in Int  BY <1>1, <1>3 DEF cached
    <3>9. CachedLadder(c, T)  BY <1>3, <2>5, <2>7, <3>5, <3>8, <3>10, Zenon DEF CachedLadder
    <3> QED  BY <1>5, <2>6, <2>11, <3>1, <3>9 DEF T, r
  <2> QED  BY <2>10, <2>11
<1> QED  BY <1>4, <1>5

(* subtract_level of v3 walks on when the best level becomes empty.        *)
LEMMA SubtractFromCached ==
    ASSUME NEW S \in Quantities, NEW b, CachedLadder(b, S), NEW o \in LiveOrder,
           o.quantity <= S[o.side][o.price]
    PROVE  \E c : /\ subtract_level_v3(b, o) = Return(c)
                  /\ CachedLadder(c, Minus(S, o)) /\ SameIndex(b, c)
<1> DEFINE i == offset(o.price)
           level == b.ladder[o.side][i]
           r == subtract_level_v3(b, o)
           T == Minus(S, o)
           c == [b EXCEPT !.ladder[o.side][i] = level - o.quantity]
           walk == level = o.quantity /\ b.best[o.side] = o.price
           d == IF walk THEN refresh_best(c, o.side) ELSE c
           left == OccupiedOffsets(b, o.side)
<1>1. o.side \in Sides /\ o.price \in Nat /\ o.quantity \in Nat \ {0}  BY OrderType
<1>2. S[o.side][o.price] \in Nat  BY MinusAt
<1>3. LadderOf(b, S) /\ "best" \in DOMAIN b /\ b.best \in [Sides -> Int]  BY DEF CachedLadder
<1>4. InLadder(o.price)  BY <1>1, <1>2, <1>3 DEF LadderOf
<1>5. i \in Offsets /\ level = S[o.side][o.price]  BY <1>1, <1>3, <1>4, LadderAt
<1>6. r = IF o.quantity = 0 \/ o.quantity > level THEN Throw(b) ELSE Return(d)
  BY <1>4 DEF subtract_level_v3
<1>7. "ladder" \in DOMAIN b  BY <1>3 DEF LadderOf
<1>8. c.ladder = [b.ladder EXCEPT ![o.side][i] = level - o.quantity]  BY <1>7
<1>9. /\ DOMAIN c = DOMAIN b /\ c.best = b.best
      /\ \A field \in {"orders", "slots", "live", "maximum"} \cap DOMAIN b : c[field] = b[field]
  BY <1>3
<1>10. MinimumPrice + i = o.price  BY <1>1, LadderType DEF offset
<1> HIDE DEF level, c, i
<1>11. /\ DOMAIN d = DOMAIN c /\ d.ladder = c.ladder
       /\ d.best = [b.best EXCEPT ![o.side] = IF walk THEN Walked(o.side, OccupiedOffsets(c, o.side))
                                              ELSE @]
       /\ \A field \in {"orders", "slots", "live", "maximum"} \cap DOMAIN b : d[field] = b[field]
  <2>1. CASE walk
    <3>1. d = [c EXCEPT !.best[o.side] = Walked(o.side, OccupiedOffsets(c, o.side))]
      BY <2>1 DEF refresh_best, Walked, OccupiedOffsets
    <3> QED  BY <1>3, <1>7, <1>9, <2>1, <3>1
  <2>2. CASE ~walk
    <3>1. d = c  BY <2>2
    <3> HIDE DEF d, walk
    <3>2. [b.best EXCEPT ![o.side] = IF walk THEN Walked(o.side, OccupiedOffsets(c, o.side))
                                    ELSE @] = b.best
      BY <1>1, <1>3, <2>2
    <3> QED  BY <1>9, <3>1, <3>2
  <2> QED  BY <2>1, <2>2, Zenon
<1> HIDE DEF d, r, walk
<1>12. r = Return(d)  BY <1>1, <1>2, <1>5, <1>6
<1>13. SameIndex(b, d)  BY <1>9, <1>11 DEF SameIndex
<1>14. T \in Quantities /\ T[o.side][o.price] = level - o.quantity
  BY <1>1, <1>5, MinusAt
<1>15. SameElsewhere(S, T, o.side, o.price)  BY MinusAt DEF SameElsewhere
<1> HIDE DEF T
<1>16. LadderOf(d, T) /\ Reoccupied(b, d, o.side, o.price, T[o.side][o.price])
  <2>1. LadderSet(b, d, o.side, o.price, T[o.side][o.price])
    BY <1>7, <1>8, <1>9, <1>11, <1>14 DEF i, LadderSet
  <2> QED  BY <1>1, <1>3, <1>4, <1>14, <1>15, <2>1, LadderUpdate, Zenon
<1>17. \A s \in Sides : OccupiedOffsets(d, s) = OccupiedOffsets(c, s)
  BY <1>11 DEF OccupiedOffsets
<1>18. i \in left  BY <1>1, <1>2, <1>5 DEF OccupiedOffsets, level
<1>19. OccupiedOffsets(d, o.side) = IF level = o.quantity THEN left \ {i} ELSE left
  <2>1. (level - o.quantity = 0) <=> (level = o.quantity)  BY <1>1, <1>2, <1>5
  <2> QED  BY <1>14, <1>16, <1>18, <2>1 DEF i, Reoccupied
<1>20. Caches(o.side, OccupiedOffsets(d, o.side), d.best[o.side])
  <2>1. Caches(o.side, left, b.best[o.side])  BY <1>1 DEF CachedLadder
  <2>2. CASE walk
    <3>1. d.best[o.side] = Walked(o.side, OccupiedOffsets(d, o.side))
      BY <1>1, <1>3, <1>11, <1>17, <2>2
    <3>2. OccupiedOffsets(d, o.side) \in SUBSET Offsets  BY DEF OccupiedOffsets
    <3> QED  BY <1>1, <3>1, <3>2, WalkedCaches
  <2>3. CASE ~walk /\ level # o.quantity
    BY <1>1, <1>3, <1>11, <1>19, <2>1, <2>3
  <2>4. CASE ~walk /\ level = o.quantity
    <3>1. b.best[o.side] # o.price /\ d.best[o.side] = b.best[o.side]
      BY <1>1, <1>3, <1>11, <2>4 DEF walk
    <3>3. PICK k \in left : b.best[o.side] = MinimumPrice + k /\ Extreme(o.side, left, k)
      BY <1>18, <2>1 DEF Caches
    <3>4. k # i  BY <1>10, <3>1, <3>3
    <3>5. Extreme(o.side, left \ {i}, k)  BY <3>3, <3>4 DEF Extreme
    <3>6. Caches(o.side, left \ {i}, b.best[o.side])  BY <3>3, <3>4, <3>5 DEF Caches
    <3> QED  BY <1>19, <2>4, <3>1, <3>6
  <2> QED  BY <2>2, <2>3, <2>4
<1>21. \A s \in Sides : Caches(s, OccupiedOffsets(d, s), d.best[s])
  BY <1>1, <1>3, <1>11, <1>16, <1>20 DEF CachedLadder, Reoccupied
<1>22. d.best[o.side] \in Int
  <2>1. OccupiedOffsets(d, o.side) \in SUBSET Nat  BY LadderType DEF OccupiedOffsets, Offsets
  <2> QED  BY <1>20, <2>1, LadderType DEF Caches, NoPrice
<1>23. CachedLadder(d, T)  BY <1>1, <1>3, <1>9, <1>11, <1>16, <1>21, <1>22 DEF CachedLadder
<1> QED  BY <1>12, <1>13, <1>23 DEF T, r


(* The prices of a ladder with a quantity, as the digest lists them.       *)
LEMMA LadderPrices ==
    ASSUME NEW S \in Quantities, NEW b, LadderOf(b, S), NEW side \in Sides
    PROVE  /\ Quoted(S[side]) = {MinimumPrice + i : i \in OccupiedOffsets(b, side)}
           /\ \A i \in OccupiedOffsets(b, side) : S[side][MinimumPrice + i] = b.ladder[side][i]
<1>1. \A i \in Offsets : MinimumPrice + i \in Nat /\ b.ladder[side][i] = S[side][MinimumPrice + i]
  BY LadderType DEF LadderOf, Offsets
<1>2. ASSUME NEW price \in Nat, S[side][price] # 0
      PROVE  \E i \in OccupiedOffsets(b, side) : price = MinimumPrice + i
  <2>1. InLadder(price)  BY <1>2 DEF LadderOf
  <2>2. price - MinimumPrice \in Offsets /\ price = MinimumPrice + (price - MinimumPrice)
    BY <2>1, LadderType DEF InLadder, Offsets
  <2> QED  BY <1>1, <1>2, <2>2 DEF OccupiedOffsets
<1>3. ASSUME NEW i \in OccupiedOffsets(b, side)
      PROVE  MinimumPrice + i \in Quoted(S[side]) /\ S[side][MinimumPrice + i] = b.ladder[side][i]
  BY <1>1 DEF OccupiedOffsets, Quoted
<1> QED  BY <1>2, <1>3 DEF Quoted

(* The loop of state_digest over a ladder lists its levels in ascending    *)
(* order.                                                                  *)
LEMMA LadderLevels ==
    ASSUME NEW S \in Quantities, NEW b, LadderOf(b, S), NEW side \in Sides
    PROVE  Levels(b.ladder[side]) = Ascending(LevelMap(S[side]))
<1> DEFINE left == OccupiedOffsets(b, side)
           prices == {MinimumPrice + i : i \in left}
           f == [price \in prices |-> b.ladder[side][offset(price)]]
<1>1. Quoted(S[side]) = prices /\ \A i \in left : S[side][MinimumPrice + i] = b.ladder[side][i]
  BY LadderPrices
<1>2. ASSUME NEW price \in prices  PROVE b.ladder[side][offset(price)] = S[side][price]
  <2>1. PICK i \in left : price = MinimumPrice + i  OBVIOUS
  <2>2. offset(price) = i  BY <2>1, LadderType DEF OccupiedOffsets, Offsets, offset
  <2> QED  BY <1>1, <2>1, <2>2
<1>3. Levels(b.ladder[side]) = Ascending(f)  BY DEF Levels, OccupiedOffsets
<1> HIDE DEF prices
<1>4. f = [price \in prices |-> S[side][price]]  BY <1>2
<1>5. f = LevelMap(S[side])  BY <1>1, <1>4 DEF LevelMap
<1> QED  BY <1>3, <1>5

(* An upper bound in the set is its maximum ...                            *)
LEMMA MaxIs ==
    ASSUME NEW T \in SUBSET Nat, NEW x \in T, \A y \in T : y <= x
    PROVE  Max(T) = x
<1>1. x \in T /\ \A y \in T : x >= y  OBVIOUS
<1>2. Max(T) \in T /\ \A y \in T : Max(T) >= y  BY <1>1, Zenon DEF Max
<1>3. Max(T) >= x /\ x >= Max(T)  BY <1>1, <1>2, Zenon
<1>4. Max(T) \in Nat /\ x \in Nat  BY <1>2, Zenon
<1> QED  BY <1>3, <1>4

(* ... and a lower bound its minimum.                                      *)
LEMMA MinIs ==
    ASSUME NEW T \in SUBSET Nat, NEW x \in T, \A y \in T : x <= y
    PROVE  Min(T) = x
<1>1. x \in T /\ \A y \in T : x <= y  OBVIOUS
<1>2. Min(T) \in T /\ \A y \in T : Min(T) <= y  BY <1>1, Zenon DEF Min
<1>3. Min(T) >= x /\ x >= Min(T)  BY <1>1, <1>2, Zenon
<1>4. Min(T) \in Nat /\ x \in Nat  BY <1>2, Zenon
<1> QED  BY <1>3, <1>4

(* The extreme of the occupied offsets is the best price.                  *)
LEMMA ExtremeIsBest ==
    ASSUME NEW S \in Quantities, NEW b, LadderOf(b, S), NEW side \in Sides
    PROVE  /\ OccupiedOffsets(b, side) = {} => BestLevel(S[side], side) = NoLevel
           /\ \A i : Extreme(side, OccupiedOffsets(b, side), i) =>
                BestLevel(S[side], side) = <<MinimumPrice + i, b.ladder[side][i]>>
<1> DEFINE left == OccupiedOffsets(b, side)
           prices == Quoted(S[side])
<1>1. prices = {MinimumPrice + i : i \in left}
      /\ \A i \in left : S[side][MinimumPrice + i] = b.ladder[side][i]
  BY LadderPrices
<1>2. left \in SUBSET Nat  BY LadderType DEF OccupiedOffsets, Offsets
<1>3. prices \in SUBSET Nat  BY DEF Quoted
<1> HIDE DEF left, prices
<1>4. ASSUME left = {}  PROVE BestLevel(S[side], side) = NoLevel
  <2>1. prices = {}  BY <1>1, <1>4
  <2> QED  BY <2>1 DEF prices, BestLevel
<1>5. ASSUME NEW i, Extreme(side, left, i)
      PROVE  BestLevel(S[side], side) = <<MinimumPrice + i, b.ladder[side][i]>>
  <2>1. i \in left /\ i \in Nat /\ \A j \in left : IF side = "Bid" THEN j <= i ELSE i <= j
    BY <1>2, <1>5 DEF Extreme
  <2>2. MinimumPrice + i \in prices  BY <1>1, <2>1
  <2>3. ASSUME side = "Bid"  PROVE Max(prices) = MinimumPrice + i
    <3>1. \A p \in prices : p <= MinimumPrice + i  BY <1>1, <1>2, <2>1, <2>3, LadderType
    <3> QED  BY <1>3, <2>2, <3>1, MaxIs, Zenon
  <2>4. ASSUME side # "Bid"  PROVE Min(prices) = MinimumPrice + i
    <3>1. \A p \in prices : MinimumPrice + i <= p  BY <1>1, <1>2, <2>1, <2>4, LadderType
    <3> QED  BY <1>3, <2>2, <3>1, MinIs, Zenon
  <2>5. prices # {} /\ S[side][MinimumPrice + i] = b.ladder[side][i]  BY <1>1, <2>1, <2>2
  <2> QED  BY <2>3, <2>4, <2>5 DEF prices, BestLevel
<1> QED  BY <1>4, <1>5 DEF left

(* best_bid and best_ask of v4 to v6, and ...                              *)
LEMMA MarkedBest ==
    ASSUME NEW S \in Quantities, NEW b, MarkedLadder(b, S), NEW side \in Sides
    PROVE  best_v4(b, side) = BestLevel(S[side], side)
<1>1. LadderOf(b, S) /\ LadderBook(b)  BY DEF MarkedLadder
<1>2. CASE OccupiedOffsets(b, side) = {}  BY <1>1, <1>2, ExtremeIsBest, ScanFindsBest, Zenon
<1>3. CASE OccupiedOffsets(b, side) # {}
  <2>1. PICK i \in OccupiedOffsets(b, side) :
           /\ best_v4(b, side) = <<MinimumPrice + i, b.ladder[side][i]>>
           /\ \A j \in OccupiedOffsets(b, side) : IF side = "Bid" THEN j <= i ELSE i <= j
    BY <1>1, <1>3, ScanFindsBest, Zenon
  <2>2. Extreme(side, OccupiedOffsets(b, side), i)  BY <2>1 DEF Extreme
  <2> QED  BY <1>1, <2>1, <2>2, ExtremeIsBest, Zenon
<1> QED  BY <1>2, <1>3

(* ... those of v3, where another refresh_best would change nothing.       *)
LEMMA CachedBest ==
    ASSUME NEW S \in Quantities, NEW b, CachedLadder(b, S), NEW side \in Sides
    PROVE  /\ best_v3(b, side) = BestLevel(S[side], side)
           /\ refresh_best(b, side).best = b.best
<1> DEFINE left == OccupiedOffsets(b, side)
<1>1. LadderOf(b, S) /\ "best" \in DOMAIN b /\ b.best \in [Sides -> Int]
      /\ Caches(side, left, b.best[side])
  BY DEF CachedLadder
<1>2. left \in SUBSET Offsets  BY DEF OccupiedOffsets
<1>3. refresh_best(b, side) = [b EXCEPT !.best[side] = Walked(side, left)]
  BY DEF refresh_best, Walked, OccupiedOffsets
<1> HIDE DEF left
<1>4. Walked(side, left) = b.best[side]  BY <1>1, <1>2, WalkedCaches, CachesOne, Zenon
<1>5. refresh_best(b, side).best = [b.best EXCEPT ![side] = b.best[side]]  BY <1>1, <1>3, <1>4
<1>6. refresh_best(b, side).best = b.best  BY <1>1, <1>5
<1>7. best_v3(b, side) = BestLevel(S[side], side)
  <2>1. CASE left = {}
    <3>1. BestLevel(S[side], side) = NoLevel  BY <1>1, <2>1, ExtremeIsBest, Zenon DEF left
    <3>2. b.best[side] = NoPrice  BY <1>1, <2>1 DEF Caches
    <3> QED  BY <3>1, <3>2 DEF best_v3
  <2>2. CASE left # {}
    <3>1. PICK i \in left : b.best[side] = MinimumPrice + i /\ Extreme(side, left, i)
      BY <1>1, <2>2 DEF Caches
    <3>2. BestLevel(S[side], side) = <<MinimumPrice + i, b.ladder[side][i]>>
      BY <1>1, <3>1, ExtremeIsBest, Zenon DEF left
    <3>3. b.best[side] # NoPrice /\ offset(b.best[side]) = i
      BY <1>2, <3>1, LadderType DEF Offsets, NoPrice, offset
    <3> QED  BY <3>1, <3>2, <3>3 DEF best_v3
  <2> QED  BY <2>1, <2>2
<1> QED  BY <1>6, <1>7

(* The best level of v1 is at an end of the map.                           *)
LEMMA MapBest ==
    ASSUME NEW S \in Quantities, NEW b, MapLevels(b, S), NEW side \in Sides,
           Quoted(S[side]) # {} => Max(Quoted(S[side])) \in Quoted(S[side])
    PROVE  best_v1(b, side) = BestLevel(S[side], side)
<1> DEFINE F == S[side]
<1>1. b.levels[side] = LevelMap(F)  BY DEF MapLevels
<1>2. DOMAIN LevelMap(F) = Quoted(F) /\ \A price \in Quoted(F) : LevelMap(F)[price] = F[price]
  BY DEF LevelMap
<1>3. Quoted(F) \in SUBSET Nat  BY DEF Quoted
<1>4. Quoted(F) # {} => Min(Quoted(F)) \in Quoted(F)  BY <1>3, MinIsLeast, Zenon
<1>5. Quoted(F) # {} => Max(Quoted(F)) \in Quoted(F)  OBVIOUS
<1> HIDE DEF F
<1> QED  BY <1>1, <1>2, <1>4, <1>5 DEF best_v1, BestLevel, F

-----------------------------------------------------------------------------
(* The orders that the indexes of v5 and of v6 hold.                       *)
Order5 == [side : Sides, price : Int, quantity : Nat \ {0}]
Order6 == [side_and_offset : Nat, quantity : Nat \ {0}]

(* The inductive invariant: ladders and bitmaps in step, and an index of   *)
(* orders that have a quantity.                                            *)
Sound(b, Order) == /\ LadderBook(b)
                   /\ {"orders", "live"} \subseteq DOMAIN b
                   /\ b.orders \in [DOMAIN b.orders -> Order]

(* The book is as it was but for its index and its count.                  *)
SameLadder(b, c) == DOMAIN c = DOMAIN b /\ c.ladder = b.ladder /\ c.occupied = b.occupied

(* A typed event: its order may have any price and any quantity.           *)
AnyOrder == [side : Sides, price : Int, quantity : Nat]

TypedEvent(e) ==
    /\ e.type \in {"Add", "Cancel", "Execute", "Delete", "OrderDelete", "Replace", "OrderUpsert"}
    /\ e.order \in AnyOrder

HashedEvent(e) == TypedEvent(e) /\ {e.order_id, e.replacement_order_id} \subseteq DOMAIN Hash

-----------------------------------------------------------------------------
(* A change of the index leaves ladder and bitmap in step.                 *)
LEMMA SameLadderBook ==
    ASSUME NEW b, LadderBook(b), NEW c, SameLadder(b, c)
    PROVE  LadderBook(c)
BY DEF SameLadder, LadderBook, Marked

(* The level operators leave the index alone.                              *)
LEMMA LevelKeepsIndex ==
    ASSUME NEW b, LadderBook(b), NEW o
    PROVE  /\ DOMAIN add_level_v4(b, o).book = DOMAIN b
           /\ DOMAIN subtract_level_v4(b, o).book = DOMAIN b
           /\ \A field \in {"slots", "orders"} \cap DOMAIN b :
                /\ add_level_v4(b, o).book[field] = b[field]
                /\ subtract_level_v4(b, o).book[field] = b[field]
BY Zenon DEF add_level_v4, subtract_level_v4, Throw, Return, LadderBook

(* The level operations keep a book of v5 or v6 sound.                     *)
LEMMA AddLevelSound ==
    ASSUME NEW Order, NEW b, Sound(b, Order), NEW o, IsOrder(o), o.quantity # 0
    PROVE  Sound(add_level_v4(b, o).book, Order)
<1>1. LadderBook(add_level_v4(b, o).book)  BY AddLevelMarks DEF Sound
<1> QED  BY <1>1, LevelKeepsIndex DEF Sound

(* The same of subtract_level.                                             *)
LEMMA SubtractLevelSound ==
    ASSUME NEW Order, NEW b, Sound(b, Order), NEW o, IsOrder(o)
    PROVE  Sound(subtract_level_v4(b, o).book, Order)
<1>1. LadderBook(subtract_level_v4(b, o).book)  BY SubtractLevelMarks DEF Sound
<1> QED  BY <1>1, LevelKeepsIndex DEF Sound
(* The last steps of the operations: an order leaves the index, or its     *)
(* entry is replaced by another order.                                     *)
LEMMA EraseSound ==
    ASSUME NEW Order, NEW b, Sound(b, Order), NEW id
    PROVE  Sound(Erase(b, id), Order)
<1> DEFINE c == Erase(b, id)
<1>1. SameLadder(b, c) /\ c.orders = Drop(b.orders, id)
  BY DEF Sound, SameLadder, LadderBook, Erase, Drop, Restrict
<1> HIDE DEF c
<1>2. Sound(c, Order)  BY <1>1, SameLadderBook, DropType DEF Sound, SameLadder
<1> QED  BY <1>2 DEF c

Entry(b, id, o) == [b EXCEPT !.orders[id] = o]

(* The same of the entry of another order.                                 *)
LEMMA EntrySound ==
    ASSUME NEW Order, NEW b, Sound(b, Order), NEW id, NEW o \in Order
    PROVE  Sound(Entry(b, id, o), Order)
<1> DEFINE c == Entry(b, id, o)
<1>1. SameLadder(b, c) /\ c.orders = [b.orders EXCEPT ![id] = o]
  BY DEF Sound, SameLadder, LadderBook, Entry
<1> HIDE DEF c
<1>2. Sound(c, Order)  BY <1>1, SameLadderBook, Zenon DEF Sound, SameLadder
<1> QED  BY <1>2 DEF c

(* A packed order unpacks to an order.                                     *)
LEMMA Unpack6 ==
    ASSUME NEW packed \in Order6
    PROVE  /\ IsOrder(Unpack(packed)) /\ Unpack(packed).quantity = packed.quantity
           /\ \A quantity \in Nat : IsOrder([Unpack(packed) EXCEPT !.quantity = quantity])
BY L3Assumption DEF Order6, Unpack, side_of, offset_of, IsOrder,
                    Sides

(* An order whose price is in the ladder can be packed.                    *)
LEMMA Make6 ==
    ASSUME NEW o, IsOrder(o), o.quantity # 0, InLadder(o.price)
    PROVE  make(o) \in Order6
BY L3Assumption DEF IsOrder, InLadder, make, Order6

-----------------------------------------------------------------------------
(* Version 4.                                                              *)
(* A slot of the order index, and an index of at least one slot.           *)
IsSlot4(s) == /\ "state" \in DOMAIN s
              /\ s.state = "Occupied" => "order" \in DOMAIN s /\ s.order \in Order6

Table4(slots) == /\ slots = [i \in DOMAIN slots |-> slots[i]]
                 /\ \E n \in Nat \ {0} : DOMAIN slots = 0 .. n - 1
                 /\ \A i \in DOMAIN slots : IsSlot4(slots[i])

(* The inductive invariant.                                                *)
Sound4(b) == LadderBook(b) /\ {"slots", "live"} \subseteq DOMAIN b /\ Table4(b.slots)

-----------------------------------------------------------------------------
-----------------------------------------------------------------------------
(* apply of v4 keeps a book sound, also when it throws.                    *)
LEMMA Apply4 == \A b, e : Sound4(b) /\ HashedEvent(e) => Sound4(apply_v4(b, e).book)
<1>FindsOccupied.
      ASSUME NEW slots, Table4(slots), NEW id \in DOMAIN Hash, find_v4(slots, id) # {}
      PROVE  LET i == CHOOSE i \in find_v4(slots, id) : TRUE
             IN  i \in DOMAIN slots /\ slots[i].state = "Occupied" /\ slots[i].order \in Order6
  <2> USE <1>FindsOccupied
  <2> DEFINE steps == {step \in Visited(slots, id) :
                          Holds(slots[Probe(slots, id, step)], id)}
             i == Probe(slots, id, Min(steps))
  <2>1. find_v4(slots, id) = IF steps = {} THEN {} ELSE {i}
    BY DEF find_v4, find_slot, FirstOf, Visits
  <2>2. steps # {} /\ (CHOOSE j \in find_v4(slots, id) : TRUE) = i  BY <2>1
  <2>3. PICK n \in Nat \ {0} : DOMAIN slots = 0 .. n - 1  BY DEF Table4
  <2>4. Cardinality(DOMAIN slots) = n  BY <2>3, FS_Interval
  <2>5. steps \in SUBSET Nat  BY <2>3 DEF Visited
  <2>6. Min(steps) \in steps  BY <2>2, <2>5, MinIsLeast
  <2>7. slots[i].state = "Occupied"  BY <2>6 DEF Holds
  <2>8. i \in DOMAIN slots
    <3>1. Hash[id] \in Nat /\ Min(steps) \in Nat  BY <2>5, <2>6, L3Assumption
    <3> HIDE DEF steps
    <3>2. i = (Hash[id] + Min(steps)) % n  BY <2>4 DEF Probe
    <3>3. Hash[id] + Min(steps) \in Nat  BY <3>1
    <3>4. (Hash[id] + Min(steps)) % n \in 0 .. n - 1  BY <3>3, DivMod
    <3> QED  BY <2>3, <3>2, <3>4
  <2> HIDE DEF i
  <2> QED  BY <2>2, <2>7, <2>8, Zenon DEF Table4, IsSlot4
<1>Slot4.
      ASSUME NEW b, Sound4(b), NEW c, SameLadder(b, c), NEW i, NEW s, IsSlot4(s),
             c.slots = [b.slots EXCEPT ![i] = s]
      PROVE  Sound4(c)
  <2> USE <1>Slot4
  <2>1. LadderBook(c)  BY DEF Sound4, SameLadder, LadderBook, Marked
  <2>2. Table4(c.slots)  BY DEF Sound4, Table4
  <2> QED  BY <2>1, <2>2 DEF Sound4, SameLadder
<1>Bury4.
      ASSUME NEW b, Sound4(b), NEW i
      PROVE  Sound4(Bury(b, i))
  <2> USE <1>Bury4
  <2> DEFINE c == Bury(b, i)
  <2>1. SameLadder(b, c) /\ c.slots = [b.slots EXCEPT ![i] = Tombstone]
    BY DEF Bury, Sound4, LadderBook, SameLadder
  <2>2. IsSlot4(Tombstone)  BY DEF IsSlot4, Tombstone
  <2> HIDE DEF c
  <2>3. Sound4(c)  BY <2>1, <2>2, <1>Slot4
  <2> QED  BY <2>3 DEF c
<1>AddLevel4.
      ASSUME NEW b, Sound4(b), NEW o, IsOrder(o), o.quantity # 0
      PROVE  Sound4(add_level_v4(b, o).book) /\ add_level_v4(b, o).book.slots = b.slots
  <2> USE <1>AddLevel4
  <2>1. LadderBook(add_level_v4(b, o).book)  BY AddLevelMarks DEF Sound4
  <2> QED  BY <2>1, LevelKeepsIndex DEF Sound4
<1>SubtractLevel4.
      ASSUME NEW b, Sound4(b), NEW o, IsOrder(o)
      PROVE  Sound4(subtract_level_v4(b, o).book) /\ subtract_level_v4(b, o).book.slots = b.slots
  <2> USE <1>SubtractLevel4
  <2>1. LadderBook(subtract_level_v4(b, o).book)  BY SubtractLevelMarks DEF Sound4
  <2> QED  BY <2>1, LevelKeepsIndex DEF Sound4
<1>Add4.
      ASSUME NEW b, Sound4(b), NEW id, NEW o, IsOrder(o)
      PROVE  Sound4(add_v4(b, id, o).book)
  <2> USE <1>Add4
  <2> DEFINE c == add_level_v4(b, o).book
             i == CHOOSE i \in insertion_v4(b.slots, id) : TRUE
             s == Occupied(id, make(o))
             d == [c EXCEPT !.slots[i] = s, !.live = @ + 1]
  <2>1. CASE add_v4(b, id, o) = Throw(b)  BY <2>1 DEF Throw
  <2>2. CASE o.quantity # 0 /\ InLadder(o.price)
    <3>1. Sound4(c)  BY <2>2, <1>AddLevel4
    <3>2. add_v4(b, id, o).book \in {b, c, d}  BY DEF add_v4, WithSlot, Then, Throw, Return
    <3>3. IsSlot4(s)  BY <2>2, Make6 DEF IsSlot4, Occupied
    <3> HIDE DEF c, i, s
    <3>4. SameLadder(c, d) /\ d.slots = [c.slots EXCEPT ![i] = s]
      BY <3>1 DEF Sound4, LadderBook, SameLadder
    <3> HIDE DEF d
    <3>5. Sound4(d)  BY <3>1, <3>3, <3>4, <1>Slot4
    <3> QED  BY <3>1, <3>2, <3>5
  <2>3. add_v4(b, id, o) = Throw(b) \/ (o.quantity # 0 /\ InLadder(o.price))
    BY DEF add_v4
  <2> QED  BY <2>1, <2>2, <2>3
<1>Remove4.
      ASSUME NEW b, Sound4(b), NEW id \in DOMAIN Hash
      PROVE  Sound4(remove_v4(b, id).book)
  <2> USE <1>Remove4
  <2> DEFINE i == CHOOSE i \in find_v4(b.slots, id) : TRUE
             c == subtract_level_v4(b, Unpack(b.slots[i].order)).book
  <2>1. CASE find_v4(b.slots, id) = {}  BY <2>1 DEF remove_v4, WithSlot, Throw
  <2>2. CASE find_v4(b.slots, id) # {}
    <3>1. b.slots[i].order \in Order6  BY <2>2, <1>FindsOccupied DEF Sound4
    <3>2. Sound4(c)  BY <3>1, Unpack6, <1>SubtractLevel4
    <3>3. remove_v4(b, id).book \in {c, Bury(c, i)}
      BY <2>2 DEF remove_v4, WithSlot, Then, Return
    <3> HIDE DEF c, i
    <3> QED  BY <3>2, <3>3, <1>Bury4
  <2> QED  BY <2>1, <2>2
<1>Reduce4.
      ASSUME NEW b, Sound4(b), NEW id \in DOMAIN Hash, NEW quantity \in Nat, NEW full \in BOOLEAN
      PROVE  Sound4(reduce_v4(b, id, quantity, full).book)
  <2> USE <1>Reduce4
  <2> DEFINE i == CHOOSE i \in find_v4(b.slots, id) : TRUE
             p == b.slots[i].order
             c == subtract_level_v4(b, [Unpack(p) EXCEPT !.quantity = quantity]).book
             q == [p EXCEPT !.quantity = @ - quantity]
             s == [b.slots[i] EXCEPT !.order = q]
             d == [c EXCEPT !.slots[i].order.quantity = @ - quantity]
  <2>1. CASE find_v4(b.slots, id) = {} \/ InvalidReduction(Unpack(p), quantity, full)
    BY <2>1 DEF reduce_v4, WithSlot, Throw
  <2>2. CASE find_v4(b.slots, id) # {} /\ ~InvalidReduction(Unpack(p), quantity, full)
    <3>1. i \in DOMAIN b.slots /\ b.slots[i].state = "Occupied" /\ p \in Order6
      BY <2>2, <1>FindsOccupied DEF Sound4
    <3>2. Unpack(p).quantity = p.quantity /\ IsOrder([Unpack(p) EXCEPT !.quantity = quantity])
      BY <3>1, Unpack6
    <3>3. Sound4(c) /\ c.slots = b.slots  BY <3>2, <1>SubtractLevel4
    <3>4. \/ reduce_v4(b, id, quantity, full).book \in {c, Bury(c, i)}
          \/ quantity # p.quantity /\ reduce_v4(b, id, quantity, full).book = d
      BY <2>2, <3>2, Zenon DEF reduce_v4, WithSlot, Then, Return
    <3>5. CASE quantity # p.quantity
      <4>1. q \in Order6
        <5>1. ~(quantity > p.quantity)  BY <2>2, <3>2 DEF InvalidReduction
        <5> HIDE DEF p
        <5> QED  BY <3>1, <3>5, <5>1 DEF Order6
      <4>2. IsSlot4(b.slots[i])  BY <3>1 DEF Sound4, Table4
      <4> HIDE DEF c
      <4>3. SameLadder(c, d) /\ d.slots = [c.slots EXCEPT ![i] = s]
        BY <3>3 DEF Sound4, LadderBook, SameLadder
      <4> HIDE DEF q, d
      <4>4. IsSlot4(s)  BY <3>1, <4>1, <4>2 DEF IsSlot4
      <4> HIDE DEF s, i
      <4>5. Sound4(d)  BY <3>3, <4>3, <4>4, <1>Slot4
      <4> QED  BY <3>3, <3>4, <4>5, <1>Bury4
    <3> HIDE DEF c, d, i
    <3> QED  BY <3>3, <3>4, <3>5, <1>Bury4
  <2> QED  BY <2>1, <2>2
<1>Upsert4.
      ASSUME NEW b, Sound4(b), NEW id \in DOMAIN Hash, NEW o, IsOrder(o)
      PROVE  Sound4(upsert_v4(b, id, o).book)
  <2> USE <1>Upsert4
  <2> DEFINE i == CHOOSE i \in find_v4(b.slots, id) : TRUE
             c == subtract_level_v4(b, Unpack(b.slots[i].order)).book
             d == add_level_v4(c, o).book
             s == [b.slots[i] EXCEPT !.order = make(o)]
             f == [d EXCEPT !.slots[i].order = make(o)]
  <2>1. CASE upsert_v4(b, id, o) = Throw(b)  BY <2>1 DEF Throw
  <2>2. CASE upsert_v4(b, id, o) = add_v4(b, id, o)  BY <2>2, <1>Add4
  <2>3. CASE o.quantity # 0 /\ InLadder(o.price) /\ find_v4(b.slots, id) # {}
    <3>1. i \in DOMAIN b.slots /\ b.slots[i].state = "Occupied" /\ b.slots[i].order \in Order6
      BY <2>3, <1>FindsOccupied DEF Sound4
    <3>2. Sound4(c) /\ c.slots = b.slots  BY <3>1, Unpack6, <1>SubtractLevel4
    <3>3. upsert_v4(b, id, o).book \in {b, c, d, f}
      BY <2>3, Zenon DEF upsert_v4, WithSlot, Then, Return, Throw
    <3> HIDE DEF c
    <3>4. Sound4(d) /\ d.slots = b.slots  BY <2>3, <3>2, <1>AddLevel4
    <3>5. make(o) \in Order6  BY <2>3, Make6
    <3>6. IsSlot4(b.slots[i])  BY <3>1 DEF Sound4, Table4
    <3>7. IsSlot4(s)  BY <3>1, <3>5, <3>6 DEF IsSlot4
    <3> HIDE DEF d, i
    <3>8. SameLadder(d, f) /\ f.slots = [d.slots EXCEPT ![i] = s]
      BY <3>4 DEF Sound4, LadderBook, SameLadder
    <3> HIDE DEF f, s
    <3>9. Sound4(f)  BY <3>4, <3>7, <3>8, <1>Slot4
    <3> QED  BY <3>2, <3>3, <3>4, <3>9
  <2>4. \/ upsert_v4(b, id, o) = Throw(b)
        \/ upsert_v4(b, id, o) = add_v4(b, id, o)
        \/ o.quantity # 0 /\ InLadder(o.price) /\ find_v4(b.slots, id) # {}
    BY DEF upsert_v4
  <2> QED  BY <2>1, <2>2, <2>3, <2>4
<1> SUFFICES ASSUME NEW b, Sound4(b), NEW e, HashedEvent(e)
             PROVE  Sound4(apply_v4(b, e).book)
  OBVIOUS
<1>1. e.order.quantity \in Nat /\ IsOrder(e.order) /\ e.order_id \in DOMAIN Hash
  BY DEF HashedEvent, TypedEvent, AnyOrder, IsOrder
<1> DEFINE c == remove_v4(b, e.order_id).book
<1>2. Sound4(c)  BY <1>1, <1>Remove4
<1>3. apply_v4(b, e).book \in {b, c, add_v4(b, e.order_id, e.order).book,
                            reduce_v4(b, e.order_id, e.order.quantity, TRUE).book,
                            reduce_v4(b, e.order_id, e.order.quantity, FALSE).book,
                            upsert_v4(b, e.order_id, e.order).book,
                            add_v4(c, e.replacement_order_id, e.order).book}
  BY Zenon DEF apply_v4, Dispatch, Then, Throw, HashedEvent, TypedEvent
<1> HIDE DEF c
<1> QED  BY <1>1, <1>2, <1>3, <1>Add4, <1>Reduce4, <1>Upsert4, Zenon

-----------------------------------------------------------------------------
(* A new book of v4 is sound.                                              *)
LEMMA New4 ==
    ASSUME NEW maximum, table_capacity(maximum) \in Nat \ {0}
    PROVE  Sound4(New_v4(maximum))
<1> DEFINE b == New_v4(maximum)
           n == table_capacity(maximum)
<1>1. /\ {"slots", "live", "ladder", "occupied"} \subseteq DOMAIN b
      /\ b.slots = [i \in 0 .. n - 1 |-> Empty]
      /\ b.ladder = [side \in Sides |-> [i \in Offsets |-> 0]]
      /\ b.occupied = [side \in Sides |-> [word \in Words |-> {}]]
  BY DEF New_v4
<1> HIDE DEF b, n
<1>2. \A i \in Offsets : i \div WordBits \in Words  BY WordOfPrice
<1>3. LadderBook(b)  BY <1>1, <1>2 DEF Marked, LadderBook
<1>4. IsSlot4(Empty)  BY DEF IsSlot4, Empty
<1>5. n \in Nat \ {0}  BY DEF n
<1>6. Table4(b.slots)  BY <1>1, <1>4, <1>5, Zenon DEF Table4
<1>7. Sound4(b)  BY <1>1, <1>3, <1>6 DEF Sound4
<1> QED  BY <1>7 DEF b

-----------------------------------------------------------------------------
(* apply of v6 keeps a book sound, also when it throws.                    *)
LEMMA Apply6 == \A b, e : Sound(b, Order6) /\ TypedEvent(e) => Sound(apply_v6(b, e).book, Order6)
<1>Add6.
      ASSUME NEW b, Sound(b, Order6), NEW id, NEW o, IsOrder(o)
      PROVE  Sound(add_v6(b, id, o).book, Order6)
  <2> USE <1>Add6
  <2> DEFINE c == [b EXCEPT !.orders = Put(@, id, make(o))]
             d == add_level_v4(c, o).book
  <2>1. CASE add_v6(b, id, o) = Throw(b)  BY <2>1 DEF Throw
  <2>2. CASE o.quantity # 0 /\ InLadder(o.price)
    <3>1. make(o) \in Order6  BY <2>2, Make6
    <3>2. SameLadder(b, c) /\ c.orders = Put(b.orders, id, make(o))
      BY DEF Sound, SameLadder, LadderBook
    <3>3. Sound(c, Order6)
      BY <3>1, <3>2, SameLadderBook, PutType, Zenon DEF Sound, SameLadder
    <3> HIDE DEF c
    <3>4. Sound(d, Order6)  BY <2>2, <3>3, AddLevelSound
    <3> HIDE DEF d
    <3>5. Sound([d EXCEPT !.live = @ + 1], Order6)
      <4>1. /\ SameLadder(d, [d EXCEPT !.live = @ + 1])
            /\ [d EXCEPT !.live = @ + 1].orders = d.orders
        BY <3>4 DEF Sound, SameLadder, LadderBook
      <4> QED  BY <3>4, <4>1, SameLadderBook, Zenon DEF Sound, SameLadder
    <3>6. add_v6(b, id, o).book \in {b, d, [d EXCEPT !.live = @ + 1]}
      BY DEF add_v6, add_level_v6, Then, Throw, Return, c, d
    <3> QED  BY <3>4, <3>5, <3>6
  <2>3. add_v6(b, id, o) = Throw(b) \/ (o.quantity # 0 /\ InLadder(o.price))
    BY DEF add_v6
  <2> QED  BY <2>1, <2>2, <2>3
<1>Remove6.
      ASSUME NEW b, Sound(b, Order6), NEW id
      PROVE  Sound(remove_v6(b, id).book, Order6)
  <2> USE <1>Remove6
  <2> DEFINE c == subtract_level_v4(b, Unpack(b.orders[id])).book
  <2>1. CASE id \notin DOMAIN b.orders  BY <2>1 DEF remove_v6, subtract_level_v6, Throw
  <2>2. CASE id \in DOMAIN b.orders
    <3>1. b.orders[id] \in Order6  BY <2>2 DEF Sound
    <3>2. Sound(c, Order6)  BY <3>1, Unpack6, SubtractLevelSound
    <3>3. remove_v6(b, id).book \in {c, Erase(c, id)}  BY <2>2 DEF remove_v6, subtract_level_v6, Then, Return
    <3> HIDE DEF c
    <3> QED  BY <3>2, <3>3, EraseSound
  <2> QED  BY <2>1, <2>2
<1>Reduce6.
      ASSUME NEW b, Sound(b, Order6), NEW id, NEW quantity \in Nat, NEW full \in BOOLEAN
      PROVE  Sound(reduce_v6(b, id, quantity, full).book, Order6)
  <2> USE <1>Reduce6
  <2> DEFINE p == b.orders[id]
             c == subtract_level_v4(b, [Unpack(p) EXCEPT !.quantity = quantity]).book
             q == [p EXCEPT !.quantity = @ - quantity]
  <2>1. CASE id \notin DOMAIN b.orders \/ InvalidReduction(p, quantity, full)
    BY <2>1 DEF reduce_v6, subtract_level_v6, Throw
  <2>2. CASE id \in DOMAIN b.orders /\ ~InvalidReduction(p, quantity, full)
    <3>1. p \in Order6  BY <2>2 DEF Sound
    <3>2. Sound(c, Order6) /\ c.orders = b.orders
      <4>1. IsOrder([Unpack(p) EXCEPT !.quantity = quantity])  BY <3>1, Unpack6
      <4>2. Sound(c, Order6)  BY <4>1, SubtractLevelSound
      <4>3. LadderBook(b) /\ "orders" \in DOMAIN b  BY DEF Sound
      <4> QED  BY <4>2, <4>3, LevelKeepsIndex
    <3>3. \/ reduce_v6(b, id, quantity, full).book \in {c, Erase(c, id)}
          \/ /\ quantity # p.quantity
             /\ reduce_v6(b, id, quantity, full).book = [c EXCEPT !.orders[id].quantity = @ - quantity]
      BY <2>2 DEF reduce_v6, subtract_level_v6, Then, Return
    <3> HIDE DEF c
    <3>4. CASE quantity # p.quantity
      <4>1. q \in Order6  BY <2>2, <3>1, <3>4 DEF Order6, InvalidReduction
      <4>2. [c EXCEPT !.orders[id].quantity = @ - quantity] = Entry(c, id, q)
        BY <3>2 DEF Entry
      <4> HIDE DEF q
      <4> QED  BY <3>2, <3>3, <4>1, <4>2, EraseSound, EntrySound
    <3> QED  BY <3>2, <3>3, <3>4, EraseSound
  <2> QED  BY <2>1, <2>2
<1>Upsert6.
      ASSUME NEW b, Sound(b, Order6), NEW id, NEW o, IsOrder(o)
      PROVE  Sound(upsert_v6(b, id, o).book, Order6)
  <2> USE <1>Upsert6
  <2> DEFINE c == subtract_level_v4(b, Unpack(b.orders[id])).book
             d == add_level_v4(c, o)
  <2>1. CASE id = 0 \/ o.quantity = 0  BY <2>1 DEF upsert_v6, subtract_level_v6, add_level_v6, Throw
  <2>2. CASE ~(id = 0 \/ o.quantity = 0) /\ id \notin DOMAIN b.orders
    BY <2>2, <1>Add6 DEF upsert_v6
  <2>3. CASE ~(id = 0 \/ o.quantity = 0) /\ id \in DOMAIN b.orders
    <3>1. b.orders[id] \in Order6  BY <2>3 DEF Sound
    <3>2. Sound(c, Order6)  BY <3>1, Unpack6, SubtractLevelSound
    <3>3. Sound(d.book, Order6)
      <4> HIDE DEF c
      <4> QED  BY <2>3, <3>2, AddLevelSound
    <3>4. ~d.threw => InLadder(o.price)
      BY Zenon DEF add_level_v4, Throw
    <3>5. \/ upsert_v6(b, id, o).book \in {c, d.book}
          \/ ~d.threw /\ upsert_v6(b, id, o).book = Entry(d.book, id, make(o))
      BY <2>3, Zenon DEF upsert_v6, subtract_level_v6, add_level_v6, Then, Return, Entry
    <3> HIDE DEF c, d
    <3> QED  BY <2>3, <3>2, <3>3, <3>4, <3>5, Make6, EntrySound
  <2> QED  BY <2>1, <2>2, <2>3
<1> SUFFICES ASSUME NEW b, Sound(b, Order6), NEW e, TypedEvent(e)
             PROVE  Sound(apply_v6(b, e).book, Order6)
  OBVIOUS
<1>1. e.order.quantity \in Nat /\ IsOrder(e.order)
  BY DEF TypedEvent, AnyOrder, IsOrder, Sides
<1> DEFINE c == remove_v6(b, e.order_id).book
<1>2. Sound(c, Order6)  BY <1>Remove6
<1>3. apply_v6(b, e).book \in {b, c, add_v6(b, e.order_id, e.order).book,
                            reduce_v6(b, e.order_id, e.order.quantity, TRUE).book,
                            reduce_v6(b, e.order_id, e.order.quantity, FALSE).book,
                            upsert_v6(b, e.order_id, e.order).book,
                            add_v6(c, e.replacement_order_id, e.order).book}
  BY Zenon DEF apply_v6, Dispatch, Then, Throw, TypedEvent
<1> HIDE DEF c
<1> QED  BY <1>1, <1>2, <1>3, <1>Add6, <1>Reduce6, <1>Upsert6, Zenon

-----------------------------------------------------------------------------
(* apply of v5 keeps a book sound, also when it throws.                    *)
LEMMA Apply5 == \A b, e : Sound(b, Order5) /\ TypedEvent(e) => Sound(apply_v5(b, e).book, Order5)
<1>Orders5.
      ASSUME NEW o \in AnyOrder
      PROVE  /\ IsOrder(o)
             /\ o.quantity # 0 => o \in Order5
             /\ \A quantity \in Nat : IsOrder([o EXCEPT !.quantity = quantity])
  BY <1>Orders5 DEF AnyOrder, Order5, IsOrder, Sides
<1>Stored5. Order5 \subseteq AnyOrder
  BY DEF Order5, AnyOrder
<1>Add5.
      ASSUME NEW b, Sound(b, Order5), NEW id, NEW o \in AnyOrder
      PROVE  Sound(add_v5(b, id, o).book, Order5)
  <2> USE <1>Add5
  <2> DEFINE c == [b EXCEPT !.orders = Put(@, id, o)]
             d == add_level_v4(c, o).book
  <2>1. CASE add_v5(b, id, o) = Throw(b)  BY <2>1 DEF Throw
  <2>2. CASE o.quantity # 0
    <3>1. o \in Order5 /\ IsOrder(o)  BY <2>2, <1>Orders5
    <3>2. SameLadder(b, c) /\ c.orders = Put(b.orders, id, o)
      BY DEF Sound, SameLadder, LadderBook, Put
    <3> HIDE DEF c
    <3>3. Sound(c, Order5)
      <4>1. LadderBook(c)  BY <3>2, SameLadderBook DEF Sound
      <4>2. c.orders \in [DOMAIN c.orders -> Order5]  BY <3>1, <3>2, PutType DEF Sound
      <4> QED  BY <3>2, <4>1, <4>2 DEF Sound, SameLadder
    <3>4. Sound(d, Order5)  BY <2>2, <3>1, <3>3, AddLevelSound
    <3> HIDE DEF d
    <3>5. Sound([d EXCEPT !.live = @ + 1], Order5)
      <4>1. /\ SameLadder(d, [d EXCEPT !.live = @ + 1])
            /\ [d EXCEPT !.live = @ + 1].orders = d.orders
        BY <3>4 DEF Sound, SameLadder, LadderBook
      <4> QED  BY <3>4, <4>1, SameLadderBook, Zenon DEF Sound, SameLadder
    <3>6. add_v5(b, id, o).book \in {b, d, [d EXCEPT !.live = @ + 1]}
      BY DEF add_v5, add_level_v5, Then, Throw, Return, c, d
    <3> QED  BY <3>4, <3>5, <3>6
  <2>3. add_v5(b, id, o) = Throw(b) \/ o.quantity # 0
    BY DEF add_v5
  <2> QED  BY <2>1, <2>2, <2>3
<1>Remove5.
      ASSUME NEW b, Sound(b, Order5), NEW id
      PROVE  Sound(remove_v5(b, id).book, Order5)
  <2> USE <1>Remove5
  <2> DEFINE c == subtract_level_v4(b, b.orders[id]).book
  <2>1. CASE id \notin DOMAIN b.orders  BY <2>1 DEF remove_v5, subtract_level_v5, Throw
  <2>2. CASE id \in DOMAIN b.orders
    <3>1. IsOrder(b.orders[id])  BY <2>2, <1>Orders5, <1>Stored5 DEF Sound
    <3>2. Sound(c, Order5)  BY <3>1, SubtractLevelSound
    <3>3. remove_v5(b, id).book \in {c, Erase(c, id)}
      BY <2>2 DEF remove_v5, subtract_level_v5, Then, Return
    <3> HIDE DEF c
    <3> QED  BY <3>2, <3>3, EraseSound
  <2> QED  BY <2>1, <2>2
<1>Reduce5.
      ASSUME NEW b, Sound(b, Order5), NEW id, NEW quantity \in Nat, NEW full \in BOOLEAN
      PROVE  Sound(reduce_v5(b, id, quantity, full).book, Order5)
  <2> USE <1>Reduce5
  <2> DEFINE p == b.orders[id]
             c == subtract_level_v4(b, [p EXCEPT !.quantity = quantity]).book
             q == [p EXCEPT !.quantity = @ - quantity]
  <2>1. CASE id \notin DOMAIN b.orders \/ InvalidReduction(p, quantity, full)
    BY <2>1 DEF reduce_v5, subtract_level_v5, Throw
  <2>2. CASE id \in DOMAIN b.orders /\ ~InvalidReduction(p, quantity, full)
    <3>1. p \in Order5  BY <2>2 DEF Sound
    <3>2. Sound(c, Order5) /\ c.orders = b.orders
      <4>1. IsOrder([p EXCEPT !.quantity = quantity])  BY <3>1, <1>Orders5, <1>Stored5
      <4>2. Sound(c, Order5)  BY <4>1, SubtractLevelSound
      <4>3. LadderBook(b) /\ "orders" \in DOMAIN b  BY DEF Sound
      <4> QED  BY <4>2, <4>3, LevelKeepsIndex
    <3>3. \/ reduce_v5(b, id, quantity, full).book \in {c, Erase(c, id)}
          \/ /\ quantity # p.quantity
             /\ reduce_v5(b, id, quantity, full).book =
                   [c EXCEPT !.orders[id].quantity = @ - quantity]
      BY <2>2 DEF reduce_v5, subtract_level_v5, Then, Return
    <3> HIDE DEF c
    <3>4. CASE quantity # p.quantity
      <4>1. q \in Order5  BY <2>2, <3>1, <3>4 DEF Order5, InvalidReduction
      <4>2. [c EXCEPT !.orders[id].quantity = @ - quantity] = Entry(c, id, q)
        BY <3>2 DEF Entry
      <4> HIDE DEF q
      <4> QED  BY <3>2, <3>3, <4>1, <4>2, EraseSound, EntrySound
    <3> QED  BY <3>2, <3>3, <3>4, EraseSound
  <2> QED  BY <2>1, <2>2
<1>Upsert5.
      ASSUME NEW b, Sound(b, Order5), NEW id, NEW o \in AnyOrder
      PROVE  Sound(upsert_v5(b, id, o).book, Order5)
  <2> USE <1>Upsert5
  <2> DEFINE c == subtract_level_v4(b, b.orders[id]).book
             d == add_level_v4(c, o)
  <2>1. CASE id = 0 \/ o.quantity = 0  BY <2>1 DEF upsert_v5, subtract_level_v5, add_level_v5, Throw
  <2>2. CASE ~(id = 0 \/ o.quantity = 0) /\ id \notin DOMAIN b.orders
    BY <2>2, <1>Add5 DEF upsert_v5
  <2>3. CASE ~(id = 0 \/ o.quantity = 0) /\ id \in DOMAIN b.orders
    <3>1. IsOrder(b.orders[id])  BY <2>3, <1>Orders5, <1>Stored5 DEF Sound
    <3>2. Sound(c, Order5)  BY <3>1, SubtractLevelSound
    <3>3. Sound(d.book, Order5)
      <4> HIDE DEF c
      <4>1. IsOrder(o)  BY <1>Orders5
      <4> QED  BY <2>3, <3>2, <4>1, AddLevelSound
    <3>4. upsert_v5(b, id, o).book \in {c, d.book, Entry(d.book, id, o)}
      BY <2>3, Zenon DEF upsert_v5, subtract_level_v5, add_level_v5, Then, Return, Entry
    <3>5. o \in Order5  BY <2>3, <1>Orders5
    <3> HIDE DEF c, d
    <3> QED  BY <3>2, <3>3, <3>4, <3>5, EntrySound
  <2> QED  BY <2>1, <2>2, <2>3
<1> SUFFICES ASSUME NEW b, Sound(b, Order5), NEW e, TypedEvent(e)
             PROVE  Sound(apply_v5(b, e).book, Order5)
  OBVIOUS
<1>1. e.order \in AnyOrder /\ e.order.quantity \in Nat  BY DEF TypedEvent, AnyOrder
<1> DEFINE c == remove_v5(b, e.order_id).book
<1>2. Sound(c, Order5)  BY <1>Remove5
<1>3. apply_v5(b, e).book \in {b, c, add_v5(b, e.order_id, e.order).book,
                               reduce_v5(b, e.order_id, e.order.quantity, TRUE).book,
                               reduce_v5(b, e.order_id, e.order.quantity, FALSE).book,
                               upsert_v5(b, e.order_id, e.order).book,
                               add_v5(c, e.replacement_order_id, e.order).book}
  BY Zenon DEF apply_v5, Dispatch, Then, Throw, TypedEvent
<1> HIDE DEF c
<1> QED  BY <1>1, <1>2, <1>3, <1>Add5, <1>Reduce5, <1>Upsert5, Zenon

-----------------------------------------------------------------------------
(* A new book of v5, and that of v6, is sound.                             *)
LEMMA NewSound ==
    ASSUME NEW Order, NEW maximum
    PROVE  Sound(New_v5(maximum), Order)
<1> DEFINE b == New_v5(maximum)
<1>1. /\ {"orders", "live", "ladder", "occupied"} \subseteq DOMAIN b
      /\ b.orders \in [DOMAIN b.orders -> Order]
      /\ b.ladder = [side \in Sides |-> [i \in Offsets |-> 0]]
      /\ b.occupied = [side \in Sides |-> [word \in Words |-> {}]]
  BY DEF New_v5, Sides, Offsets, Words, Offsets, Words, Sides
<1> HIDE DEF b
<1>2. \A i \in Offsets : i \div WordBits \in Words  BY WordOfPrice
<1>3. Marked(b)  BY <1>1, <1>2 DEF Marked, Sides
<1>4. Sound(b, Order)  BY <1>1, <1>3 DEF Sound, LadderBook, Sides
<1> QED  BY <1>4 DEF b

-----------------------------------------------------------------------------
(* A book is fed any events, and goes on being fed after it threw.         *)
Feed4(book, maximum) == /\ book = New_v4(maximum)
                        /\ [][\E e : HashedEvent(e) /\ book' = apply_v4(book, e).book]_book

Feed5(book, maximum) == /\ book = New_v5(maximum)
                        /\ [][\E e : TypedEvent(e) /\ book' = apply_v5(book, e).book]_book

Feed6(book, maximum) == /\ book = New_v6(maximum)
                        /\ [][\E e : TypedEvent(e) /\ book' = apply_v6(book, e).book]_book

(* Every book of v4 that apply leaves behind, whether it returned or       *)
(* threw, has a bit set exactly at the prices that have a quantity.        *)
THEOREM LadderBitmaps ==
    ASSUME NEW CONSTANT maximum \in Nat, NEW VARIABLE book
    PROVE  Feed4(book, maximum) => []Marked(book)
<1>1. book = New_v4(maximum) => Sound4(book)  BY New4, TableCapacity
<1>2. Sound4(book) /\ [\E e : HashedEvent(e) /\ book' = apply_v4(book, e).book]_book
        => Sound4(book)'
  BY Apply4
<1>3. Sound4(book) => Marked(book)  BY DEF Sound4, LadderBook
<1> QED  BY <1>1, <1>2, <1>3, PTL DEF Feed4

(* The same of v5, whose add changes the index before its last check.      *)
THEOREM BackshiftBitmaps ==
    ASSUME NEW CONSTANT maximum, NEW VARIABLE book
    PROVE  Feed5(book, maximum) => []Marked(book)
<1>1. book = New_v5(maximum) => Sound(book, Order5)  BY NewSound
<1>2. Sound(book, Order5) /\ [\E e : TypedEvent(e) /\ book' = apply_v5(book, e).book]_book
        => Sound(book, Order5)'
  BY Apply5
<1>3. Sound(book, Order5) => Marked(book)  BY DEF Sound, LadderBook
<1> QED  BY <1>1, <1>2, <1>3, PTL DEF Feed5

(* The same of v6, although its upsert computes the offset of the new      *)
(* price only after it has changed the book.                               *)
THEOREM PackedBitmaps ==
    ASSUME NEW CONSTANT maximum, NEW VARIABLE book
    PROVE  Feed6(book, maximum) => []Marked(book)
<1>1. book = New_v6(maximum) => Sound(book, Order6)  BY NewSound DEF New_v6
<1>2. Sound(book, Order6) /\ [\E e : TypedEvent(e) /\ book' = apply_v6(book, e).book]_book
        => Sound(book, Order6)'
  BY Apply6
<1>3. Sound(book, Order6) => Marked(book)  BY DEF Sound, LadderBook
<1> QED  BY <1>1, <1>2, <1>3, PTL DEF Feed6
=============================================================================
