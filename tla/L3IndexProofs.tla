---------------------------- MODULE L3IndexProofs ----------------------------
(***************************************************************************)
(* The sorted arrays of v2, the live orders with the sums of their         *)
(* quantities, and the order indexes of the six versions: the map of v1,   *)
(* the open addressing with tombstones of v2 to v4, and the fixed index of *)
(* v5 and v6. The index lemmas say that each of them is a map from ids to  *)
(* orders.                                                                 *)
(***************************************************************************)
EXTENDS L3Levels, L3Book, ParityOrderBook, BitmapPackedOrderBook, FiniteSetTheorems, TLAPS

(* Intervals are finite.                                                   *)
LEMMA Counting ==
    ASSUME NEW n \in Nat
    PROVE  /\ IsFiniteSet(1 .. n) /\ Cardinality(1 .. n) = n
           /\ IsFiniteSet(0 .. n - 1) /\ Cardinality(0 .. n - 1) = n
<1>1. n \in Int /\ n - 1 \in Int /\ 0 \in Int /\ 1 \in Int  OBVIOUS
<1>2. IsFiniteSet(1 .. n) /\ Cardinality(1 .. n) = IF 1 > n THEN 0 ELSE n - 1 + 1
  BY <1>1, FS_Interval, Zenon
<1>3. IsFiniteSet(0 .. n - 1) /\ Cardinality(0 .. n - 1) = IF 0 > n - 1 THEN 0 ELSE n - 1 - 0 + 1
  BY <1>1, FS_Interval, Zenon
<1> QED  BY <1>2, <1>3

(* A set of numbers has a least element.                                   *)
LEMMA LeastElement ==
    ASSUME NEW S \in SUBSET Nat, S # {}
    PROVE  Min(S) \in S /\ \A x \in S : Min(S) <= x
<1>1. PICK m \in S : \A x \in S : ~(<<x, m>> \in OpToRel(<, Nat))
  BY NatLessThanWellFounded, WFMin, Zenon
<1>2. ASSUME NEW x \in S  PROVE m <= x
  <2> SUFFICES ASSUME x < m PROVE FALSE  OBVIOUS
  <2>1. <<x, m>> \in OpToRel(<, Nat)  BY DEF OpToRel
  <2> QED  BY <1>1, <2>1, Zenon
<1> QED  BY <1>2, Zenon DEF Min

-----------------------------------------------------------------------------
(* Division with remainder, as a probe reduces a hash to the table.        *)
LEMMA QuotientAndRest ==
    ASSUME NEW i \in Nat, NEW w \in Nat \ {0}
    PROVE  /\ i \div w \in Nat
           /\ i % w \in 0 .. w - 1
           /\ i = w * (i \div w) + (i % w)
OBVIOUS

(* Quotient and rest are determined.                                       *)
LEMMA OneRest ==
    ASSUME NEW q \in Nat, NEW w \in Nat \ {0}, NEW r \in Nat, r < w
    PROVE  (q * w + r) \div w = q /\ (q * w + r) % w = r
<1> DEFINE i == q * w + r
           d == i \div w
           m == i % w
<1>1. i \in Nat  OBVIOUS
<1>2. d \in Nat /\ m \in 0 .. w - 1 /\ i = w * d + m  BY <1>1, QuotientAndRest, Zenon
<1>3. q * w + r = w * d + m  BY <1>2
<1> HIDE DEF i, d, m
<1>4. ~(d < q)
  <2> SUFFICES ASSUME d + 1 <= q PROVE FALSE  BY <1>2
  <2>1. (d + 1) * w <= q * w  BY <1>2
  <2>2. (d + 1) * w = w * d + w  BY <1>2
  <2> QED  BY <1>2, <1>3, <2>1, <2>2
<1>5. ~(q < d)
  <2> SUFFICES ASSUME q + 1 <= d PROVE FALSE  BY <1>2
  <2>1. (q + 1) * w <= d * w  BY <1>2
  <2>2. (q + 1) * w = q * w + w /\ d * w = w * d  BY <1>2
  <2> QED  BY <1>2, <1>3, <2>1, <2>2
<1>6. d = q  BY <1>2, <1>4, <1>5
<1>7. w * d = q * w  BY <1>6
<1>8. m = r  BY <1>2, <1>3, <1>7
<1> QED  BY <1>6, <1>8 DEF i, d, m

(* What L3Assumption says of the largest quantity and of the hash.         *)
LEMMA LargestQuantity == MaxQuantity \in Nat
BY L3Assumption

(* Every id has a hash.                                                    *)
LEMMA HashType == Hash \in [DOMAIN Hash -> Nat]
BY L3Assumption

-----------------------------------------------------------------------------
(* Entering and erasing keep a map a map.                                  *)
LEMMA PutInMap ==
    ASSUME NEW Order, NEW f, f \in [DOMAIN f -> Order], NEW key, NEW o \in Order
    PROVE  Put(f, key, o) \in [DOMAIN Put(f, key, o) -> Order]
BY DEF Put

(* The same of erasing.                                                    *)
LEMMA DropFromMap ==
    ASSUME NEW Order, NEW f, f \in [DOMAIN f -> Order], NEW key
    PROVE  Drop(f, key) \in [DOMAIN Drop(f, key) -> Order]
BY DEF Drop, Restrict

-----------------------------------------------------------------------------
(* v2: an array of the prices that have a quantity, sorted by price.       *)
LevelEntry == Nat \X (Nat \ {0})

SortedArray(levels, F) ==
    /\ levels \in Seq(LevelEntry)
    /\ \A i, j \in 1 .. Len(levels) : i < j => levels[i][1] < levels[j][1]
    /\ \A i \in 1 .. Len(levels) : levels[i][2] = F[levels[i][1]]
    /\ \A price \in Nat : F[price] # 0 => \E i \in 1 .. Len(levels) : levels[i][1] = price

ArrayLevels(b, S) ==
    /\ "levels" \in DOMAIN b /\ b.levels \in [Sides -> Seq(LevelEntry)]
    /\ \A side \in Sides : SortedArray(b.levels[side], S[side])

-----------------------------------------------------------------------------
(* The entries of a sorted array are prices with quantities.               *)
LEMMA ArrayType ==
    ASSUME NEW levels, NEW F, SortedArray(levels, F)
    PROVE  /\ Len(levels) \in Nat /\ DOMAIN levels = 1 .. Len(levels)
           /\ \A i \in 1 .. Len(levels) : levels[i][1] \in Nat /\ levels[i][2] \in Nat \ {0}
BY DEF SortedArray, LevelEntry

(* An entry is the pair of its components.                                 *)
LEMMA ArrayEntry ==
    ASSUME NEW levels, NEW F, SortedArray(levels, F), NEW i \in 1 .. Len(levels)
    PROVE  levels[i] \in LevelEntry /\ levels[i] = <<levels[i][1], levels[i][2]>>
BY DEF SortedArray, LevelEntry

(* A sequence is a function on an interval ...                             *)
LEMMA SeqIs ==
    ASSUME NEW S, NEW f \in Seq(S)
    PROVE  Len(f) \in Nat /\ f \in [1 .. Len(f) -> S]
OBVIOUS

(* ... and such a function a sequence.                                     *)
LEMMA SeqOf ==
    ASSUME NEW n \in Nat, NEW S, NEW f \in [1 .. n -> S]
    PROVE  f \in Seq(S) /\ Len(f) = n
OBVIOUS

(* lower_bound: the lower prices are exactly those before it.              *)
LEMMA BoundSplits ==
    ASSUME NEW levels, NEW F, SortedArray(levels, F), NEW price \in Nat
    PROVE  /\ LowerBound(levels, price) \in 1 .. Len(levels) + 1
           /\ \A j \in 1 .. Len(levels) : levels[j][1] < price <=> j < LowerBound(levels, price)
<1> DEFINE n == Len(levels)
           A == {j \in DOMAIN levels : levels[j][1] < price}
           B == {j \in 1 .. n : ~(levels[j][1] < price)}
<1>1. /\ n \in Nat /\ DOMAIN levels = 1 .. n
      /\ \A j \in 1 .. n : levels[j][1] \in Nat
  BY ArrayType
<1>2. \E k \in 0 .. n : A = 1 .. k
  <2>1. CASE B = {}
    <3>1. A = 1 .. n  BY <1>1, <2>1
    <3> QED  BY <1>1, <3>1
  <2>2. CASE B # {}
    <3>1. B \in SUBSET Nat  OBVIOUS
    <3>2. Min(B) \in B /\ \A x \in B : Min(B) <= x  BY <2>2, <3>1, LeastElement, Zenon
    <3>3. PICK m \in B : \A x \in B : m <= x  BY <3>2
    <3>4. ASSUME NEW j \in 1 .. n  PROVE levels[j][1] < price <=> j < m
      <4>1. CASE j < m
        <5>1. j \notin B  BY <1>1, <3>3, <4>1
        <5> QED  BY <4>1, <5>1
      <4>2. CASE ~(j < m)
        <5>1. levels[m][1] <= levels[j][1]
          <6>1. CASE j = m  BY <1>1, <6>1
          <6>2. CASE m < j  BY <1>1, <6>2 DEF SortedArray
          <6> QED  BY <1>1, <4>2, <6>1, <6>2
        <5>2. ~(levels[m][1] < price)  BY <3>3
        <5> QED  BY <1>1, <4>2, <5>1, <5>2
      <4> QED  BY <4>1, <4>2
    <3>5. m - 1 \in 0 .. n /\ m \in 1 .. n  BY <1>1
    <3>6. A = {j \in 1 .. n : j < m}  BY <1>1, <3>4
    <3>7. {j \in 1 .. n : j < m} = 1 .. m - 1  BY <1>1, <3>5
    <3> QED  BY <3>5, <3>6, <3>7
  <2> QED  BY <2>1, <2>2
<1>3. PICK k \in 0 .. n : A = 1 .. k  BY <1>2
<1>4. k \in Nat /\ k <= n  BY <1>1
<1>5. Cardinality(A) = k  BY <1>3, <1>4, Counting, Zenon
<1>6. LowerBound(levels, price) = 1 + k  BY <1>5 DEF LowerBound
<1>7. \A j \in 1 .. n : levels[j][1] < price <=> j \in 1 .. k  BY <1>1, <1>3
<1> QED  BY <1>1, <1>4, <1>6, <1>7

(* So it is at the level of the price, if there is one.                    *)
LEMMA BoundFinds ==
    ASSUME NEW levels, NEW F \in [Nat -> Nat], SortedArray(levels, F), NEW price \in Nat
    PROVE  LET i == LowerBound(levels, price)
           IN  /\ HasLevel(levels, price) <=> F[price] # 0
               /\ F[price] # 0 => i \in 1 .. Len(levels) /\ levels[i] = <<price, F[price]>>
               /\ F[price] = 0 => \A j \in i .. Len(levels) : price < levels[j][1]
<1> DEFINE n == Len(levels)
           i == LowerBound(levels, price)
<1>1. /\ n \in Nat
      /\ \A j \in 1 .. n : levels[j][1] \in Nat /\ levels[j][2] \in Nat \ {0}
  BY ArrayType, Zenon
<1>2. i \in 1 .. n + 1 /\ \A j \in 1 .. n : levels[j][1] < price <=> j < i  BY BoundSplits, Zenon
<1>3. HasLevel(levels, price) <=> i <= n /\ levels[i][1] = price  BY DEF HasLevel
<1>4. \A j \in 1 .. n : levels[j][2] = F[levels[j][1]]  BY DEF SortedArray
<1>8. /\ \A j, k \in 1 .. n : j < k => levels[j][1] < levels[k][1]
      /\ F[price] # 0 => \E j \in 1 .. n : levels[j][1] = price
  BY DEF SortedArray
<1>9. \A j \in 1 .. n : levels[j] = <<levels[j][1], levels[j][2]>>  BY ArrayEntry, Zenon
<1> HIDE DEF i, n
<1>5. ASSUME i <= n, levels[i][1] = price  PROVE F[price] # 0 /\ levels[i] = <<price, F[price]>>
  <2>1. i \in 1 .. n  BY <1>1, <1>2, <1>5
  <2>2. levels[i] = <<levels[i][1], levels[i][2]>>  BY <1>9, <2>1
  <2>3. levels[i][2] = F[price] /\ F[price] # 0  BY <1>1, <1>4, <1>5, <2>1, Zenon
  <2> QED  BY <1>5, <2>2, <2>3, Zenon
<1>6. ASSUME F[price] # 0  PROVE i <= n /\ levels[i][1] = price
  <2>1. PICK j \in 1 .. n : levels[j][1] = price  BY <1>6, <1>8
  <2>2. ~(j < i)  BY <1>1, <1>2, <2>1
  <2>3. ASSUME i < j  PROVE FALSE
    <3>1. i \in 1 .. n /\ ~(levels[i][1] < price)  BY <1>1, <1>2, <2>3
    <3>2. levels[i][1] < levels[j][1]  BY <1>8, <2>3, <3>1
    <3> QED  BY <1>1, <2>1, <3>1, <3>2, Zenon
  <2>4. i = j  BY <1>1, <1>2, <2>2, <2>3
  <2> QED  BY <1>1, <2>1, <2>4
<1>7. ASSUME F[price] = 0, NEW j \in i .. n  PROVE price < levels[j][1]
  <2>1. j \in 1 .. n /\ ~(j < i)  BY <1>1, <1>2
  <2>2. levels[j][1] # price  BY <1>1, <1>4, <1>7, <2>1, Zenon
  <2> QED  BY <1>1, <1>2, <2>1, <2>2
<1>10. HasLevel(levels, price) <=> F[price] # 0  BY <1>3, <1>5, <1>6
<1>11. F[price] # 0 => i \in 1 .. n /\ levels[i] = <<price, F[price]>>
  BY <1>1, <1>2, <1>5, <1>6
<1>12. F[price] = 0 => \A j \in i .. n : price < levels[j][1]  BY <1>7
<1> QED  BY <1>10, <1>11, <1>12, Zenon DEF i, n

-----------------------------------------------------------------------------
(* What insert, erase and a new quantity make of a sorted array.           *)
ChangedTo(F, G, price, quantity) ==
    G[price] = quantity /\ \A p \in Nat \ {price} : G[p] = F[p]

(* add_to_level of v2 inserts a new level where lower_bound points, ...    *)
LEMMA InsertSorted ==
    ASSUME NEW F \in [Nat -> Nat], NEW levels, SortedArray(levels, F), NEW price \in Nat,
           NEW quantity \in Nat \ {0}, NEW G, F[price] = 0, ChangedTo(F, G, price, quantity)
    PROVE  SortedArray(InsertLevel(levels, LowerBound(levels, price), <<price, quantity>>), G)
<1> DEFINE n == Len(levels)
           i == LowerBound(levels, price)
           t == InsertLevel(levels, i, <<price, quantity>>)
<1>1. n \in Nat  BY ArrayType, Zenon
<1>2. \A j \in 1 .. n : levels[j][1] \in Nat  BY ArrayType, Zenon
<1>3. \A j \in 1 .. n : levels[j][2] # 0
  <2>1. \A j \in 1 .. n : levels[j][2] \in Nat \ {0}  BY ArrayType, Zenon
  <2> QED  BY <2>1, Zenon
<1>4. i \in 1 .. n + 1  BY BoundSplits, Zenon
<1>5. \A j \in 1 .. n : levels[j][1] < price <=> j < i  BY BoundSplits, Zenon
<1>6. \A j \in i .. n : price < levels[j][1]  BY BoundFinds, Zenon
<1>7. \A j, k \in 1 .. n : j < k => levels[j][1] < levels[k][1]  BY DEF SortedArray
<1>8. \A j \in 1 .. n : levels[j][2] = F[levels[j][1]]  BY DEF SortedArray
<1>9. \A p \in Nat : F[p] # 0 => \E j \in 1 .. n : levels[j][1] = p  BY DEF SortedArray
<1>10. \A j \in 1 .. n : levels[j] \in LevelEntry  BY ArrayEntry, Zenon
<1>11. t = [j \in 1 .. n + 1 |-> IF j < i THEN levels[j] ELSE IF j = i THEN <<price, quantity>>
                                 ELSE levels[j - 1]]
  BY DEF InsertLevel
<1> DEFINE e == <<price, quantity>>
<1>12. e \in LevelEntry /\ e[1] = price /\ e[2] = quantity  BY DEF LevelEntry
<1> HIDE DEF n, i, t, e
<1>13. t[i] = e  BY <1>1, <1>4, <1>11 DEF e
<1>14. ASSUME NEW j \in 1 .. n + 1, j < i  PROVE j \in 1 .. n /\ t[j] = levels[j]
  BY <1>1, <1>4, <1>11, <1>14
<1>15. ASSUME NEW j \in 1 .. n + 1, i < j
       PROVE  j - 1 \in 1 .. n /\ j - 1 \in i .. n /\ t[j] = levels[j - 1]
  <2>1. j - 1 \in 1 .. n /\ j - 1 \in i .. n /\ ~(j < i) /\ j # i  BY <1>1, <1>4, <1>15
  <2>2. t[j] = levels[j - 1]  BY <1>11, <2>1
  <2> QED  BY <2>1, <2>2
<1>16. n + 1 \in Nat /\ \A j \in 1 .. n + 1 : j < i \/ j = i \/ i < j  BY <1>1, <1>4
<1>17. t \in [1 .. n + 1 -> LevelEntry]
  <2>1. ASSUME NEW j \in 1 .. n + 1  PROVE t[j] \in LevelEntry
    <3>1. CASE j < i  BY <1>10, <1>14, <3>1, Zenon
    <3>2. CASE j = i  BY <1>12, <1>13, <3>2, Zenon
    <3>3. CASE i < j  BY <1>10, <1>15, <3>3, Zenon
    <3> QED  BY <1>16, <3>1, <3>2, <3>3, Zenon
  <2>2. t = [j \in 1 .. n + 1 |-> t[j]]  BY <1>11
  <2> QED  BY <2>1, <2>2, Zenon
<1>18. ASSUME NEW j \in 1 .. n + 1, NEW k \in 1 .. n + 1, j < k  PROVE t[j][1] < t[k][1]
  <2>0. j \in Int /\ k \in Int /\ i \in Int  BY <1>1, <1>4
  <2>1. CASE k < i
    <3>1. j < i  BY <1>18, <2>0, <2>1
    <3>2. j \in 1 .. n /\ t[j] = levels[j] /\ k \in 1 .. n /\ t[k] = levels[k]
      BY <1>14, <2>1, <3>1, Zenon
    <3> QED  BY <1>7, <1>18, <3>2, Zenon
  <2>2. CASE k = i
    <3>1. j \in 1 .. n /\ t[j] = levels[j]  BY <1>14, <1>18, <2>2, Zenon
    <3>2. levels[j][1] < price  BY <1>5, <1>18, <2>2, <3>1, Zenon
    <3> QED  BY <1>12, <1>13, <2>2, <3>1, <3>2, Zenon
  <2>3. CASE j = i
    <3>1. t[k] = levels[k - 1] /\ k - 1 \in i .. n  BY <1>15, <1>18, <2>3, Zenon
    <3>2. price < levels[k - 1][1]  BY <1>6, <3>1, Zenon
    <3> QED  BY <1>12, <1>13, <2>3, <3>1, <3>2, Zenon
  <2>4. CASE i < j
    <3>1. i < k  BY <1>18, <2>0, <2>4
    <3>2. j - 1 \in 1 .. n /\ t[j] = levels[j - 1]  BY <1>15, <2>4, Zenon
    <3>3. k - 1 \in 1 .. n /\ t[k] = levels[k - 1]  BY <1>15, <3>1, Zenon
    <3>4. j - 1 < k - 1  BY <1>18, <2>0
    <3>5. levels[j - 1][1] < levels[k - 1][1]  BY <1>7, <3>2, <3>3, <3>4, Zenon
    <3> QED  BY <3>2, <3>3, <3>5, Zenon
  <2>5. CASE i < k /\ j < i
    <3>1. j \in 1 .. n /\ t[j] = levels[j]  BY <1>14, <2>5, Zenon
    <3>2. levels[j][1] < price  BY <1>5, <2>5, <3>1, Zenon
    <3>3. k - 1 \in 1 .. n /\ k - 1 \in i .. n /\ t[k] = levels[k - 1]  BY <1>15, <2>5, Zenon
    <3>4. price < levels[k - 1][1]  BY <1>6, <3>3, Zenon
    <3>5. levels[j][1] \in Nat /\ levels[k - 1][1] \in Nat  BY <1>2, <3>1, <3>3, Zenon
    <3>6. levels[j][1] < levels[k - 1][1]  BY <3>2, <3>4, <3>5
    <3> QED  BY <3>1, <3>3, <3>6, Zenon
  <2> QED  BY <1>16, <2>1, <2>2, <2>3, <2>4, <2>5
<1>19. ASSUME NEW j \in 1 .. n + 1  PROVE t[j][2] = G[t[j][1]]
  <2>1. CASE j = i  BY <1>12, <1>13, <2>1, Zenon DEF ChangedTo
  <2>2. ASSUME NEW k \in 1 .. n  PROVE levels[k][2] = G[levels[k][1]]
    <3>1. levels[k][1] # price  BY <1>3, <1>8, Zenon
    <3>2. G[levels[k][1]] = F[levels[k][1]]  BY <1>2, <3>1, Zenon DEF ChangedTo
    <3> QED  BY <1>8, <3>2, Zenon
  <2>3. CASE j < i  BY <1>14, <2>2, <2>3, Zenon
  <2>4. CASE i < j
    <3>1. j - 1 \in 1 .. n /\ t[j] = levels[j - 1]  BY <1>15, <2>4, Zenon
    <3>2. levels[j - 1][2] = G[levels[j - 1][1]]  BY <2>2, <3>1, Zenon
    <3> QED  BY <3>1, <3>2, Zenon
  <2> QED  BY <1>16, <2>1, <2>3, <2>4, Zenon
<1>20. ASSUME NEW p \in Nat, G[p] # 0  PROVE \E j \in 1 .. n + 1 : t[j][1] = p
  <2>1. CASE p = price  BY <1>4, <1>12, <1>13, <2>1, Zenon
  <2>2. CASE p # price
    <3>1. F[p] # 0  BY <1>20, <2>2, Zenon DEF ChangedTo
    <3>2. PICK k \in 1 .. n : levels[k][1] = p  BY <1>9, <3>1, Zenon
    <3>3. k \in 1 .. n + 1 /\ k + 1 \in 1 .. n + 1 /\ (k + 1) - 1 = k  BY <1>1
    <3>4. CASE k < i  BY <1>14, <3>2, <3>3, <3>4, Zenon
    <3>5. CASE ~(k < i)
      <4>1. i < k + 1  BY <1>1, <1>4, <3>5
      <4>2. t[k + 1] = levels[k]  BY <1>15, <3>3, <4>1
      <4> QED  BY <3>2, <3>3, <4>2, Zenon
    <3> QED  BY <3>4, <3>5
  <2> QED  BY <2>1, <2>2
<1>21. SortedArray(t, G)
  <2>1. t \in Seq(LevelEntry) /\ Len(t) = n + 1  BY <1>16, <1>17, SeqOf, Zenon
  <2> QED  BY <1>18, <1>19, <1>20, <2>1, Zenon DEF SortedArray
<1> QED  BY <1>21 DEF t, i, e

(* ... subtract_from_level erases one that becomes empty there, ...        *)
LEMMA EraseSorted ==
    ASSUME NEW F \in [Nat -> Nat], NEW levels, SortedArray(levels, F), NEW price \in Nat,
           NEW G, F[price] # 0, ChangedTo(F, G, price, 0)
    PROVE  SortedArray(EraseLevel(levels, LowerBound(levels, price)), G)
<1> DEFINE n == Len(levels)
           i == LowerBound(levels, price)
           t == EraseLevel(levels, i)
<1>1. n \in Nat  BY ArrayType, Zenon
<1>2. \A j \in 1 .. n : levels[j][1] \in Nat  BY ArrayType, Zenon
<1>3. i \in 1 .. n /\ levels[i] = <<price, F[price]>>  BY BoundFinds, Zenon
<1>4. \A j, k \in 1 .. n : j < k => levels[j][1] < levels[k][1]  BY DEF SortedArray
<1>5. \A j \in 1 .. n : levels[j][2] = F[levels[j][1]]  BY DEF SortedArray
<1>6. \A p \in Nat : F[p] # 0 => \E j \in 1 .. n : levels[j][1] = p  BY Zenon DEF SortedArray
<1>7. \A j \in 1 .. n : levels[j] \in LevelEntry  BY ArrayEntry, Zenon
<1>8. t = [j \in 1 .. n - 1 |-> IF j < i THEN levels[j] ELSE levels[j + 1]]  BY DEF EraseLevel
<1>9. levels[i][1] = price  BY <1>3
<1> HIDE DEF n, i, t
<1>10. ASSUME NEW k \in 1 .. n, k # i  PROVE levels[k][1] # price
  <2>1. CASE k < i
    <3>1. levels[k][1] < levels[i][1]  BY <1>3, <1>4, <2>1, Zenon
    <3>2. levels[k][1] \in Nat /\ levels[k][1] < price  BY <1>2, <1>9, <3>1, Zenon
    <3> QED  BY <3>2
  <2>2. CASE i < k
    <3>1. levels[i][1] < levels[k][1]  BY <1>3, <1>4, <2>2, Zenon
    <3>2. levels[k][1] \in Nat /\ price < levels[k][1]  BY <1>2, <1>9, <3>1, Zenon
    <3> QED  BY <3>2
  <2> QED  BY <1>1, <1>3, <1>10, <2>1, <2>2
<1>11. ASSUME NEW j \in 1 .. n - 1, j < i  PROVE j \in 1 .. n /\ j # i /\ t[j] = levels[j]
  <2>1. j \in 1 .. n /\ j # i  BY <1>1, <1>3, <1>11
  <2> QED  BY <1>8, <1>11, <2>1
<1>12. ASSUME NEW j \in 1 .. n - 1, ~(j < i)
       PROVE  j + 1 \in 1 .. n /\ j + 1 # i /\ t[j] = levels[j + 1]
  <2>1. j + 1 \in 1 .. n /\ j + 1 # i  BY <1>1, <1>3, <1>12
  <2> QED  BY <1>8, <1>12, <2>1
<1>13. n - 1 \in Nat  BY <1>1, <1>3
<1>14. t \in [1 .. n - 1 -> LevelEntry]
  <2>1. ASSUME NEW j \in 1 .. n - 1  PROVE t[j] \in LevelEntry
    <3>1. CASE j < i  BY <1>7, <1>11, <3>1, Zenon
    <3>2. CASE ~(j < i)  BY <1>7, <1>12, <3>2, Zenon
    <3> QED  BY <3>1, <3>2
  <2>2. t = [j \in 1 .. n - 1 |-> t[j]]  BY <1>8
  <2> QED  BY <2>1, <2>2, Zenon
<1>15. ASSUME NEW j \in 1 .. n - 1, NEW k \in 1 .. n - 1, j < k  PROVE t[j][1] < t[k][1]
  <2>1. CASE k < i
    <3>1. j < i  BY <1>1, <1>3, <1>15, <2>1
    <3>2. j \in 1 .. n /\ t[j] = levels[j] /\ k \in 1 .. n /\ t[k] = levels[k]
      BY <1>11, <2>1, <3>1, Zenon
    <3> QED  BY <1>4, <1>15, <3>2, Zenon
  <2>2. CASE ~(k < i) /\ j < i
    <3>1. j \in 1 .. n /\ t[j] = levels[j]  BY <1>11, <2>2, Zenon
    <3>2. k + 1 \in 1 .. n /\ t[k] = levels[k + 1]  BY <1>12, <2>2, Zenon
    <3>3. j < k + 1  BY <1>15
    <3>4. levels[j][1] < levels[k + 1][1]  BY <1>4, <3>1, <3>2, <3>3, Zenon
    <3> QED  BY <3>1, <3>2, <3>4, Zenon
  <2>3. CASE ~(j < i)
    <3>1. ~(k < i)  BY <1>1, <1>3, <1>15, <2>3
    <3>2. j + 1 \in 1 .. n /\ t[j] = levels[j + 1]  BY <1>12, <2>3, Zenon
    <3>3. k + 1 \in 1 .. n /\ t[k] = levels[k + 1]  BY <1>12, <3>1, Zenon
    <3>4. j + 1 < k + 1  BY <1>15
    <3>5. levels[j + 1][1] < levels[k + 1][1]  BY <1>4, <3>2, <3>3, <3>4, Zenon
    <3> QED  BY <3>2, <3>3, <3>5, Zenon
  <2> QED  BY <2>1, <2>2, <2>3
<1>16. ASSUME NEW j \in 1 .. n - 1  PROVE t[j][2] = G[t[j][1]]
  <2>1. ASSUME NEW k \in 1 .. n, k # i  PROVE levels[k][2] = G[levels[k][1]]
    <3>1. levels[k][1] # price  BY <1>10, <2>1
    <3>2. G[levels[k][1]] = F[levels[k][1]]  BY <1>2, <3>1, Zenon DEF ChangedTo
    <3> QED  BY <1>5, <3>2, Zenon
  <2>2. CASE j < i
    <3>1. j \in 1 .. n /\ j # i /\ t[j] = levels[j]  BY <1>11, <2>2, Zenon
    <3>2. levels[j][2] = G[levels[j][1]]  BY <2>1, <3>1, Zenon
    <3> QED  BY <3>1, <3>2, Zenon
  <2>3. CASE ~(j < i)
    <3>1. j + 1 \in 1 .. n /\ j + 1 # i /\ t[j] = levels[j + 1]  BY <1>12, <2>3, Zenon
    <3>2. levels[j + 1][2] = G[levels[j + 1][1]]  BY <2>1, <3>1, Zenon
    <3> QED  BY <3>1, <3>2, Zenon
  <2> QED  BY <2>2, <2>3
<1>17. ASSUME NEW p \in Nat, G[p] # 0  PROVE \E j \in 1 .. n - 1 : t[j][1] = p
  <2>1. p # price  BY <1>17, Zenon DEF ChangedTo
  <2>2. F[p] # 0  BY <1>17, <2>1, Zenon DEF ChangedTo
  <2>3. PICK k \in 1 .. n : levels[k][1] = p  BY <1>6, <2>2, Zenon
  <2>4. k # i  BY <1>9, <2>1, <2>3, Zenon
  <2>5. CASE k < i
    <3>1. k \in 1 .. n - 1  BY <1>1, <1>3, <2>5
    <3> QED  BY <1>11, <2>3, <2>5, <3>1, Zenon
  <2>6. CASE i < k
    <3>1. k - 1 \in 1 .. n - 1 /\ ~(k - 1 < i) /\ (k - 1) + 1 = k  BY <1>1, <1>3, <2>6
    <3>2. t[k - 1] = levels[k]  BY <1>12, <3>1
    <3> QED  BY <2>3, <3>1, <3>2, Zenon
  <2> QED  BY <1>1, <1>3, <2>4, <2>5, <2>6
<1>18. SortedArray(t, G)
  <2>1. t \in Seq(LevelEntry) /\ Len(t) = n - 1  BY <1>13, <1>14, SeqOf, Zenon
  <2> QED  BY <1>15, <1>16, <1>17, <2>1, Zenon DEF SortedArray
<1> QED  BY <1>18 DEF t, i

(* ... and both change one that stays.  The array remains sorted.          *)
LEMMA UpdateSorted ==
    ASSUME NEW F \in [Nat -> Nat], NEW levels, SortedArray(levels, F), NEW price \in Nat,
           NEW quantity \in Nat \ {0}, NEW G, F[price] # 0, ChangedTo(F, G, price, quantity)
    PROVE  SortedArray([levels EXCEPT ![LowerBound(levels, price)][2] = quantity], G)
<1> DEFINE n == Len(levels)
           i == LowerBound(levels, price)
           t == [levels EXCEPT ![i][2] = quantity]
<1>1. n \in Nat /\ levels \in [1 .. n -> LevelEntry]  BY SeqIs, Zenon DEF SortedArray
<1>2. \A j \in 1 .. n : levels[j][1] \in Nat  BY ArrayType, Zenon
<1>3. i \in 1 .. n /\ levels[i] = <<price, F[price]>>  BY BoundFinds, Zenon
<1>4. \A j, k \in 1 .. n : j < k => levels[j][1] < levels[k][1]  BY DEF SortedArray
<1>5. \A j \in 1 .. n : levels[j][2] = F[levels[j][1]]  BY DEF SortedArray
<1>6. \A p \in Nat : F[p] # 0 => \E j \in 1 .. n : levels[j][1] = p  BY DEF SortedArray
<1>7. levels[i][1] = price  BY <1>3
<1>8. t = [levels EXCEPT ![i] = <<price, quantity>>]
  <2>1. [levels[i] EXCEPT ![2] = quantity] = <<price, quantity>>
    <3>1. F[price] \in Nat  OBVIOUS
    <3> QED  BY <1>3, <3>1
  <2> QED  BY <2>1, Zenon
<1> HIDE DEF n, i, t
<1>9. \A k \in 1 .. n : k # i => levels[k][1] # price
  <2> SUFFICES ASSUME NEW k \in 1 .. n, k # i  PROVE levels[k][1] # price  OBVIOUS
  <2>1. CASE k < i
    <3>1. levels[k][1] < levels[i][1]  BY <1>3, <1>4, <2>1, Zenon
    <3>2. levels[k][1] \in Nat /\ levels[k][1] < price  BY <1>2, <1>7, <3>1, Zenon
    <3> QED  BY <3>2
  <2>2. CASE i < k
    <3>1. levels[i][1] < levels[k][1]  BY <1>3, <1>4, <2>2, Zenon
    <3>2. levels[k][1] \in Nat /\ price < levels[k][1]  BY <1>2, <1>7, <3>1, Zenon
    <3> QED  BY <3>2
  <2> QED  BY <1>1, <1>3, <2>1, <2>2
<1>10. <<price, quantity>> \in LevelEntry  BY DEF LevelEntry
<1>11. t \in [1 .. n -> LevelEntry] /\ t[i] = <<price, quantity>>
         /\ \A j \in 1 .. n : j # i => t[j] = levels[j]
  BY <1>1, <1>3, <1>8, <1>10
<1>12. t[i][1] = price /\ t[i][2] = quantity  BY <1>11
<1>13. \A j \in 1 .. n : t[j][1] = levels[j][1]  BY <1>7, <1>11, <1>12, Zenon
<1>14. \A j, k \in 1 .. n : j < k => t[j][1] < t[k][1]  BY <1>4, <1>13, Zenon
<1>15. ASSUME NEW j \in 1 .. n  PROVE t[j][2] = G[t[j][1]]
  <2>1. CASE j = i  BY <1>12, <2>1, Zenon DEF ChangedTo
  <2>2. CASE j # i
    <3>1. levels[j][1] # price /\ t[j] = levels[j]  BY <1>9, <1>11, <2>2, Zenon
    <3>2. G[levels[j][1]] = F[levels[j][1]]  BY <1>2, <3>1, Zenon DEF ChangedTo
    <3> QED  BY <1>5, <3>1, <3>2, Zenon
  <2> QED  BY <2>1, <2>2
<1>16. ASSUME NEW p \in Nat, G[p] # 0  PROVE \E j \in 1 .. n : t[j][1] = p
  <2>1. CASE p = price  BY <1>3, <1>12, <2>1, Zenon
  <2>2. CASE p # price
    <3>1. F[p] # 0  BY <1>16, <2>2, Zenon DEF ChangedTo
    <3> QED  BY <1>6, <1>13, <3>1, Zenon
  <2> QED  BY <2>1, <2>2
<1>17. SortedArray(t, G)
  <2>1. t \in Seq(LevelEntry) /\ Len(t) = n  BY <1>1, <1>11, SeqOf, Zenon
  <2> QED  BY <1>14, <1>15, <1>16, <2>1, Zenon DEF SortedArray
<1> QED  BY <1>17 DEF t, i

OrderMap(O) == /\ O \in [DOMAIN O -> LiveOrder]
               /\ IsFiniteSet(DOMAIN O)
               /\ DOMAIN O \subseteq DOMAIN Hash \ {0}

(* The quantities at the prices of both sides, and what an order adds to   *)
(* them and takes from them.                                               *)
Sums(O) == [side \in Sides |-> [price \in Nat |-> Level(O, side, price)]]

(* The order of id keeps what a reduction leaves of it.                    *)
Reduced(O, id, quantity) == [O EXCEPT ![id].quantity = @ - quantity]

(* The units of an order are as many as its quantity, and no two orders    *)
(* share one.                                                              *)
LEMMA UnitsFinite ==
    ASSUME NEW O, OrderMap(O), NEW side, NEW price
    PROVE  IsFiniteSet(Units(O, side, price)) /\ Level(O, side, price) \in Nat
<1> DEFINE All == (DOMAIN O) \X (1 .. MaxQuantity)
<1>1. Units(O, side, price) \in SUBSET All
  <2> SUFFICES ASSUME NEW id \in DOMAIN O, NEW u \in 1 .. O[id].quantity
               PROVE  <<id, u>> \in All
    BY DEF Units
  <2>1. O[id].quantity \in 1 .. MaxQuantity  BY DEF OrderMap, LiveOrder
  <2> QED  BY <2>1, LargestQuantity
<1>2. IsFiniteSet(1 .. MaxQuantity)  BY LargestQuantity, Counting
<1>3. IsFiniteSet(All)  BY <1>2, FS_Product, Zenon DEF OrderMap
<1>4. IsFiniteSet(Units(O, side, price))  BY <1>1, <1>3, FS_Subset, Zenon
<1> QED  BY <1>4, FS_CardinalityType DEF Level

(* The units of one order.                                                 *)
LEMMA OrderUnits ==
    ASSUME NEW id, NEW quantity \in Nat
    PROVE  IsFiniteSet({id} \X (1 .. quantity)) /\ Cardinality({id} \X (1 .. quantity)) = quantity
<1>1. IsFiniteSet({id}) /\ Cardinality({id}) = 1  BY FS_Singleton, Zenon
<1>2. IsFiniteSet(1 .. quantity) /\ Cardinality(1 .. quantity) = quantity  BY Counting
<1>3. Cardinality({id} \X (1 .. quantity)) = Cardinality({id}) * Cardinality(1 .. quantity)
  BY <1>1, <1>2, FS_Product, Zenon
<1>4. IsFiniteSet({id} \X (1 .. quantity))  BY <1>1, <1>2, FS_Product, Zenon
<1> QED  BY <1>1, <1>2, <1>3, <1>4

(* An order adds its quantity to its level and to no other.                *)
LEMMA PutUnits ==
    ASSUME NEW O, OrderMap(O), NEW id, id \notin DOMAIN O, NEW o \in LiveOrder,
           NEW side, NEW price
    PROVE  Level(Put(O, id, o), side, price) =
              Level(O, side, price) + At(o, side, price)
<1> DEFINE U == Units(O, side, price)
           V == {id} \X (1 .. o.quantity)
<1>1. IsFiniteSet(U) /\ Cardinality(U) \in Nat  BY UnitsFinite DEF Level
<1>2. CASE side = o.side /\ price = o.price
  <2>1. Units(Put(O, id, o), side, price) = U \cup V
    BY <1>2, Zenon DEF Units, Put
  <2>2. U \cap V = {}  BY DEF Units
  <2>4. o.quantity \in Nat  BY DEF LiveOrder
  <2>3. IsFiniteSet(V) /\ Cardinality(V) = o.quantity  BY <2>4, OrderUnits, Zenon
  <2> HIDE DEF U, V
  <2>5. Cardinality(U \cup V) = Cardinality(U) + Cardinality(V) - Cardinality(U \cap V)
    BY <1>1, <2>3, FS_Union
  <2>6. Cardinality(U \cap V) = 0  BY <2>2, FS_EmptySet
  <2> QED  BY <1>1, <1>2, <2>1, <2>3, <2>4, <2>5, <2>6 DEF Level, U, At
<1>3. CASE ~(side = o.side /\ price = o.price)
  <2>1. Units(Put(O, id, o), side, price) = U
    BY <1>3, Zenon DEF Units, Put
  <2> QED  BY <1>1, <1>3, <2>1 DEF Level, At
<1> QED  BY <1>2, <1>3

(* What an event does to the quantities.                                   *)
LEMMA PutOrder ==
    ASSUME NEW O, OrderMap(O), NEW id \in DOMAIN Hash \ {0}, NEW o \in LiveOrder
    PROVE  OrderMap(Put(O, id, o)) /\ DOMAIN Put(O, id, o) = DOMAIN O \cup {id}
<1>1. DOMAIN Put(O, id, o) = DOMAIN O \cup {id}  BY DEF Put
<1>2. IsFiniteSet(DOMAIN O \cup {id})  BY FS_AddElement, Zenon DEF OrderMap
<1>3. Put(O, id, o) \in [DOMAIN Put(O, id, o) -> LiveOrder]  BY PutInMap DEF OrderMap
<1> QED  BY <1>1, <1>2, <1>3, Zenon DEF OrderMap

(* Live orders without one of them.                                        *)
LEMMA DropOrder ==
    ASSUME NEW O, OrderMap(O), NEW id
    PROVE  OrderMap(Drop(O, id)) /\ DOMAIN Drop(O, id) = DOMAIN O \ {id}
<1>1. DOMAIN Drop(O, id) = DOMAIN O \ {id}  BY DEF Drop, Restrict
<1>2. IsFiniteSet(DOMAIN O \ {id})  BY FS_RemoveElement, Zenon DEF OrderMap
<1>3. Drop(O, id) \in [DOMAIN Drop(O, id) -> LiveOrder]  BY DropFromMap DEF OrderMap
<1> QED  BY <1>1, <1>2, <1>3, Zenon DEF OrderMap

(* An upsert of a live order is a removal and an add.                      *)
LEMMA PutDrop ==
    ASSUME NEW O, OrderMap(O), NEW id \in DOMAIN O, NEW o
    PROVE  /\ Put(O, id, o) = Put(Drop(O, id), id, o)
           /\ Put(O, id, o) = [O EXCEPT ![id] = o]
<1>1. DOMAIN O = (DOMAIN O \ {id}) \cup {id}  OBVIOUS
<1> QED  BY <1>1, Zenon DEF Put, Drop, Restrict, OrderMap

(* The sums of the orders are numbers.                                     *)
LEMMA SumsType ==
    ASSUME NEW O, OrderMap(O)
    PROVE  Sums(O) \in [Sides -> [Nat -> Nat]]
BY UnitsFinite DEF Sums

(* A new order adds to the sums.                                           *)
LEMMA PutSums ==
    ASSUME NEW O, OrderMap(O), NEW id, id \notin DOMAIN O, NEW o \in LiveOrder
    PROVE  Sums(Put(O, id, o)) = Plus(Sums(O), o)
BY PutUnits DEF Sums, Plus

-----------------------------------------------------------------------------
(* What is added to the sums can be taken off again.                       *)
LEMMA PlusMinus ==
    ASSUME NEW D \in [Sides -> [Nat -> Nat]], NEW o \in LiveOrder
    PROVE  /\ Plus(D, o) \in [Sides -> [Nat -> Nat]]
           /\ Plus(D, o)[o.side][o.price] = D[o.side][o.price] + o.quantity
           /\ Minus(Plus(D, o), o) = D
<1>1. o.side \in Sides /\ o.price \in Nat /\ o.quantity \in Nat  BY DEF LiveOrder
<1>2. \A side \in Sides, price \in Nat : At(o, side, price) \in Nat  BY <1>1 DEF At
<1>3. /\ Plus(D, o) \in [Sides -> [Nat -> Nat]]
      /\ Plus(D, o)[o.side][o.price] = D[o.side][o.price] + o.quantity
  BY <1>1, <1>2 DEF Plus, At
<1>4. ASSUME NEW side \in Sides, NEW price \in Nat
      PROVE  Plus(D, o)[side][price] - At(o, side, price) = D[side][price]
  BY <1>2 DEF Plus
<1>5. Minus(Plus(D, o), o) = [side \in Sides |-> [price \in Nat |-> D[side][price]]]
  BY <1>4, Zenon DEF Minus
<1>7. D = [side \in Sides |-> [price \in Nat |-> D[side][price]]]  OBVIOUS
<1> QED  BY <1>3, <1>5, <1>7

(* The same of a part of it.                                               *)
LEMMA MinusPart ==
    ASSUME NEW D \in [Sides -> [Nat -> Nat]], NEW o \in LiveOrder, NEW quantity \in 1 .. o.quantity - 1
    PROVE  Minus(Plus(D, o), [o EXCEPT !.quantity = quantity]) =
              Plus(D, [o EXCEPT !.quantity = @ - quantity])
<1> DEFINE p == [o EXCEPT !.quantity = quantity]
           q == [o EXCEPT !.quantity = @ - quantity]
<1>1. /\ p.side = o.side /\ p.price = o.price /\ p.quantity = quantity
      /\ q.side = o.side /\ q.price = o.price /\ q.quantity = o.quantity - quantity
      /\ o.side \in Sides /\ o.price \in Nat /\ o.quantity \in Nat
  BY DEF LiveOrder
<1> HIDE DEF p, q
<1>2. ASSUME NEW side \in Sides, NEW price \in Nat
      PROVE  Plus(D, o)[side][price] - At(p, side, price) = D[side][price] + At(q, side, price)
  BY <1>1 DEF Plus, At
<1>3. Minus(Plus(D, o), p) =
        [side \in Sides |-> [price \in Nat |-> D[side][price] + At(q, side, price)]]
  BY <1>2, Zenon DEF Minus
<1>4. Minus(Plus(D, o), p) = Plus(D, q)  BY <1>3, Zenon DEF Plus
<1> QED  BY <1>4 DEF p, q

(* A removed order takes its quantity off, and the level has that much.    *)
LEMMA DropSums ==
    ASSUME NEW O, OrderMap(O), NEW id \in DOMAIN O
    PROVE  /\ O[id] \in LiveOrder
           /\ Sums(Drop(O, id)) = Minus(Sums(O), O[id])
           /\ O[id].quantity <= Sums(O)[O[id].side][O[id].price]
<1> DEFINE D == Drop(O, id)
<1>1. OrderMap(D) /\ id \notin DOMAIN D  BY DropOrder, Zenon
<1>2. O[id] \in LiveOrder  BY DEF OrderMap
<1>3. O = Put(D, id, O[id])
  <2>1. [O EXCEPT ![id] = O[id]] = O  BY DEF OrderMap
  <2> QED  BY <2>1, PutDrop
<1> HIDE DEF D
<1>4. Sums(O) = Plus(Sums(D), O[id])  BY <1>1, <1>2, <1>3, PutSums
<1>5. Sums(D) \in [Sides -> [Nat -> Nat]]  BY <1>1, SumsType
<1>6. /\ Minus(Sums(O), O[id]) = Sums(D)
      /\ Sums(O)[O[id].side][O[id].price] = Sums(D)[O[id].side][O[id].price] + O[id].quantity
  BY <1>2, <1>4, <1>5, PlusMinus
<1>7. Sums(D)[O[id].side][O[id].price] \in Nat /\ O[id].quantity \in Nat
  BY <1>2, <1>5 DEF LiveOrder
<1> QED  BY <1>2, <1>6, <1>7 DEF D

(* What a partial cancel or execution does to them.                        *)
LEMMA ReduceSums ==
    ASSUME NEW O, OrderMap(O), NEW id \in DOMAIN O, NEW quantity \in 1 .. O[id].quantity - 1
    PROVE  /\ OrderMap(Reduced(O, id, quantity)) /\ DOMAIN Reduced(O, id, quantity) = DOMAIN O
           /\ Sums(Reduced(O, id, quantity)) = Minus(Sums(O), [O[id] EXCEPT !.quantity = quantity])
<1> DEFINE D == Drop(O, id)
           o == O[id]
           p == [o EXCEPT !.quantity = @ - quantity]
<1>1. OrderMap(D) /\ id \notin DOMAIN D  BY DropOrder, Zenon
<1>2. o \in LiveOrder /\ id \in DOMAIN Hash \ {0}  BY DEF OrderMap
<1>3. O = Put(D, id, o)
  <2>1. [O EXCEPT ![id] = O[id]] = O  BY DEF OrderMap
  <2> QED  BY <2>1, PutDrop
<1>4. Reduced(O, id, quantity) = Put(O, id, p)
  <2>1. Reduced(O, id, quantity) = [O EXCEPT ![id] = p]  BY DEF Reduced, OrderMap
  <2> HIDE DEF p
  <2> QED  BY <2>1, PutDrop
<1>5. Put(O, id, p) = Put(D, id, p)
  <2> HIDE DEF p
  <2> QED  BY PutDrop
<1> HIDE DEF D, o
<1>6. p \in LiveOrder  BY <1>2, LargestQuantity DEF LiveOrder, o
<1>11. quantity \in 1 .. o.quantity - 1  BY DEF o
<1>12. \A D1 \in [Sides -> [Nat -> Nat]] :
          Minus(Plus(D1, o), [o EXCEPT !.quantity = quantity]) = Plus(D1, p)
  BY <1>2, <1>11, MinusPart, Zenon
<1> HIDE DEF p
<1>7. OrderMap(Put(O, id, p)) /\ DOMAIN Put(O, id, p) = DOMAIN O
  <2>1. OrderMap(Put(O, id, p)) /\ DOMAIN Put(O, id, p) = DOMAIN O \cup {id}  BY <1>2, <1>6, PutOrder, Zenon
  <2> QED  BY <2>1
<1>8. Sums(O) = Plus(Sums(D), o) /\ Sums(Put(D, id, p)) = Plus(Sums(D), p)
  BY <1>1, <1>2, <1>3, <1>6, PutSums
<1>9. Sums(D) \in [Sides -> [Nat -> Nat]]  BY <1>1, SumsType
<1>10. Minus(Sums(O), [o EXCEPT !.quantity = quantity]) = Plus(Sums(D), p)
  BY <1>8, <1>9, <1>12, Zenon
<1> QED  BY <1>4, <1>5, <1>7, <1>8, <1>10 DEF o

(* A price has a quantity exactly when it has a live order.                *)
LEMMA PricesAreLevels ==
    ASSUME NEW O, OrderMap(O), NEW side \in Sides
    PROVE  /\ Prices(O, side) = {price \in Nat : Sums(O)[side][price] # 0}
           /\ \A price \in Nat : Sums(O)[side][price] = Level(O, side, price)
<1>1. \A price \in Nat : Sums(O)[side][price] = Level(O, side, price)  BY DEF Sums
<1>2. ASSUME NEW price \in Nat
      PROVE  Level(O, side, price) # 0 <=>
                \E id \in DOMAIN O : O[id].side = side /\ O[id].price = price
  <2>1. IsFiniteSet(Units(O, side, price))  BY UnitsFinite
  <2>2. Level(O, side, price) = 0 <=> Units(O, side, price) = {}
    BY <2>1, FS_EmptySet, Zenon DEF Level
  <2>3. ASSUME NEW id \in DOMAIN O, O[id].side = side, O[id].price = price
        PROVE  Units(O, side, price) # {}
    <3>1. 1 \in 1 .. O[id].quantity  BY LargestQuantity DEF OrderMap, LiveOrder
    <3>2. <<id, 1>> \in {id} \X (1 .. O[id].quantity)  BY <3>1
    <3>3. <<id, 1>> \in Units(O, side, price)  BY <2>3, <3>2, Zenon DEF Units
    <3> QED  BY <3>3
  <2>4. ASSUME Units(O, side, price) # {}
        PROVE  \E id \in DOMAIN O : O[id].side = side /\ O[id].price = price
    BY <2>4, Zenon DEF Units
  <2> QED  BY <2>2, <2>3, <2>4
<1>3. \A id \in DOMAIN O : O[id].price \in Nat  BY DEF OrderMap, LiveOrder
<1>4. Prices(O, side) = {price \in Nat : \E id \in DOMAIN O : O[id].side = side /\ O[id].price = price}
  BY <1>3 DEF Prices
<1> QED  BY <1>1, <1>2, <1>4

-----------------------------------------------------------------------------
(* A table of n slots that represents the map M: an occupied slot holds an *)
(* entry of M, no two slots hold the same id, and the probe for every id   *)
(* of M reaches its slot.                                                  *)
Entries(M) == {Occupied(id, M[id]) : id \in DOMAIN M}

Reached(slots, id) ==
    \E step \in Visited(slots, id) : Holds(slots[Probe(slots, id, step)], id)

Table(slots, M, n) ==
    /\ n \in Nat \ {0}
    /\ slots \in [0 .. n - 1 -> {Empty, Tombstone} \cup Entries(M)]
    /\ \A i, j \in 0 .. n - 1 :
          slots[i].state = "Occupied" /\ slots[j].state = "Occupied" /\ slots[i].id = slots[j].id
             => i = j
    /\ \A id \in DOMAIN M : Reached(slots, id)
    /\ IsFiniteSet(DOMAIN M) /\ DOMAIN M \subseteq DOMAIN Hash

-----------------------------------------------------------------------------
(* The rest of a number in the table.                                      *)
LEMMA ModUnique ==
    ASSUME NEW n \in Nat \ {0}, NEW q \in Nat, NEW i \in 0 .. n - 1
    PROVE  (n * q + i) % n = i
<1>1. i \in Nat /\ i < n  OBVIOUS
<1>2. (q * n + i) % n = i  BY <1>1, OneRest
<1>3. n * q = q * n  OBVIOUS
<1> QED  BY <1>2, <1>3

(* A probe stays within the table, and n steps of it reach every slot.     *)
LEMMA ProbeInTable ==
    ASSUME NEW slots, NEW n \in Nat \ {0}, DOMAIN slots = 0 .. n - 1,
           NEW id \in DOMAIN Hash, NEW step \in Nat
    PROVE  /\ Probe(slots, id, step) = (Hash[id] + step) % n
           /\ Probe(slots, id, step) \in 0 .. n - 1
<1>1. Cardinality(DOMAIN slots) = n  BY Counting
<1>2. Hash[id] + step \in Nat  BY HashType
<1>3. (Hash[id] + step) % n \in 0 .. n - 1  BY <1>2, QuotientAndRest, Zenon
<1> QED  BY <1>1, <1>3 DEF Probe

(* n steps of a probe reach every slot.                                    *)
LEMMA ProbeReaches ==
    ASSUME NEW slots, NEW n \in Nat \ {0}, DOMAIN slots = 0 .. n - 1,
           NEW id \in DOMAIN Hash, NEW i \in 0 .. n - 1
    PROVE  \E step \in 0 .. n - 1 : Probe(slots, id, step) = i
<1> DEFINE h == Hash[id]
           q == h \div n
           r == h % n
<1>1. h \in Nat  BY HashType
<1>2. q \in Nat /\ r \in 0 .. n - 1 /\ h = n * q + r  BY <1>1, QuotientAndRest, Zenon
<1> HIDE DEF q, r
<1>3. ASSUME NEW step \in 0 .. n - 1, NEW k \in Nat, h + step = n * k + i
      PROVE  Probe(slots, id, step) = i
  <2>1. step \in Nat  OBVIOUS
  <2>2. Probe(slots, id, step) = (h + step) % n  BY <2>1, ProbeInTable, Zenon
  <2>3. (n * k + i) % n = i  BY ModUnique, Zenon
  <2> QED  BY <1>3, <2>2, <2>3, Zenon
<1> HIDE DEF h
<1>4. CASE i >= r
  <2>1. i - r \in 0 .. n - 1  BY <1>2, <1>4
  <2>2. n * q \in Nat  BY <1>2
  <2>3. h + (i - r) = n * q + i  BY <1>2, <2>2
  <2> QED  BY <1>2, <1>3, <2>1, <2>3, Zenon
<1>5. CASE i < r
  <2>1. n + i - r \in 0 .. n - 1  BY <1>2, <1>5
  <2>2. q + 1 \in Nat /\ n * (q + 1) = n * q + n /\ n * q \in Nat  BY <1>2
  <2>3. h + (n + i - r) = n * (q + 1) + i  BY <1>2, <2>2
  <2> QED  BY <1>3, <2>1, <2>2, <2>3, Zenon
<1> QED  BY <1>2, <1>4, <1>5

-----------------------------------------------------------------------------
(* What a slot of a table can be.                                          *)
LEMMA SlotKinds ==
    ASSUME NEW slots, NEW M, NEW n, Table(slots, M, n), NEW i \in 0 .. n - 1
    PROVE  /\ DOMAIN slots = 0 .. n - 1
           /\ slots[i].state \in {"Empty", "Tombstone", "Occupied"}
           /\ slots[i].state = "Occupied" =>
                 slots[i].id \in DOMAIN M /\ slots[i] = Occupied(slots[i].id, M[slots[i].id])
<1>1. slots[i] \in {Empty, Tombstone} \cup Entries(M)  BY DEF Table
<1>2. CASE slots[i] = Empty \/ slots[i] = Tombstone
  BY <1>2 DEF Table, Empty, Tombstone
<1>3. CASE slots[i] \in Entries(M)
  <2>1. PICK id \in DOMAIN M : slots[i] = Occupied(id, M[id])  BY <1>3 DEF Entries
  <2>2. slots[i].state = "Occupied" /\ slots[i].id = id  BY <2>1 DEF Occupied
  <2> QED  BY <2>1, <2>2 DEF Table
<1> QED  BY <1>1, <1>2, <1>3

(* find_slot yields the slot of a live id, and nothing for another.        *)
LEMMA FindSlot ==
    ASSUME NEW slots, NEW M, NEW n, Table(slots, M, n), NEW id \in DOMAIN Hash
    PROVE  /\ id \notin DOMAIN M => find_slot(slots, id) = {}
           /\ id \in DOMAIN M => \E i \in 0 .. n - 1 :
                 find_slot(slots, id) = {i} /\ slots[i] = Occupied(id, M[id])
<1> DEFINE steps == {step \in Visited(slots, id) : Holds(slots[Probe(slots, id, step)], id)}
           i == Probe(slots, id, Min(steps))
<1>1. find_slot(slots, id) = IF steps = {} THEN {} ELSE {i}
  BY DEF find_slot, FirstOf, Visits
<1>2. n \in Nat \ {0} /\ DOMAIN slots = 0 .. n - 1  BY DEF Table
<1>3. steps \in SUBSET Nat  BY <1>2 DEF Visited
<1>4. ASSUME steps # {}
      PROVE  i \in 0 .. n - 1 /\ id \in DOMAIN M /\ slots[i] = Occupied(id, M[id])
  <2>1. Min(steps) \in steps  BY <1>3, <1>4, LeastElement, Zenon
  <2>2. Min(steps) \in Nat /\ Holds(slots[i], id)  BY <1>3, <2>1
  <2> HIDE DEF steps
  <2>3. i \in 0 .. n - 1  BY <1>2, <2>2, ProbeInTable
  <2> HIDE DEF i
  <2>4. slots[i].state = "Occupied" /\ slots[i].id = id  BY <2>2 DEF Holds
  <2> QED  BY <2>3, <2>4, SlotKinds
<1>5. id \in DOMAIN M => steps # {}  BY DEF Table, Reached
<1> HIDE DEF steps, i
<1> QED  BY <1>1, <1>4, <1>5

-----------------------------------------------------------------------------
(* The occupied slots are as many as the entries.                          *)
LEMMA TableCount ==
    ASSUME NEW slots, NEW M, NEW n, Table(slots, M, n)
    PROVE  /\ Cardinality(DOMAIN M) \in 0 .. n
           /\ Cardinality(DOMAIN M) = n <=> \A i \in 0 .. n - 1 : slots[i].state = "Occupied"
<1> DEFINE All == 0 .. n - 1
           Occ == {i \in All : slots[i].state = "Occupied"}
           f == [i \in Occ |-> slots[i].id]
<1>1. n \in Nat \ {0} /\ DOMAIN slots = All  BY DEF Table
<1>2. IsFiniteSet(All) /\ Cardinality(All) = n  BY <1>1, Counting, Zenon
<1>3. f \in [Occ -> DOMAIN M]  BY SlotKinds
<1>4. \A i, j \in Occ : f[i] = f[j] => i = j  BY DEF Table
<1>5. ASSUME NEW id \in DOMAIN M  PROVE \E i \in Occ : f[i] = id
  <2>1. PICK step \in Visited(slots, id) : Holds(slots[Probe(slots, id, step)], id)
    BY DEF Table, Reached
  <2>2. step \in Nat /\ id \in DOMAIN Hash  BY <1>1, <2>1 DEF Visited, Table
  <2>3. Probe(slots, id, step) \in All  BY <1>1, <2>2, ProbeInTable, Zenon
  <2> QED  BY <2>1, <2>3 DEF Holds
<1> HIDE DEF f
<1>6. f \in Bijection(Occ, DOMAIN M)
  BY <1>3, <1>4, <1>5 DEF Bijection, Injection, Surjection, IsInjective
<1>7. Occ \in SUBSET All  OBVIOUS
<1> HIDE DEF Occ, All
<1>8. /\ IsFiniteSet(Occ) /\ Cardinality(Occ) <= n
      /\ Cardinality(All) = Cardinality(Occ) => All = Occ
  BY <1>2, <1>7, FS_Subset
<1>9. Cardinality(DOMAIN M) = Cardinality(Occ)
  <2>1. ExistsBijection(Occ, DOMAIN M)  BY <1>6, Zenon DEF ExistsBijection
  <2> QED  BY <1>8, <2>1, FS_Bijection, Zenon
<1>10. Cardinality(Occ) \in Nat  BY <1>8, FS_CardinalityType, Zenon
<1>11. All = Occ <=> \A i \in 0 .. n - 1 : slots[i].state = "Occupied"  BY DEF All, Occ
<1> QED  BY <1>1, <1>2, <1>8, <1>9, <1>10, <1>11

(* insertion_slot yields a slot that the probe visits and that is free, as *)
(* long as there is one: a table without an empty slot is no exception.    *)
LEMMA InsertionSlot ==
    ASSUME NEW slots, NEW M, NEW n, Table(slots, M, n), NEW id \in DOMAIN Hash
    PROVE  /\ id \in DOMAIN M => insertion_slot(slots, id) = {}
           /\ Cardinality(DOMAIN M) = n => insertion_slot(slots, id) = {}
           /\ id \notin DOMAIN M /\ Cardinality(DOMAIN M) # n =>
                 \E step \in Visited(slots, id) :
                    /\ insertion_slot(slots, id) = {Probe(slots, id, step)}
                    /\ slots[Probe(slots, id, step)].state # "Occupied"
<1> DEFINE At0(step) == slots[Probe(slots, id, step)].state
           tombs == {step \in Visited(slots, id) : At0(step) = "Tombstone"}
           empties == {step \in Visited(slots, id) : At0(step) = "Empty"}
           free == IF tombs # {} THEN tombs ELSE empties
<1>1. n \in Nat \ {0} /\ DOMAIN slots = 0 .. n - 1  BY DEF Table
<1>2. insertion_slot(slots, id) = IF find_slot(slots, id) # {} \/ free = {} THEN {}
                                  ELSE {Probe(slots, id, Min(free))}
  BY Zenon DEF insertion_slot, FirstOf, Visits
<1>3. id \in DOMAIN M => find_slot(slots, id) # {}  BY FindSlot
<1>4. id \notin DOMAIN M => find_slot(slots, id) = {}  BY FindSlot
<1>5. \A step \in Visited(slots, id) : step \in 0 .. n - 1 /\ Probe(slots, id, step) \in 0 .. n - 1
  BY <1>1, ProbeInTable DEF Visited
<1>6. free \in SUBSET Nat /\ free \in SUBSET Visited(slots, id)  BY <1>5
<1>7. ASSUME free # {}
      PROVE  Min(free) \in Visited(slots, id) /\ At0(Min(free)) # "Occupied"
  <2>1. Min(free) \in free  BY <1>6, <1>7, LeastElement, Zenon
  <2> QED  BY <2>1
<1>8. ASSUME free = {}
      PROVE  \A i \in 0 .. n - 1 : slots[i].state = "Occupied"
  <2> DEFINE ends == {step \in 0 .. n - 1 : At0(step) = "Empty"}
  <2>1. ends = {}
    <3> SUFFICES ASSUME ends # {} PROVE FALSE  OBVIOUS
    <3> DEFINE m == Min(ends)
    <3>1. ends \in SUBSET Nat  OBVIOUS
    <3>2. m \in ends /\ \A step \in ends : m <= step  BY <3>1, LeastElement, Zenon
    <3> HIDE DEF m
    <3>3. m \in 0 .. n - 1 /\ At0(m) = "Empty" /\ \A s \in 0 .. m - 1 : At0(s) # "Empty"
      BY <1>1, <3>2
    <3>4. m \in Visited(slots, id)  BY <1>1, <3>3 DEF Visited
    <3> QED  BY <1>8, <3>3, <3>4
  <2>2. ASSUME NEW i \in 0 .. n - 1  PROVE slots[i].state = "Occupied"
    <3>1. PICK step \in 0 .. n - 1 : Probe(slots, id, step) = i  BY <1>1, ProbeReaches, Zenon
    <3>2. \A s \in 0 .. n - 1 : At0(s) # "Empty"  BY <2>1
    <3>3. step \in Visited(slots, id)  BY <1>1, <3>2 DEF Visited
    <3>4. slots[i].state # "Empty" /\ slots[i].state # "Tombstone"  BY <1>8, <3>1, <3>3
    <3> QED  BY <3>4, SlotKinds
  <2> QED  BY <2>2
<1>9. ASSUME \A i \in 0 .. n - 1 : slots[i].state = "Occupied"
      PROVE  free = {}
  BY <1>5, <1>9
<1>10. free = {} <=> Cardinality(DOMAIN M) = n  BY <1>8, <1>9, TableCount
<1> HIDE DEF free
<1> QED  BY <1>2, <1>3, <1>4, <1>7, <1>10

-----------------------------------------------------------------------------
(* A slot that gets something other than Empty ends no probe.              *)
LEMMA FilledSlot ==
    ASSUME NEW slots, NEW M, NEW n, Table(slots, M, n), NEW i \in 0 .. n - 1,
           NEW s, s.state # "Empty", NEW id \in DOMAIN Hash
    PROVE  LET t == [slots EXCEPT ![i] = s]
           IN  /\ \A step \in Nat : /\ Probe(t, id, step) = Probe(slots, id, step)
                                    /\ Probe(slots, id, step) \in 0 .. n - 1
               /\ Visited(slots, id) \subseteq Visited(t, id)
<1> DEFINE t == [slots EXCEPT ![i] = s]
<1>1. n \in Nat \ {0} /\ DOMAIN slots = 0 .. n - 1  BY DEF Table
<1>2. DOMAIN t = DOMAIN slots /\ \A j \in 0 .. n - 1 : t[j] = IF j = i THEN s ELSE slots[j]
  BY <1>1
<1> HIDE DEF t
<1>3. \A step \in Nat : /\ Probe(t, id, step) = Probe(slots, id, step)
                        /\ Probe(slots, id, step) \in 0 .. n - 1
  <2>1. \A step \in Nat : Probe(slots, id, step) \in 0 .. n - 1  BY <1>1, ProbeInTable
  <2> QED  BY <1>2, <2>1 DEF Probe
<1>4. ASSUME NEW step \in Visited(slots, id)  PROVE step \in Visited(t, id)
  <2>1. step \in DOMAIN slots /\ \A u \in 0 .. step - 1 : slots[Probe(slots, id, u)].state # "Empty"
    BY DEF Visited
  <2>2. ASSUME NEW u \in 0 .. step - 1  PROVE t[Probe(t, id, u)].state # "Empty"
    <3>1. u \in Nat  BY <1>1, <2>1
    <3>2. slots[Probe(slots, id, u)].state # "Empty"  BY <2>1
    <3> QED  BY <1>2, <1>3, <3>1, <3>2
  <2> QED  BY <1>2, <2>1, <2>2 DEF Visited
<1> QED  BY <1>3, <1>4, Zenon DEF t

(* An order takes the slot that the probe found, an order leaves its slot, *)
(* and the order in a slot changes.                                        *)
LEMMA OccupySlot ==
    ASSUME NEW slots, NEW M, NEW n, Table(slots, M, n),
           NEW id \in DOMAIN Hash, id \notin DOMAIN M, NEW x,
           NEW step \in Visited(slots, id), slots[Probe(slots, id, step)].state # "Occupied"
    PROVE  Table([slots EXCEPT ![Probe(slots, id, step)] = Occupied(id, x)], Put(M, id, x), n)
<1> DEFINE i == Probe(slots, id, step)
           s == Occupied(id, x)
           t == [slots EXCEPT ![i] = s]
           N == Put(M, id, x)
<1>1. n \in Nat \ {0} /\ DOMAIN slots = 0 .. n - 1  BY DEF Table
<1>2. step \in Nat  BY <1>1 DEF Visited
<1>3. i \in 0 .. n - 1  BY <1>1, <1>2, ProbeInTable, Zenon
<1>4. s.state = "Occupied" /\ s.id = id  BY DEF Occupied
<1>5. /\ DOMAIN N = DOMAIN M \cup {id} /\ N[id] = x /\ \A k \in DOMAIN M : N[k] = M[k]
  BY DEF Put
<1>6. IsFiniteSet(DOMAIN N) /\ DOMAIN N \subseteq DOMAIN Hash
  <2>1. IsFiniteSet(DOMAIN M \cup {id})  BY FS_AddElement, Zenon DEF Table
  <2> QED  BY <1>5, <2>1 DEF Table
<1>7. s \in Entries(N) /\ Entries(M) \subseteq Entries(N)  BY <1>5, Zenon DEF Entries
<1>8. ASSUME NEW k \in DOMAIN Hash
      PROVE  /\ \A u \in Nat : Probe(t, k, u) = Probe(slots, k, u) /\ Probe(slots, k, u) \in 0 .. n - 1
             /\ Visited(slots, k) \subseteq Visited(t, k)
  <2> HIDE DEF i, s
  <2> QED  BY <1>3, <1>4, FilledSlot, Zenon
<1> HIDE DEF s, N
<1>9. t \in [0 .. n - 1 -> {Empty, Tombstone} \cup Entries(N)]  BY <1>7, Zenon DEF Table
<1>10. \A j \in 0 .. n - 1 : t[j] = IF j = i THEN s ELSE slots[j]  BY <1>1
<1> HIDE DEF t
<1>11. \A j, k \in 0 .. n - 1 :
          t[j].state = "Occupied" /\ t[k].state = "Occupied" /\ t[j].id = t[k].id => j = k
  <2>1. \A j \in 0 .. n - 1 : slots[j].state = "Occupied" => slots[j].id # id  BY SlotKinds
  <2> QED  BY <1>4, <1>10, <2>1 DEF Table
<1>12. ASSUME NEW k \in DOMAIN N  PROVE Reached(t, k)
  <2>1. CASE k = id
    <3>1. step \in Visited(t, id) /\ Probe(t, id, step) = i  BY <1>2, <1>8
    <3>2. Holds(t[i], id)  BY <1>3, <1>4, <1>10 DEF Holds
    <3> QED  BY <2>1, <3>1, <3>2, Zenon DEF Reached
  <2>2. CASE k # id
    <3>1. k \in DOMAIN M /\ k \in DOMAIN Hash  BY <1>5, <1>6, <2>2
    <3>2. PICK u \in Visited(slots, k) : Holds(slots[Probe(slots, k, u)], k)
      BY <3>1 DEF Table, Reached
    <3>3. u \in Nat  BY <1>1, <3>2 DEF Visited
    <3>4. u \in Visited(t, k) /\ Probe(t, k, u) = Probe(slots, k, u) /\ Probe(slots, k, u) \in 0 .. n - 1
      BY <1>8, <3>1, <3>2, <3>3
    <3>5. Probe(slots, k, u) # i  BY <3>2 DEF Holds
    <3>6. Holds(t[Probe(t, k, u)], k)  BY <1>10, <3>2, <3>4, <3>5
    <3> QED  BY <3>4, <3>6, Zenon DEF Reached
  <2> QED  BY <2>1, <2>2
<1>13. Table(t, N, n)  BY <1>1, <1>6, <1>9, <1>11, <1>12, Zenon DEF Table
<1> QED  BY <1>13 DEF t, N, s

(* A tombstone in place of an order keeps the other probes going.          *)
LEMMA BurySlot ==
    ASSUME NEW slots, NEW M, NEW n, Table(slots, M, n), NEW i \in 0 .. n - 1,
           NEW id \in DOMAIN M, slots[i] = Occupied(id, M[id])
    PROVE  Table([slots EXCEPT ![i] = Tombstone], Drop(M, id), n)
<1> DEFINE t == [slots EXCEPT ![i] = Tombstone]
           N == Drop(M, id)
<1>1. n \in Nat \ {0} /\ DOMAIN slots = 0 .. n - 1  BY DEF Table
<1>2. slots[i].state = "Occupied" /\ slots[i].id = id  BY DEF Occupied
<1>3. DOMAIN N = DOMAIN M \ {id} /\ \A k \in DOMAIN N : N[k] = M[k]  BY DEF Drop, Restrict
<1>4. IsFiniteSet(DOMAIN N) /\ DOMAIN N \subseteq DOMAIN Hash
  <2>1. IsFiniteSet(DOMAIN M \ {id})  BY FS_RemoveElement, Zenon DEF Table
  <2> QED  BY <1>3, <2>1 DEF Table
<1>5. Tombstone.state = "Tombstone"  BY DEF Tombstone
<1>6. ASSUME NEW k \in DOMAIN Hash
      PROVE  /\ \A u \in Nat : Probe(t, k, u) = Probe(slots, k, u) /\ Probe(slots, k, u) \in 0 .. n - 1
             /\ Visited(slots, k) \subseteq Visited(t, k)
  BY <1>5, FilledSlot, Zenon
<1> HIDE DEF N
<1>7. \A j \in 0 .. n - 1 : t[j] = IF j = i THEN Tombstone ELSE slots[j]  BY <1>1
<1>8. t \in [0 .. n - 1 -> {Empty, Tombstone} \cup Entries(N)]
  <2>1. ASSUME NEW j \in 0 .. n - 1, j # i, slots[j] \in Entries(M)
        PROVE  slots[j] \in Entries(N)
    <3>1. PICK k \in DOMAIN M : slots[j] = Occupied(k, M[k])  BY <2>1 DEF Entries
    <3>2. slots[j].state = "Occupied" /\ slots[j].id = k  BY <3>1 DEF Occupied
    <3>3. k # id  BY <1>2, <2>1, <3>2 DEF Table
    <3>4. k \in DOMAIN N /\ N[k] = M[k]  BY <1>3, <3>3
    <3> QED  BY <3>1, <3>4, Zenon DEF Entries
  <2>2. \A j \in 0 .. n - 1 : slots[j] \in {Empty, Tombstone} \cup Entries(M)  BY DEF Table
  <2>3. \A j \in 0 .. n - 1 : t[j] \in {Empty, Tombstone} \cup Entries(N)  BY <1>7, <2>1, <2>2
  <2>4. t = [j \in 0 .. n - 1 |-> t[j]]  BY <1>1, Zenon DEF Table
  <2> HIDE DEF t
  <2> QED  BY <2>3, <2>4
<1> HIDE DEF t
<1>9. \A j, k \in 0 .. n - 1 :
          t[j].state = "Occupied" /\ t[k].state = "Occupied" /\ t[j].id = t[k].id => j = k
  BY <1>5, <1>7 DEF Table
<1>10. ASSUME NEW k \in DOMAIN N  PROVE Reached(t, k)
  <2>1. k \in DOMAIN M /\ k # id /\ k \in DOMAIN Hash  BY <1>3, <1>4
  <2>2. PICK u \in Visited(slots, k) : Holds(slots[Probe(slots, k, u)], k)
    BY <2>1 DEF Table, Reached
  <2>3. u \in Nat  BY <1>1, <2>2 DEF Visited
  <2>4. u \in Visited(t, k) /\ Probe(t, k, u) = Probe(slots, k, u) /\ Probe(slots, k, u) \in 0 .. n - 1
    BY <1>6, <2>1, <2>2, <2>3
  <2>5. Probe(slots, k, u) # i  BY <1>2, <2>1, <2>2 DEF Holds
  <2>6. Holds(t[Probe(t, k, u)], k)  BY <1>7, <2>2, <2>4, <2>5
  <2> QED  BY <2>4, <2>6, Zenon DEF Reached
<1>11. Table(t, N, n)  BY <1>1, <1>4, <1>8, <1>9, <1>10, Zenon DEF Table
<1> QED  BY <1>11 DEF t, N

-----------------------------------------------------------------------------
(* Another order for an id that the table has.                             *)
LEMMA UpdateSlot ==
    ASSUME NEW slots, NEW M, NEW n, Table(slots, M, n), NEW i \in 0 .. n - 1,
           NEW id \in DOMAIN M, slots[i] = Occupied(id, M[id]), NEW x
    PROVE  Table([slots EXCEPT ![i] = Occupied(id, x)], Put(M, id, x), n)
<1> DEFINE t == [slots EXCEPT ![i] = Tombstone]
           N == Drop(M, id)
<1>1. n \in Nat \ {0} /\ DOMAIN slots = 0 .. n - 1 /\ id \in DOMAIN Hash  BY DEF Table
<1>2. Table(t, N, n)  BY BurySlot, Zenon
<1>3. id \notin DOMAIN N  BY DEF Drop, Restrict
<1>4. Put(N, id, x) = Put(M, id, x)
  <2>1. (DOMAIN M \ {id}) \cup {id} = DOMAIN M \cup {id}  OBVIOUS
  <2> QED  BY <2>1, Zenon DEF Put, Drop, Restrict
<1>5. PICK step \in Visited(slots, id) : Holds(slots[Probe(slots, id, step)], id)
  BY DEF Table, Reached
<1>6. step \in Nat  BY <1>1, <1>5 DEF Visited
<1>7. Tombstone.state # "Empty" /\ Tombstone.state # "Occupied"  BY DEF Tombstone
<1>14. /\ \A u \in Nat : Probe(t, id, u) = Probe(slots, id, u) /\ Probe(slots, id, u) \in 0 .. n - 1
       /\ Visited(slots, id) \subseteq Visited(t, id)
  BY <1>1, <1>7, FilledSlot, Zenon
<1>8. /\ Probe(t, id, step) = Probe(slots, id, step) /\ Probe(slots, id, step) \in 0 .. n - 1
      /\ step \in Visited(t, id)
  BY <1>5, <1>6, <1>14, Zenon
<1>9. slots[i].state = "Occupied" /\ slots[i].id = id  BY DEF Occupied
<1>10. Probe(slots, id, step) = i  BY <1>5, <1>8, <1>9 DEF Table, Holds
<1>11. t[Probe(t, id, step)].state # "Occupied"  BY <1>1, <1>7, <1>8, <1>10
<1>12. [t EXCEPT ![Probe(t, id, step)] = Occupied(id, x)] = [slots EXCEPT ![i] = Occupied(id, x)]
  BY <1>1, <1>8, <1>10, Zenon DEF Table
<1> HIDE DEF t, N
<1>13. Table([t EXCEPT ![Probe(t, id, step)] = Occupied(id, x)], Put(N, id, x), n)
  BY <1>1, <1>2, <1>3, <1>8, <1>11, OccupySlot, Zenon
<1> QED  BY <1>4, <1>12, <1>13, Zenon

(* A new table has no entries.                                             *)
LEMMA NewTable ==
    ASSUME NEW n \in Nat \ {0}, NEW M, DOMAIN M = {}
    PROVE  Table([i \in 0 .. n - 1 |-> Empty], M, n)
<1>1. Empty.state = "Empty"  BY DEF Empty
<1>2. IsFiniteSet(DOMAIN M)  BY FS_EmptySet
<1> QED  BY <1>1, <1>2 DEF Table

(* The digest finds every order again through the index.                   *)
LEMMA TableOrders ==
    ASSUME NEW slots, NEW M, NEW n, Table(slots, M, n)
    PROVE  Orders(slots) = {<<id, M[id]>> : id \in DOMAIN M}
<1> DEFINE occupied == {j \in DOMAIN slots : slots[j].state = "Occupied"}
           ids == {slots[i].id : i \in occupied}
           F(id) == {<<id, slots[i].order>> : i \in find_slot(slots, id)}
<1>1. DOMAIN slots = 0 .. n - 1  BY DEF Table
<1>2. ASSUME NEW id \in DOMAIN M
      PROVE  id \in ids /\ F(id) = {<<id, M[id]>>}
  <2>1. id \in DOMAIN Hash  BY DEF Table
  <2>2. PICK i \in 0 .. n - 1 : find_slot(slots, id) = {i} /\ slots[i] = Occupied(id, M[id])
    BY <2>1, FindSlot, Zenon
  <2>3. slots[i].state = "Occupied" /\ slots[i].id = id /\ slots[i].order = M[id]
    BY <2>2 DEF Occupied
  <2>4. id \in ids  BY <1>1, <2>3
  <2>5. F(id) = {<<id, slots[i].order>>}  BY <2>2
  <2> QED  BY <2>3, <2>4, <2>5
<1>3. \A i \in occupied : slots[i].id \in DOMAIN M  BY <1>1, SlotKinds, Zenon
<1>4. Orders(slots) = UNION {F(id) : id \in ids}  BY DEF Orders
<1>5. ids = DOMAIN M  BY <1>2, <1>3, Zenon
<1> HIDE DEF ids, F
<1>6. UNION {F(id) : id \in DOMAIN M} = {<<id, M[id]>> : id \in DOMAIN M}  BY <1>2
<1> QED  BY <1>4, <1>5, <1>6


-----------------------------------------------------------------------------
(* How many live orders there are after one came or went.                  *)
LEMMA OrderCount ==
    ASSUME NEW O, OrderMap(O), NEW id, NEW o
    PROVE  /\ Cardinality(DOMAIN O) \in Nat
           /\ id \notin DOMAIN O => Cardinality(DOMAIN Put(O, id, o)) = Cardinality(DOMAIN O) + 1
           /\ id \in DOMAIN O => /\ Cardinality(DOMAIN Put(O, id, o)) = Cardinality(DOMAIN O)
                                 /\ Cardinality(DOMAIN Drop(O, id)) = Cardinality(DOMAIN O) - 1
<1>1. IsFiniteSet(DOMAIN O)  BY DEF OrderMap
<1>2. DOMAIN Put(O, id, o) = DOMAIN O \cup {id} /\ DOMAIN Drop(O, id) = DOMAIN O \ {id}
  BY DEF Put, Drop, Restrict
<1>3. Cardinality(DOMAIN O) \in Nat  BY <1>1, FS_CardinalityType, Zenon
<1>4. Cardinality(DOMAIN O \cup {id}) =
         IF id \in DOMAIN O THEN Cardinality(DOMAIN O) ELSE Cardinality(DOMAIN O) + 1
  BY <1>1, FS_AddElement, Zenon
<1>5. Cardinality(DOMAIN O \ {id}) =
         IF id \in DOMAIN O THEN Cardinality(DOMAIN O) - 1 ELSE Cardinality(DOMAIN O)
  BY <1>1, FS_RemoveElement, Zenon
<1> QED  BY <1>2, <1>3, <1>4, <1>5

(* A finite set of prices has its maximum.                                 *)
LEMMA FiniteMax ==
    ASSUME NEW T \in SUBSET Nat, IsFiniteSet(T), T # {}
    PROVE  Max(T) \in T
<1> DEFINE above(x) == {y \in T : y > x}
           counts == {Cardinality(above(x)) : x \in T}
<1>1. ASSUME NEW x \in T  PROVE IsFiniteSet(above(x)) /\ Cardinality(above(x)) \in Nat
  <2>1. above(x) \in SUBSET T  OBVIOUS
  <2>2. IsFiniteSet(above(x))  BY <2>1, FS_Subset, Zenon
  <2> QED  BY <2>2, FS_CardinalityType, Zenon
<1>2. counts \in SUBSET Nat  BY <1>1, Zenon
<1>3. counts # {}  BY Zenon
<1>4. Min(counts) \in counts /\ \A c \in counts : Min(counts) <= c
  BY <1>2, <1>3, LeastElement, Zenon
<1>5. PICK m \in T : \A x \in T : Cardinality(above(m)) <= Cardinality(above(x))
  BY <1>4, Zenon
<1>6. above(m) = {}
  <2> SUFFICES ASSUME NEW z \in above(m)  PROVE FALSE  BY Zenon
  <2>1. z \in T /\ z > m  OBVIOUS
  <2>7. m \in Nat /\ z \in Nat /\ \A y \in T : y \in Nat  BY <2>1
  <2>8. \A y \in T : y > z => y > m  BY <2>1, <2>7
  <2>9. ~(z > z)  BY <2>7
  <2>2. above(z) \in SUBSET above(m) /\ z \notin above(z)  BY <2>8, <2>9, Zenon
  <2>3. /\ Cardinality(above(z)) <= Cardinality(above(m))
        /\ Cardinality(above(m)) = Cardinality(above(z)) => above(m) = above(z)
    BY <1>1, <2>2, FS_Subset
  <2>4. Cardinality(above(m)) <= Cardinality(above(z))  BY <1>5, <2>1
  <2>5. Cardinality(above(m)) \in Nat /\ Cardinality(above(z)) \in Nat  BY <1>1, <2>1
  <2> HIDE DEF above
  <2>6. above(m) = above(z)  BY <2>3, <2>4, <2>5
  <2> QED  BY <2>2, <2>6
<1>7. \A y \in T : m >= y  BY <1>6
<1> QED  BY <1>5, <1>7, Zenon DEF Max

(* Prices, sums and best prices of the live orders in terms of Sums.       *)
LEMMA OrderLevels ==
    ASSUME NEW O, OrderMap(O), NEW side \in Sides
    PROVE  /\ [price \in Prices(O, side) |-> Level(O, side, price)] = LevelMap(Sums(O)[side])
           /\ Best(O, side) = BestLevel(Sums(O)[side], side)
           /\ IsFiniteSet(Quoted(Sums(O)[side]))
<1> DEFINE F == Sums(O)[side]
           ids == {i \in DOMAIN O : O[i].side = side}
           f == [id \in ids |-> O[id].price]
<1>1. Prices(O, side) = Quoted(F) /\ \A price \in Nat : F[price] = Level(O, side, price)
  BY PricesAreLevels DEF Quoted
<1>2. Quoted(F) \in SUBSET Nat  BY DEF Quoted
<1>3. IsFiniteSet(Quoted(F))
  <2>1. IsFiniteSet(ids)
    <3>1. ids \in SUBSET DOMAIN O  OBVIOUS
    <3> QED  BY <3>1, FS_Subset, Zenon DEF OrderMap
  <2>2. f \in Surjection(ids, Prices(O, side))  BY DEF Surjection, Prices
  <2> QED  BY <1>1, <2>1, <2>2, FS_Surjection, Zenon
<1> HIDE DEF F
<1>4. ASSUME Quoted(F) # {}  PROVE Max(Quoted(F)) \in Quoted(F) /\ Min(Quoted(F)) \in Quoted(F)
  BY <1>2, <1>3, <1>4, FiniteMax, LeastElement, Zenon
<1>5. Best(O, side) = BestLevel(F, side)
  <2>1. CASE Quoted(F) = {}  BY <1>1, <2>1 DEF Best, BestLevel
  <2>2. CASE Quoted(F) # {}
    <3> DEFINE price == IF side = "Bid" THEN Max(Quoted(F)) ELSE Min(Quoted(F))
    <3>1. price \in Nat  BY <1>2, <1>4, <2>2
    <3>2. Level(O, side, price) = F[price]  BY <1>1, <3>1
    <3> QED  BY <1>1, <2>2, <3>2 DEF Best, BestLevel
  <2> QED  BY <2>1, <2>2
<1>6. [price \in Prices(O, side) |-> Level(O, side, price)] = LevelMap(F)
  BY <1>1, <1>2 DEF LevelMap
<1> QED  BY <1>3, <1>5, <1>6 DEF F

(* n increasing numbers, and the set of the first k.                       *)
Increasing(f, n) == /\ \A i \in 1 .. n : f[i] \in Nat
                    /\ \A i, j \in 1 .. n : i < j => f[i] < f[j]

FirstFew(f, k) == {f[j] : j \in 1 .. k}

(* An increasing sequence has as many values as places.                    *)
LEMMA DistinctCount ==
    ASSUME NEW f, NEW n \in Nat, Increasing(f, n), NEW k \in 0 .. n
    PROVE  Cardinality(FirstFew(f, k)) = k
<1> DEFINE T == FirstFew(f, k)
           g == [j \in 1 .. k |-> f[j]]
<1>1. g \in [1 .. k -> T]  BY DEF FirstFew
<1>2. \A i, j \in 1 .. k : g[i] = g[j] => i = j
  <2> SUFFICES ASSUME NEW i \in 1 .. k, NEW j \in 1 .. k, f[i] = f[j]  PROVE i = j  OBVIOUS
  <2>1. ~(i < j) /\ ~(j < i)  BY DEF Increasing
  <2> QED  BY <2>1
<1>3. \A t \in T : \E j \in 1 .. k : g[j] = t  BY DEF FirstFew
<1> HIDE DEF T, g
<1>4. g \in Bijection(1 .. k, T)
  BY <1>1, <1>2, <1>3 DEF Bijection, Injection, Surjection, IsInjective
<1>5. ExistsBijection(1 .. k, T)  BY <1>4, Zenon DEF ExistsBijection
<1>6. k \in Nat  OBVIOUS
<1>7. IsFiniteSet(1 .. k) /\ Cardinality(1 .. k) = k  BY <1>6, Counting, Zenon
<1> QED  BY <1>5, <1>7, FS_Bijection, Zenon DEF T

(* The array of v2 is what the digest of the other versions lists.         *)
LEMMA ArrayAscends ==
    ASSUME NEW F \in [Nat -> Nat], NEW levels, SortedArray(levels, F)
    PROVE  levels = Ascending(LevelMap(F))
<1> DEFINE n == Len(levels)
           f == [i \in 1 .. n |-> levels[i][1]]
           D == Quoted(F)
           Below(price) == {p \in D : p < price}
           Nth(i) == CHOOSE price \in D : Cardinality(Below(price)) = i - 1
<1>1. n \in Nat /\ DOMAIN levels = 1 .. n  BY ArrayType
<1>2. \A i \in 1 .. n : f[i] \in Nat /\ levels[i][2] \in Nat \ {0}  BY ArrayType
<1>3. \A i, j \in 1 .. n : i < j => f[i] < f[j]  BY DEF SortedArray
<1>4. \A i \in 1 .. n : levels[i][2] = F[f[i]]  BY DEF SortedArray
<1>5. \A price \in Nat : F[price] # 0 => \E i \in 1 .. n : f[i] = price  BY Zenon DEF SortedArray
<1>6. ASSUME NEW i \in 1 .. n  PROVE levels[i] = <<f[i], F[f[i]]>>
  <2>1. levels[i] = <<levels[i][1], levels[i][2]>>  BY ArrayEntry, Zenon
  <2>2. f[i] = levels[i][1]  OBVIOUS
  <2> QED  BY <1>4, <2>1, <2>2, Zenon
<1>7. levels = [i \in 1 .. n |-> levels[i]]
  <2>1. levels \in Seq(LevelEntry)  BY DEF SortedArray
  <2>2. levels \in [1 .. n -> LevelEntry]  BY <2>1, SeqIs, Zenon
  <2> QED  BY <2>2
<1> HIDE DEF n, f
<1>8. D = FirstFew(f, n)
  <2>1. ASSUME NEW p \in D  PROVE p \in FirstFew(f, n)  BY <1>5 DEF Quoted, FirstFew
  <2>2. ASSUME NEW p \in FirstFew(f, n)  PROVE p \in D  BY <1>2, <1>4 DEF Quoted, FirstFew
  <2> QED  BY <2>1, <2>2, Zenon
<1>14. Increasing(f, n)  BY <1>2, <1>3 DEF Increasing
<1>9. Cardinality(D) = n
  <2>1. n \in 0 .. n  BY <1>1
  <2> QED  BY <1>1, <1>8, <1>14, <2>1, DistinctCount, Zenon
<1>10. ASSUME NEW i \in 1 .. n  PROVE Cardinality(Below(f[i])) = i - 1
  <2>1. ASSUME NEW j \in 1 .. n  PROVE f[j] < f[i] <=> j < i
    <3>1. j < i => f[j] < f[i]  BY <1>3
    <3>2. i < j => f[i] < f[j]  BY <1>3
    <3>3. f[i] \in Nat /\ f[j] \in Nat /\ i \in Nat /\ j \in Nat  BY <1>1, <1>2
    <3> QED  BY <3>1, <3>2, <3>3
  <2>2. Below(f[i]) = FirstFew(f, i - 1)
    <3>1. ASSUME NEW j \in 1 .. n, j < i  PROVE j \in 1 .. i - 1  BY <1>1, <3>1
    <3>2. ASSUME NEW j \in 1 .. i - 1  PROVE j \in 1 .. n /\ j < i  BY <1>1
    <3>3. \A p \in Below(f[i]) : p \in FirstFew(f, i - 1)  BY <1>8, <2>1, <3>1, Zenon DEF FirstFew
    <3>4. \A p \in FirstFew(f, i - 1) : p \in Below(f[i])  BY <1>8, <2>1, <3>2, Zenon DEF FirstFew
    <3> QED  BY <3>3, <3>4, Zenon
  <2>3. i - 1 \in 0 .. n  BY <1>1
  <2> HIDE DEF Below
  <2>4. Cardinality(FirstFew(f, i - 1)) = i - 1  BY <1>1, <1>14, <2>3, DistinctCount, Zenon
  <2> QED  BY <2>2, <2>4
<1> HIDE DEF D, Below
<1>11. ASSUME NEW i \in 1 .. n  PROVE Nth(i) = f[i]
  <2>1. f[i] \in D  BY <1>8 DEF FirstFew
  <2>2. Nth(i) \in D /\ Cardinality(Below(Nth(i))) = i - 1  BY <1>10, <2>1, Zenon
  <2>6. \A p \in D : \E j \in 1 .. n : p = f[j]  BY <1>8, Zenon DEF FirstFew
  <2> HIDE DEF Nth
  <2>3. PICK j \in 1 .. n : Nth(i) = f[j]  BY <2>2, <2>6
  <2>4. j - 1 = i - 1  BY <1>10, <2>2, <2>3
  <2>5. j = i  BY <1>1, <2>4
  <2> QED  BY <2>3, <2>5
<1>12. Ascending(LevelMap(F)) = [i \in 1 .. n |-> <<Nth(i), LevelMap(F)[Nth(i)]>>]
  BY <1>9 DEF Ascending, LevelMap, D, Below
<1> HIDE DEF Nth
<1>13. ASSUME NEW i \in 1 .. n  PROVE <<Nth(i), LevelMap(F)[Nth(i)]>> = levels[i]
  <2>1. f[i] \in Quoted(F)  BY <1>8 DEF D, FirstFew
  <2>2. LevelMap(F)[f[i]] = F[f[i]]  BY <2>1 DEF LevelMap
  <2> QED  BY <1>6, <1>11, <2>2
<1> QED  BY <1>7, <1>12, <1>13, Zenon
(* The array of v2 after a level operation.                                *)
LEMMA SameArray ==
    ASSUME NEW levels, NEW F, NEW G, SortedArray(levels, F), \A price \in Nat : G[price] = F[price]
    PROVE  SortedArray(levels, G)
<1>1. \A i \in 1 .. Len(levels) : levels[i][1] \in Nat  BY ArrayType, Zenon
<1> QED  BY <1>1, Zenon DEF SortedArray

(* The array of one side is replaced.                                      *)
LEMMA ArraySet ==
    ASSUME NEW S, NEW T, NEW b, ArrayLevels(b, S), NEW side \in Sides, NEW price, NEW t,
           SortedArray(t, T[side]), SameElsewhere(S, T, side, price)
    PROVE  LET c == [b EXCEPT !.levels[side] = t] IN ArrayLevels(c, T) /\ SameIndex(b, c)
<1> DEFINE c == [b EXCEPT !.levels[side] = t]
<1>1. "levels" \in DOMAIN b /\ b.levels \in [Sides -> Seq(LevelEntry)]  BY DEF ArrayLevels
<1>2. DOMAIN c = DOMAIN b /\ c.levels = [b.levels EXCEPT ![side] = t]  BY <1>1
<1>3. SameIndex(b, c)  BY <1>1 DEF SameIndex
<1> HIDE DEF c
<1>4. t \in Seq(LevelEntry)  BY DEF SortedArray
<1>5. c.levels \in [Sides -> Seq(LevelEntry)]  BY <1>1, <1>2, <1>4
<1>6. ASSUME NEW s \in Sides  PROVE SortedArray(c.levels[s], T[s])
  <2>1. CASE s = side
    <3>1. c.levels[s] = t  BY <1>1, <1>2, <2>1
    <3> QED  BY <2>1, <3>1
  <2>2. CASE s # side
    <3>1. c.levels[s] = b.levels[s]  BY <1>1, <1>2, <2>2
    <3>2. SortedArray(b.levels[s], S[s])  BY DEF ArrayLevels
    <3>3. \A p \in Nat : T[s][p] = S[s][p]  BY <2>2, Zenon DEF SameElsewhere
    <3> QED  BY <3>1, <3>2, <3>3, SameArray, Zenon
  <2> QED  BY <2>1, <2>2
<1>7. ArrayLevels(c, T)  BY <1>1, <1>2, <1>5, <1>6, Zenon DEF ArrayLevels
<1> QED  BY <1>3, <1>7 DEF c

(* The array of one side is sorted.                                        *)
LEMMA ArraySide ==
    ASSUME NEW S \in Quantities, NEW b, ArrayLevels(b, S), NEW side \in Sides
    PROVE  S[side] \in [Nat -> Nat] /\ SortedArray(b.levels[side], S[side])
<1>1. S[side] \in [Nat -> 0 .. MaxQuantity]  BY DEF Quantities
<1>2. 0 .. MaxQuantity \subseteq Nat  BY LargestQuantity
<1> QED  BY <1>1, <1>2 DEF ArrayLevels

(* add_to_level of v2 adds to its array, or throws before it changes it.   *)
LEMMA AddToArray ==
    ASSUME NEW S \in Quantities, NEW b, ArrayLevels(b, S), NEW o \in LiveOrder, NEW T,
           SameElsewhere(S, T, o.side, o.price),
           T[o.side][o.price] = S[o.side][o.price] + o.quantity
    PROVE  LET r == add_to_level_v2(b, o)
               fine == S[o.side][o.price] + o.quantity <= MaxQuantity
           IN  /\ fine => \E c : r = Return(c) /\ ArrayLevels(c, T) /\ SameIndex(b, c)
               /\ ~fine => r = Throw(b)
<1> DEFINE levels == b.levels[o.side]
           F == S[o.side]
           i == LowerBound(levels, o.price)
           q == F[o.price] + o.quantity
           fine == q <= MaxQuantity
           r == add_to_level_v2(b, o)
           t == InsertLevel(levels, i, <<o.price, o.quantity>>)
           u == [levels EXCEPT ![i][2] = q]
<1>1. o.side \in Sides /\ o.price \in Nat /\ o.quantity \in Nat \ {0}  BY DEF LiveOrder
<1>2. F[o.price] \in Nat  BY <1>1, ArraySide
<1>3. F \in [Nat -> Nat] /\ SortedArray(levels, F)  BY <1>1, ArraySide, Zenon
<1>4. HasLevel(levels, o.price) <=> F[o.price] # 0  BY <1>1, <1>3, BoundFinds, Zenon
<1>5. F[o.price] # 0 => i \in 1 .. Len(levels) /\ levels[i] = <<o.price, F[o.price]>>
  BY <1>1, <1>3, BoundFinds, Zenon
<1>6. SameElsewhere(S, T, o.side, o.price)  OBVIOUS
<1>7. ChangedTo(F, T[o.side], o.price, q)
  <2>1. T[o.side][o.price] = q  OBVIOUS
  <2>2. \A p \in Nat \ {o.price} : T[o.side][p] = F[p]  BY <1>1, <1>6 DEF SameElsewhere
  <2> QED  BY <2>1, <2>2 DEF ChangedTo
<1>8. "levels" \in DOMAIN b /\ o.side \in DOMAIN b.levels  BY <1>1 DEF ArrayLevels
<1>9. CASE F[o.price] = 0
  <2>1. r = Return([b EXCEPT !.levels[o.side] = t])  BY <1>4, <1>8, <1>9 DEF add_to_level_v2
  <2>2. q = o.quantity  BY <1>1, <1>9
  <2>3. fine  BY <2>2 DEF LiveOrder
  <2> HIDE DEF r, fine
  <2>4. SortedArray(t, T[o.side])
    <3>1. ChangedTo(F, T[o.side], o.price, o.quantity)  BY <1>7, <2>2, Zenon
    <3> HIDE DEF F, levels, q
    <3> QED  BY <1>1, <1>3, <1>9, <3>1, InsertSorted, Zenon
  <2> HIDE DEF t
  <2>5. ArrayLevels([b EXCEPT !.levels[o.side] = t], T) /\ SameIndex(b, [b EXCEPT !.levels[o.side] = t])
    BY <1>1, <1>6, <2>4, ArraySet, Zenon
  <2> QED  BY <2>1, <2>3, <2>5 DEF r, fine
<1>10. CASE F[o.price] # 0
  <2>1. levels[i][2] = F[o.price]  BY <1>5, <1>10
  <2>2. r = IF MaxQuantity - levels[i][2] < o.quantity THEN Throw(b)
            ELSE Return([b EXCEPT !.levels[o.side][i][2] = @ + o.quantity])
    BY <1>4, <1>10 DEF add_to_level_v2
  <2>3. MaxQuantity - levels[i][2] < o.quantity <=> ~fine  BY <1>1, <1>2, <2>1, LargestQuantity
  <2>4. [b EXCEPT !.levels[o.side][i][2] = @ + o.quantity] = [b EXCEPT !.levels[o.side] = u]
    BY <1>8, <2>1
  <2> HIDE DEF r, fine
  <2>5. (fine => r = Return([b EXCEPT !.levels[o.side] = u])) /\ (~fine => r = Throw(b))
    BY <2>2, <2>3, <2>4, Zenon
  <2>6. SortedArray(u, T[o.side])
    <3>1. q \in Nat \ {0}  BY <1>1, <1>2
    <3> HIDE DEF F, levels, q
    <3> QED  BY <1>1, <1>3, <1>7, <1>10, <3>1, UpdateSorted, Zenon
  <2> HIDE DEF u
  <2>7. ArrayLevels([b EXCEPT !.levels[o.side] = u], T) /\ SameIndex(b, [b EXCEPT !.levels[o.side] = u])
    BY <1>1, <1>6, <2>6, ArraySet, Zenon
  <2> QED  BY <2>5, <2>7 DEF r, fine
<1> QED  BY <1>9, <1>10

(* subtract_from_level of v2 erases a level that becomes empty.            *)
LEMMA SubtractFromArray ==
    ASSUME NEW S \in Quantities, NEW b, ArrayLevels(b, S), NEW o \in LiveOrder,
           o.quantity <= S[o.side][o.price], NEW T, SameElsewhere(S, T, o.side, o.price),
           T[o.side][o.price] = S[o.side][o.price] - o.quantity
    PROVE  \E c : /\ subtract_from_level_v2(b, o) = Return(c)
                  /\ ArrayLevels(c, T) /\ SameIndex(b, c)
<1> DEFINE levels == b.levels[o.side]
           F == S[o.side]
           i == LowerBound(levels, o.price)
           q == F[o.price] - o.quantity
           t == IF q = 0 THEN EraseLevel(levels, i) ELSE [levels EXCEPT ![i][2] = q]
<1>1. o.side \in Sides /\ o.price \in Nat /\ o.quantity \in Nat \ {0}  BY DEF LiveOrder
<1>2. F[o.price] \in Nat /\ F[o.price] # 0 /\ q \in Nat
  <2>1. F[o.price] \in Nat  BY <1>1, ArraySide
  <2> QED  BY <1>1, <2>1
<1>3. F \in [Nat -> Nat] /\ SortedArray(levels, F)  BY <1>1, ArraySide, Zenon
<1>4. HasLevel(levels, o.price)  BY <1>1, <1>2, <1>3, BoundFinds, Zenon
<1>5. i \in 1 .. Len(levels) /\ levels[i] = <<o.price, F[o.price]>>
  BY <1>1, <1>2, <1>3, BoundFinds, Zenon
<1>6. SameElsewhere(S, T, o.side, o.price)  OBVIOUS
<1>7. ChangedTo(F, T[o.side], o.price, q)
  <2>1. T[o.side][o.price] = q  OBVIOUS
  <2>2. \A p \in Nat \ {o.price} : T[o.side][p] = F[p]  BY <1>1, <1>6 DEF SameElsewhere
  <2> QED  BY <2>1, <2>2 DEF ChangedTo
<1>8. "levels" \in DOMAIN b /\ o.side \in DOMAIN b.levels  BY <1>1 DEF ArrayLevels
<1>9. levels[i][2] = F[o.price]  BY <1>5
<1>10. subtract_from_level_v2(b, o) = Return([b EXCEPT !.levels[o.side] = t])
  <2>1. ~(~HasLevel(levels, o.price) \/ o.quantity = 0 \/ o.quantity > levels[i][2])
    BY <1>1, <1>2, <1>4, <1>9
  <2>2. levels[i][2] = o.quantity <=> q = 0  BY <1>1, <1>2, <1>9
  <2>3. t = IF levels[i][2] = o.quantity THEN EraseLevel(levels, i)
            ELSE [levels EXCEPT ![i][2] = levels[i][2] - o.quantity]
    BY <1>9, <2>2
  <2>4. subtract_from_level_v2(b, o) =
           Return([b EXCEPT !.levels[o.side] =
                     IF levels[i][2] = o.quantity THEN EraseLevel(levels, i)
                     ELSE [levels EXCEPT ![i][2] = levels[i][2] - o.quantity]])
    BY <2>1, Zenon DEF subtract_from_level_v2
  <2> HIDE DEF t
  <2> QED  BY <2>3, <2>4, Zenon
<1>11. SortedArray(t, T[o.side])
  <2> HIDE DEF F, levels, q
  <2>1. CASE q = 0
    <3>1. ChangedTo(F, T[o.side], o.price, 0)  BY <1>7, <2>1, Zenon
    <3>2. SortedArray(EraseLevel(levels, i), T[o.side])  BY <1>1, <1>2, <1>3, <3>1, EraseSorted, Zenon
    <3> QED  BY <2>1, <3>2
  <2>2. CASE q # 0
    <3>1. q \in Nat \ {0}  BY <1>2, <2>2
    <3>2. SortedArray([levels EXCEPT ![i][2] = q], T[o.side])
      BY <1>1, <1>2, <1>3, <1>7, <3>1, UpdateSorted, Zenon
    <3> QED  BY <2>2, <3>2
  <2> QED  BY <2>1, <2>2
<1> HIDE DEF t
<1>12. ArrayLevels([b EXCEPT !.levels[o.side] = t], T) /\ SameIndex(b, [b EXCEPT !.levels[o.side] = t])
  BY <1>1, <1>6, <1>11, ArraySet, Zenon
<1> QED  BY <1>10, <1>12

-----------------------------------------------------------------------------
(* An upper bound in the set is its maximum ...                            *)
LEMMA LargestIs ==
    ASSUME NEW T \in SUBSET Nat, NEW x \in T, \A y \in T : y <= x
    PROVE  Max(T) = x
<1>1. \A y \in T : (\A z \in T : z <= y) => y = x  OBVIOUS
<1> QED  BY <1>1, Zenon DEF Max

(* ... and a lower bound its minimum.                                      *)
LEMMA LeastIs ==
    ASSUME NEW T \in SUBSET Nat, NEW x \in T, \A y \in T : x <= y
    PROVE  Min(T) = x
<1>1. \A y \in T : (\A z \in T : y <= z) => y = x  OBVIOUS
<1> QED  BY <1>1, Zenon DEF Min

(* The best level is at an end of the sorted array.                        *)
LEMMA ArrayBest ==
    ASSUME NEW S \in Quantities, NEW b, ArrayLevels(b, S), NEW side \in Sides
    PROVE  best_v2(b, side) = BestLevel(S[side], side)
<1> DEFINE levels == b.levels[side]
           F == S[side]
           n == Len(levels)
<1>1. F \in [Nat -> Nat] /\ SortedArray(levels, F)  BY ArraySide, Zenon
<1>2. best_v2(b, side) = IF levels = << >> THEN NoLevel
                         ELSE IF side = "Bid" THEN levels[n] ELSE levels[1]
  <2>1. levels \in Seq(LevelEntry)  BY DEF ArrayLevels
  <2>2. levels # << >> => Head(levels) = levels[1]  BY <2>1
  <2> QED  BY <2>2 DEF best_v2
<1>3. levels = << >> <=> n = 0
  <2>1. levels \in Seq(LevelEntry)  BY DEF ArrayLevels
  <2> QED  BY <2>1
<1> HIDE DEF levels, F
<1>4. n \in Nat  BY <1>1, ArrayType, Zenon
<1>5. \A j \in 1 .. n : levels[j][1] \in Nat /\ levels[j][2] \in Nat \ {0}  BY <1>1, ArrayType, Zenon
<1>6. \A j, k \in 1 .. n : j < k => levels[j][1] < levels[k][1]  BY <1>1 DEF SortedArray
<1>7. \A j \in 1 .. n : levels[j][2] = F[levels[j][1]]  BY <1>1, Zenon DEF SortedArray
<1>8. \A p \in Quoted(F) : \E j \in 1 .. n : levels[j][1] = p  BY <1>1, Zenon DEF SortedArray, Quoted
<1>9. \A j \in 1 .. n : levels[j] = <<levels[j][1], levels[j][2]>>  BY <1>1, ArrayEntry, Zenon
<1> HIDE DEF n
<1>10. \A j \in 1 .. n : levels[j][1] \in Quoted(F)  BY <1>5, <1>7 DEF Quoted
<1>11. Quoted(F) \in SUBSET Nat  BY DEF Quoted
<1>12. CASE n = 0
  <2>1. Quoted(F) = {}  BY <1>8, <1>12
  <2> QED  BY <1>2, <1>3, <1>12, <2>1 DEF BestLevel, F
<1>13. CASE n # 0
  <2>1. 1 \in 1 .. n /\ n \in 1 .. n  BY <1>4, <1>13
  <2>2. \A p \in Quoted(F) : p <= levels[n][1] /\ levels[1][1] <= p
    <3> SUFFICES ASSUME NEW p \in Quoted(F)  PROVE p <= levels[n][1] /\ levels[1][1] <= p  OBVIOUS
    <3>1. PICK j \in 1 .. n : levels[j][1] = p  BY <1>8
    <3>2. j = n \/ j < n  BY <1>4
    <3>3. j = 1 \/ 1 < j  BY <1>4
    <3>4. levels[j][1] \in Nat /\ levels[1][1] \in Nat /\ levels[n][1] \in Nat  BY <1>5, <2>1
    <3>5. levels[j][1] <= levels[n][1]  BY <1>6, <2>1, <3>2, <3>4
    <3>6. levels[1][1] <= levels[j][1]  BY <1>6, <2>1, <3>3, <3>4
    <3> QED  BY <3>1, <3>5, <3>6
  <2>3. Max(Quoted(F)) = levels[n][1]  BY <1>10, <1>11, <2>1, <2>2, LargestIs, Zenon
  <2>4. Min(Quoted(F)) = levels[1][1]  BY <1>10, <1>11, <2>1, <2>2, LeastIs, Zenon
  <2>5. Quoted(F) # {}  BY <1>10, <2>1
  <2>6. levels[n] = <<levels[n][1], F[levels[n][1]]>> /\ levels[1] = <<levels[1][1], F[levels[1][1]]>>
    BY <1>7, <1>9, <2>1, Zenon
  <2> QED  BY <1>2, <1>3, <1>13, <2>3, <2>4, <2>5, <2>6 DEF BestLevel, F
<1> QED  BY <1>12, <1>13

(* A book whose tombstone index holds the entries of M in n slots.         *)
TableIndex(b, M, n) == /\ {"slots", "live"} \subseteq DOMAIN b
                       /\ Table(b.slots, M, n)
                       /\ b.live = Cardinality(DOMAIN M)

SlotOf(slots, id) == CHOOSE i \in find_slot(slots, id) : TRUE
FreeSlot(slots, id) == CHOOSE i \in insertion_slot(slots, id) : TRUE

(* An entry takes a slot, and the order of a slot changes.                 *)
Filled(c, i, s) == [c EXCEPT !.slots[i] = s, !.live = @ + 1]
Restored(c, i, x) == [c EXCEPT !.slots[i].order = x]
Rest(c, i, quantity) == [c EXCEPT !.slots[i].order.quantity = @ - quantity]
Lessened(x, quantity) == [x EXCEPT !.quantity = @ - quantity]

(* find_slot of v2 to v4 finds the order of a live id and of no other.     *)
LEMMA TableHolds ==
    ASSUME NEW b, NEW M, NEW n, TableIndex(b, M, n), NEW id \in DOMAIN Hash
    PROVE  /\ find_slot(b.slots, id) = {} <=> id \notin DOMAIN M
           /\ id \in DOMAIN M => /\ SlotOf(b.slots, id) \in 0 .. n - 1
                                 /\ b.slots[SlotOf(b.slots, id)] = Occupied(id, M[id])
                                 /\ b.slots[SlotOf(b.slots, id)].order = M[id]
<1>1. Table(b.slots, M, n)  BY DEF TableIndex
<1>2. id \notin DOMAIN M => find_slot(b.slots, id) = {}  BY <1>1, FindSlot, Zenon
<1>3. ASSUME id \in DOMAIN M
      PROVE  /\ find_slot(b.slots, id) # {} /\ SlotOf(b.slots, id) \in 0 .. n - 1
             /\ b.slots[SlotOf(b.slots, id)] = Occupied(id, M[id])
             /\ b.slots[SlotOf(b.slots, id)].order = M[id]
  <2>1. PICK i \in 0 .. n - 1 :
           find_slot(b.slots, id) = {i} /\ b.slots[i] = Occupied(id, M[id])
    BY <1>1, <1>3, FindSlot, Zenon
  <2>2. SlotOf(b.slots, id) = i  BY <2>1, Zenon DEF SlotOf
  <2>3. Occupied(id, M[id]).order = M[id]  BY DEF Occupied
  <2> QED  BY <2>1, <2>2, <2>3, Zenon
<1> QED  BY <1>2, <1>3, Zenon

(* insertion_slot finds a slot unless the id is live or the table is full  *)
(* of live orders.                                                         *)
LEMMA TableFree ==
    ASSUME NEW b, NEW M, NEW n, TableIndex(b, M, n), NEW id \in DOMAIN Hash
    PROVE  insertion_slot(b.slots, id) = {} <=>
              id \in DOMAIN M \/ ~(Cardinality(DOMAIN M) + 1 <= n)
<1>1. Table(b.slots, M, n)  BY DEF TableIndex
<1>2. n \in Nat  BY <1>1 DEF Table
<1>3. Cardinality(DOMAIN M) \in 0 .. n  BY <1>1, TableCount, Zenon
<1>4. ~(Cardinality(DOMAIN M) + 1 <= n) <=> Cardinality(DOMAIN M) = n  BY <1>2, <1>3
<1>5. id \in DOMAIN M => insertion_slot(b.slots, id) = {}  BY <1>1, InsertionSlot, Zenon
<1>6. Cardinality(DOMAIN M) = n => insertion_slot(b.slots, id) = {}
  BY <1>1, InsertionSlot, Zenon
<1>7. ASSUME id \notin DOMAIN M, Cardinality(DOMAIN M) # n
      PROVE  insertion_slot(b.slots, id) # {}
  <2>1. PICK step \in Visited(b.slots, id) :
           insertion_slot(b.slots, id) = {Probe(b.slots, id, step)}
    BY <1>1, <1>7, InsertionSlot, Zenon
  <2> QED  BY <2>1, Zenon
<1> QED  BY <1>4, <1>5, <1>6, <1>7, Zenon

(* What the index operations of v2, v3 and v4 make of a book c that a      *)
(* level operation left of the book b.                                     *)
LEMMA TableEnter ==
    ASSUME NEW b, NEW M, NEW n, TableIndex(b, M, n), NEW id \in DOMAIN Hash,
           insertion_slot(b.slots, id) # {}, NEW x, NEW c, SameIndex(b, c)
    PROVE  LET d == Filled(c, FreeSlot(b.slots, id), Occupied(id, x))
           IN  TableIndex(d, Put(M, id, x), n) /\ SameLevels(c, d)
<1> DEFINE d == Filled(c, FreeSlot(b.slots, id), Occupied(id, x))
           t == [b.slots EXCEPT ![FreeSlot(b.slots, id)] = Occupied(id, x)]
<1>1. Table(b.slots, M, n) /\ {"slots", "live"} \subseteq DOMAIN b
      /\ b.live = Cardinality(DOMAIN M)
  BY DEF TableIndex
<1>2. DOMAIN c = DOMAIN b /\ c.slots = b.slots /\ c.live = b.live
  BY <1>1 DEF SameIndex
<1>3. id \notin DOMAIN M /\ Cardinality(DOMAIN M) # n
  BY <1>1, InsertionSlot, Zenon
<1>4. PICK step \in Visited(b.slots, id) :
         /\ insertion_slot(b.slots, id) = {Probe(b.slots, id, step)}
         /\ b.slots[Probe(b.slots, id, step)].state # "Occupied"
  BY <1>1, <1>3, InsertionSlot, Zenon
<1>5. FreeSlot(b.slots, id) = Probe(b.slots, id, step)  BY <1>4, Zenon DEF FreeSlot
<1>6. Table(t, Put(M, id, x), n)  BY <1>1, <1>3, <1>4, <1>5, OccupySlot, Zenon
<1>7. DOMAIN d = DOMAIN c /\ d.slots = t /\ d.live = b.live + 1
  BY <1>1, <1>2 DEF Filled
<1>8. SameLevels(c, d)  BY Zenon DEF SameLevels, Filled
<1>9. Cardinality(DOMAIN Put(M, id, x)) = Cardinality(DOMAIN M) + 1
  <2>1. DOMAIN Put(M, id, x) = DOMAIN M \cup {id}  BY DEF Put
  <2>2. IsFiniteSet(DOMAIN M)  BY <1>1 DEF Table
  <2> QED  BY <1>3, <2>1, <2>2, FS_AddElement
<1> HIDE DEF d, t
<1>10. TableIndex(d, Put(M, id, x), n)  BY <1>1, <1>2, <1>6, <1>7, <1>9, Zenon DEF TableIndex
<1> QED  BY <1>8, <1>10, Zenon DEF d

(* The order of an id is buried.                                           *)
LEMMA TableLeave ==
    ASSUME NEW b, NEW M, NEW n, TableIndex(b, M, n), NEW id \in DOMAIN Hash, id \in DOMAIN M,
           NEW c, SameIndex(b, c)
    PROVE  LET d == Bury(c, SlotOf(b.slots, id))
           IN  TableIndex(d, Drop(M, id), n) /\ SameLevels(c, d)
<1> DEFINE d == Bury(c, SlotOf(b.slots, id))
           t == [b.slots EXCEPT ![SlotOf(b.slots, id)] = Tombstone]
<1>1. Table(b.slots, M, n) /\ {"slots", "live"} \subseteq DOMAIN b
      /\ b.live = Cardinality(DOMAIN M)
  BY DEF TableIndex
<1>2. DOMAIN c = DOMAIN b /\ c.slots = b.slots /\ c.live = b.live
  BY <1>1 DEF SameIndex
<1>3. SlotOf(b.slots, id) \in 0 .. n - 1 /\ b.slots[SlotOf(b.slots, id)] = Occupied(id, M[id])
  BY TableHolds, Zenon
<1>4. Table(t, Drop(M, id), n)  BY <1>1, <1>3, BurySlot, Zenon
<1>5. DOMAIN d = DOMAIN c /\ d.slots = t /\ d.live = b.live - 1
  BY <1>1, <1>2 DEF Bury
<1>6. SameLevels(c, d)  BY Zenon DEF SameLevels, Bury
<1>7. Cardinality(DOMAIN Drop(M, id)) = Cardinality(DOMAIN M) - 1
  <2>1. DOMAIN Drop(M, id) = DOMAIN M \ {id}  BY DEF Drop, Restrict
  <2>2. IsFiniteSet(DOMAIN M)  BY <1>1 DEF Table
  <2> QED  BY <2>1, <2>2, FS_RemoveElement
<1> HIDE DEF d, t
<1>8. TableIndex(d, Drop(M, id), n)  BY <1>1, <1>2, <1>4, <1>5, <1>7, Zenon DEF TableIndex
<1> QED  BY <1>6, <1>8, Zenon DEF d

(* Another order is stored for an id.                                      *)
LEMMA TableStore ==
    ASSUME NEW b, NEW M, NEW n, TableIndex(b, M, n), NEW id \in DOMAIN Hash, id \in DOMAIN M,
           NEW x, NEW c, SameIndex(b, c)
    PROVE  LET d == Restored(c, SlotOf(b.slots, id), x)
           IN  TableIndex(d, Put(M, id, x), n) /\ SameLevels(c, d)
<1> DEFINE i == SlotOf(b.slots, id)
           d == Restored(c, i, x)
           t == [b.slots EXCEPT ![i] = Occupied(id, x)]
<1>1. Table(b.slots, M, n) /\ {"slots", "live"} \subseteq DOMAIN b
      /\ b.live = Cardinality(DOMAIN M)
  BY DEF TableIndex
<1>2. DOMAIN c = DOMAIN b /\ c.slots = b.slots /\ c.live = b.live
  BY <1>1 DEF SameIndex
<1>3. i \in 0 .. n - 1 /\ b.slots[i] = Occupied(id, M[id])
  BY TableHolds, Zenon
<1>4. Table(t, Put(M, id, x), n)  BY <1>1, <1>3, UpdateSlot, Zenon
<1>5. [Occupied(id, M[id]) EXCEPT !.order = x] = Occupied(id, x)  BY DEF Occupied
<1> HIDE DEF i
<1>6. [b.slots EXCEPT ![i].order = x] = t
  BY <1>3, <1>5
<1>7. DOMAIN d = DOMAIN c /\ d.slots = [c.slots EXCEPT ![i].order = x] /\ d.live = c.live
  BY <1>1, <1>2 DEF Restored
<1>8. SameLevels(c, d)  BY DEF SameLevels, Restored
<1>9. DOMAIN Put(M, id, x) = DOMAIN M  BY DEF Put
<1> HIDE DEF d, t
<1>10. TableIndex(d, Put(M, id, x), n)
  BY <1>1, <1>2, <1>4, <1>6, <1>7, <1>9, Zenon DEF TableIndex
<1> QED  BY <1>8, <1>10, Zenon DEF d, i

(* A reduction stores what is left of the order.                           *)
LEMMA TableReduce ==
    ASSUME NEW b, NEW M, NEW n, TableIndex(b, M, n), NEW id \in DOMAIN Hash, id \in DOMAIN M,
           NEW quantity, NEW c, SameIndex(b, c)
    PROVE  Rest(c, SlotOf(b.slots, id), quantity) =
           Restored(c, SlotOf(b.slots, id), Lessened(M[id], quantity))
<1> DEFINE i == SlotOf(b.slots, id)
<1>1. "slots" \in DOMAIN b  BY DEF TableIndex
<1>2. c.slots = b.slots  BY <1>1 DEF SameIndex
<1>3. c.slots[i].order = M[id]  BY <1>2, TableHolds, Zenon
<1> HIDE DEF i
<1>4. [c EXCEPT !.slots[i].order.quantity = @ - quantity] =
      [c EXCEPT !.slots[i].order = [M[id] EXCEPT !.quantity = M[id].quantity - quantity]]
  BY <1>3
<1> QED  BY <1>4 DEF i, Restored, Lessened, Rest

-----------------------------------------------------------------------------
Tables == {"v2", "v3", "v4"}
Fixed == {"v5", "v6"}

(* The form in which a version keeps an order.                             *)
Stored(v, o) == IF v \in {"v4", "v6"} THEN make(o) ELSE o

StoredMap(v, O) == [id \in DOMAIN O |-> Stored(v, O[id])]

(* A version has room for the orders O.                                    *)
RoomFor(v, m, O) == /\ v \in Tables => Cardinality(DOMAIN O) <= table_capacity(m)
                    /\ v \in Fixed => Cardinality(DOMAIN O) <= m

(* The index of a version holds the orders O.                              *)
MapIndex(b, O) == "orders" \in DOMAIN b /\ b.orders = O

FixedIndex(b, M, m) == /\ {"live", "maximum"} \subseteq DOMAIN b
                       /\ MapIndex(b, M)
                       /\ b.maximum = m /\ b.live = Cardinality(DOMAIN M)

IndexOf(v, m, b, O) ==
    IF v = "v1" THEN MapIndex(b, O)
    ELSE IF v \in Tables THEN TableIndex(b, StoredMap(v, O), table_capacity(m))
    ELSE FixedIndex(b, StoredMap(v, O), m)

(* What an operation finds in the index of b, and what it makes of the     *)
(* index of the book c that a level operation left of b.                   *)
Known(v, b, id) == IF v \in Tables THEN find_slot(b.slots, id) # {} ELSE id \in DOMAIN b.orders

Kept(v, b, id) == IF v \in Tables THEN b.slots[SlotOf(b.slots, id)].order ELSE b.orders[id]

Held(v, b, id) == IF v \in {"v4", "v6"} THEN Unpack(Kept(v, b, id)) ELSE Kept(v, b, id)

Enter(v, b, c, id, x) ==
    IF v \in Tables
    THEN Filled(c, FreeSlot(b.slots, id), Occupied(id, x))
    ELSE [c EXCEPT !.orders = Put(@, id, x)]

Leave(v, b, c, id) == IF v = "v1" THEN [c EXCEPT !.orders = Drop(@, id)]
                      ELSE IF v \in Tables THEN Bury(c, SlotOf(b.slots, id))
                      ELSE Erase(c, id)

Store(v, b, c, id, x) == IF v \in Tables THEN Restored(c, SlotOf(b.slots, id), x)
                         ELSE [c EXCEPT !.orders[id] = x]

Reduce(v, b, c, id, quantity) ==
    IF v \in Tables
    THEN Rest(c, SlotOf(b.slots, id), quantity)
    ELSE [c EXCEPT !.orders[id].quantity = @ - quantity]

-----------------------------------------------------------------------------
(* A packed order in the ladder unpacks to the order it was made of.       *)
LEMMA PackRoundTrip ==
    ASSUME NEW o \in LiveOrder, InLadder(o.price)
    PROVE  Unpack(make(o)) = o
<1> DEFINE x == o.price - MinimumPrice
           p == make(o)
<1>1. o = [side |-> o.side, price |-> o.price, quantity |-> o.quantity]  BY DEF LiveOrder
<1>2. o.side \in Sides /\ o.price \in Nat  BY DEF LiveOrder
<1>3. x \in Nat /\ x < PriceCount /\ MinimumPrice + x = o.price  BY <1>2, L3Assumption DEF InLadder
<1>4. AskBit \in Nat \ {0} /\ x < AskBit  BY <1>3, L3Assumption
<1>5. p.side_and_offset = x + (IF o.side = "Ask" THEN AskBit ELSE 0) /\ p.quantity = o.quantity
  BY DEF make
<1>9. x \in Nat /\ x < AskBit /\ AskBit \in Nat \ {0}  BY <1>3, <1>4
<1>8. 0 \in Nat /\ 1 \in Nat  OBVIOUS
<1> HIDE DEF p, x
<1>6. side_of(p) = o.side /\ offset_of(p) = x
  <2>1. CASE o.side = "Ask"
    <3>4. (1 * AskBit + x) % AskBit = x  BY <1>9, <1>8, OneRest, Zenon
    <3>1. p.side_and_offset = 1 * AskBit + x  BY <1>3, <1>4, <1>5, <2>1
    <3>2. p.side_and_offset % AskBit = x  BY <3>1, <3>4
    <3>3. p.side_and_offset >= AskBit  BY <1>3, <1>4, <3>1
    <3> QED  BY <2>1, <3>2, <3>3 DEF side_of, offset_of
  <2>2. CASE o.side = "Bid"
    <3>4. (0 * AskBit + x) % AskBit = x  BY <1>9, <1>8, OneRest, Zenon
    <3>1. p.side_and_offset = 0 * AskBit + x  BY <1>3, <1>4, <1>5, <2>2
    <3>2. p.side_and_offset % AskBit = x  BY <3>1, <3>4
    <3>3. ~(p.side_and_offset >= AskBit)  BY <1>3, <1>4, <3>1
    <3> QED  BY <2>2, <3>2, <3>3 DEF side_of, offset_of
  <2> QED  BY <1>2, <2>1, <2>2 DEF Sides
<1>7. Unpack(p) = [side |-> o.side, price |-> o.price, quantity |-> o.quantity]
  BY <1>3, <1>5, <1>6 DEF Unpack, x
<1> QED  BY <1>1, <1>7 DEF p

(* The orders in the form in which a version stores them: ids, ...         *)
LEMMA StoredMaps ==
    ASSUME NEW v, NEW O
    PROVE  /\ DOMAIN StoredMap(v, O) = DOMAIN O
           /\ \A id \in DOMAIN O : StoredMap(v, O)[id] = Stored(v, O[id])
BY DEF StoredMap

(* ... entering, ...                                                       *)
LEMMA StoredPut ==
    ASSUME NEW v, NEW O, NEW id, NEW o
    PROVE  StoredMap(v, Put(O, id, o)) = Put(StoredMap(v, O), id, Stored(v, o))
BY DEF StoredMap, Put

(* ... erasing ...                                                         *)
LEMMA StoredDrop ==
    ASSUME NEW v, NEW O, NEW id
    PROVE  StoredMap(v, Drop(O, id)) = Drop(StoredMap(v, O), id)
BY DEF StoredMap, Drop, Restrict

(* ... and reducing.                                                       *)
LEMMA StoredQuantity ==
    ASSUME NEW v, NEW o \in LiveOrder, NEW quantity
    PROVE  /\ Stored(v, o).quantity = o.quantity
           /\ Lessened(Stored(v, o), quantity) = Stored(v, Lessened(o, quantity))
BY DEF Stored, make, LiveOrder, Lessened

(* How many entries a map has after one came or went.                      *)
LEMMA MapCount ==
    ASSUME NEW M, IsFiniteSet(DOMAIN M), NEW id, NEW x
    PROVE  /\ id \notin DOMAIN M => Cardinality(DOMAIN Put(M, id, x)) = Cardinality(DOMAIN M) + 1
           /\ id \in DOMAIN M => /\ DOMAIN Put(M, id, x) = DOMAIN M
                                 /\ Cardinality(DOMAIN Drop(M, id)) = Cardinality(DOMAIN M) - 1
<1>1. DOMAIN Put(M, id, x) = DOMAIN M \cup {id} /\ DOMAIN Drop(M, id) = DOMAIN M \ {id}
  BY DEF Put, Drop, Restrict
<1>2. id \notin DOMAIN M => Cardinality(DOMAIN M \cup {id}) = Cardinality(DOMAIN M) + 1
  BY FS_AddElement
<1>3. id \in DOMAIN M => Cardinality(DOMAIN M \ {id}) = Cardinality(DOMAIN M) - 1
  BY FS_RemoveElement
<1> QED  BY <1>1, <1>2, <1>3

-----------------------------------------------------------------------------
(* The three kinds of index find the order of an id ...                    *)
LEMMA IndexHolds ==
    ASSUME NEW v, NEW m, NEW b, NEW O, OrderMap(O), IndexOf(v, m, b, O), NEW id \in DOMAIN Hash
    PROVE  /\ Known(v, b, id) <=> id \in DOMAIN O
           /\ id \in DOMAIN O => Kept(v, b, id) = Stored(v, O[id])
<1> DEFINE M == StoredMap(v, O)
<1>1. DOMAIN M = DOMAIN O /\ \A k \in DOMAIN O : M[k] = Stored(v, O[k])  BY StoredMaps, Zenon
<1> HIDE DEF M
<1>2. CASE v = "v1"
  BY <1>2, Zenon DEF IndexOf, MapIndex, Known, Kept, Tables, Stored
<1>3. CASE v # "v1" /\ v \in Tables
  <2>1. TableIndex(b, M, table_capacity(m))  BY <1>3, Zenon DEF IndexOf, M
  <2> QED  BY <1>1, <1>3, <2>1, TableHolds, Zenon DEF Known, Kept
<1>4. CASE v # "v1" /\ v \notin Tables
  <2>1. b.orders = M  BY <1>4, Zenon DEF IndexOf, FixedIndex, MapIndex, M
  <2> QED  BY <1>1, <1>4, <2>1, Zenon DEF Known, Kept
<1> QED  BY <1>2, <1>3, <1>4, Zenon

(* ... and with it, unpacked if need be, the order that came in.           *)
LEMMA HeldOrder ==
    ASSUME NEW v, NEW m, NEW b, NEW O, OrderMap(O), IndexOf(v, m, b, O), NEW id \in DOMAIN O,
           v \in {"v4", "v6"} => InLadder(O[id].price)
    PROVE  Held(v, b, id) = O[id] /\ Kept(v, b, id).quantity = O[id].quantity
<1>1. O[id] \in LiveOrder /\ id \in DOMAIN Hash  BY DEF OrderMap
<1>2. Kept(v, b, id) = Stored(v, O[id])  BY <1>1, IndexHolds, Zenon
<1>3. v \in {"v4", "v6"} => Unpack(make(O[id])) = O[id]  BY <1>1, PackRoundTrip, Zenon
<1>4. Stored(v, O[id]).quantity = O[id].quantity  BY <1>1, StoredQuantity, Zenon
<1> QED  BY <1>2, <1>3, <1>4, Zenon DEF Held, Stored

-----------------------------------------------------------------------------
(* A level operation leaves the map of v1 ...                              *)
LEMMA MapSame ==
    ASSUME NEW b, NEW M, MapIndex(b, M), NEW c, SameIndex(b, c)
    PROVE  MapIndex(c, M)
BY DEF MapIndex, SameIndex

(* ... and the index of v5 and v6.                                         *)
LEMMA FixedSame ==
    ASSUME NEW b, NEW M, NEW m, FixedIndex(b, M, m), NEW c, SameIndex(b, c)
    PROVE  FixedIndex(c, M, m)
BY DEF FixedIndex, MapIndex, SameIndex

(* The three kinds of index lose an order that leaves, ...                 *)
LEMMA IndexLeaves ==
    ASSUME NEW v, NEW m, NEW b, NEW O, OrderMap(O), IndexOf(v, m, b, O),
           NEW id \in DOMAIN O, NEW c, SameIndex(b, c)
    PROVE  /\ IndexOf(v, m, Leave(v, b, c, id), Drop(O, id))
           /\ SameLevels(c, Leave(v, b, c, id))
<1> DEFINE M == StoredMap(v, O)
           d == Leave(v, b, c, id)
<1>1. id \in DOMAIN M /\ id \in DOMAIN Hash /\ IsFiniteSet(DOMAIN M)
  BY StoredMaps, Zenon DEF OrderMap
<1>2. StoredMap(v, Drop(O, id)) = Drop(M, id)  BY StoredDrop
<1> HIDE DEF M
<1>3. CASE v = "v1"
  <2>1. MapIndex(c, O)  BY <1>3, MapSame, Zenon DEF IndexOf
  <2>2. d = [c EXCEPT !.orders = Drop(c.orders, id)]  BY <1>3, Zenon DEF Leave
  <2> HIDE DEF d
  <2>3. MapIndex(d, Drop(O, id)) /\ SameLevels(c, d)
    BY <2>1, <2>2 DEF MapIndex, SameLevels
  <2> QED  BY <1>3, <2>3, Zenon DEF IndexOf, d
<1>4. CASE v # "v1" /\ v \in Tables
  <2>1. TableIndex(b, M, table_capacity(m))  BY <1>4, Zenon DEF IndexOf, M
  <2>2. d = Bury(c, SlotOf(b.slots, id))  BY <1>4, Zenon DEF Leave
  <2>3. TableIndex(d, Drop(M, id), table_capacity(m)) /\ SameLevels(c, d)
    BY <1>1, <2>1, <2>2, TableLeave, Zenon
  <2> HIDE DEF d
  <2> QED  BY <1>2, <1>4, <2>3, Zenon DEF IndexOf, d
<1>5. CASE v # "v1" /\ v \notin Tables
  <2>1. FixedIndex(c, M, m)  BY <1>5, FixedSame, Zenon DEF IndexOf, M
  <2>2. d = Erase(c, id)  BY <1>5, Zenon DEF Leave
  <2> HIDE DEF d
  <2>3. Cardinality(DOMAIN Drop(M, id)) = Cardinality(DOMAIN M) - 1  BY <1>1, MapCount, Zenon
  <2>4. FixedIndex(d, Drop(M, id), m)
    BY <2>1, <2>2, <2>3 DEF FixedIndex, MapIndex, Erase
  <2>5. SameLevels(c, d)  BY <2>2, Zenon DEF SameLevels, Erase
  <2> QED  BY <1>2, <1>5, <2>4, <2>5, Zenon DEF IndexOf, d
<1> QED  BY <1>3, <1>4, <1>5, Zenon

(* ... keep what is stored for an id, ...                                  *)
LEMMA IndexStores ==
    ASSUME NEW v, NEW m, NEW b, NEW O, OrderMap(O), IndexOf(v, m, b, O),
           NEW id \in DOMAIN O, NEW o, NEW c, SameIndex(b, c)
    PROVE  /\ IndexOf(v, m, Store(v, b, c, id, Stored(v, o)), Put(O, id, o))
           /\ SameLevels(c, Store(v, b, c, id, Stored(v, o)))
<1> DEFINE M == StoredMap(v, O)
           x == Stored(v, o)
           d == Store(v, b, c, id, x)
<1>1. id \in DOMAIN M /\ id \in DOMAIN Hash /\ IsFiniteSet(DOMAIN M)
  BY StoredMaps, Zenon DEF OrderMap
<1>2. StoredMap(v, Put(O, id, o)) = Put(M, id, x)  BY StoredPut
<1>3. Put(M, id, x) = [M EXCEPT ![id] = x]  BY <1>1, Zenon DEF Put, StoredMap
<1>4. v = "v1" => x = o  BY Zenon DEF Stored
<1> HIDE DEF M, x
<1>5. CASE v = "v1"
  <2>1. MapIndex(c, O)  BY <1>5, MapSame, Zenon DEF IndexOf
  <2>2. d = [c EXCEPT !.orders[id] = o]  BY <1>4, <1>5, Zenon DEF Store, Tables
  <2>3. Put(O, id, o) = [O EXCEPT ![id] = o]  BY PutDrop
  <2> HIDE DEF d
  <2>4. MapIndex(d, Put(O, id, o)) /\ SameLevels(c, d)
    BY <2>1, <2>2, <2>3 DEF MapIndex, SameLevels
  <2> QED  BY <1>5, <2>4, Zenon DEF IndexOf, d, x
<1>6. CASE v # "v1" /\ v \in Tables
  <2>1. TableIndex(b, M, table_capacity(m))  BY <1>6, Zenon DEF IndexOf, M
  <2>2. d = Restored(c, SlotOf(b.slots, id), x)  BY <1>6, Zenon DEF Store
  <2>3. TableIndex(d, Put(M, id, x), table_capacity(m)) /\ SameLevels(c, d)
    BY <1>1, <2>1, <2>2, TableStore, Zenon
  <2> HIDE DEF d
  <2> QED  BY <1>2, <1>6, <2>3, Zenon DEF IndexOf, d, x
<1>7. CASE v # "v1" /\ v \notin Tables
  <2>1. FixedIndex(c, M, m)  BY <1>7, FixedSame, Zenon DEF IndexOf, M
  <2>2. d = [c EXCEPT !.orders[id] = x]  BY <1>7, Zenon DEF Store
  <2> HIDE DEF d
  <2>3. DOMAIN Put(M, id, x) = DOMAIN M  BY <1>1, MapCount, Zenon
  <2>4. FixedIndex(d, Put(M, id, x), m)
    BY <1>3, <2>1, <2>2, <2>3 DEF FixedIndex, MapIndex
  <2>5. SameLevels(c, d)  BY <2>2 DEF SameLevels
  <2> QED  BY <1>2, <1>7, <2>4, <2>5, Zenon DEF IndexOf, d, x
<1> QED  BY <1>5, <1>6, <1>7, Zenon

(* ... store what a reduction leaves ...                                   *)
LEMMA IndexReduces ==
    ASSUME NEW v, NEW m, NEW b, NEW O, OrderMap(O), IndexOf(v, m, b, O),
           NEW id \in DOMAIN O, NEW quantity, NEW c, SameIndex(b, c)
    PROVE  Reduce(v, b, c, id, quantity) =
              Store(v, b, c, id, Stored(v, Lessened(O[id], quantity)))
<1> DEFINE M == StoredMap(v, O)
<1>1. id \in DOMAIN M /\ id \in DOMAIN Hash /\ M[id] = Stored(v, O[id]) /\ O[id] \in LiveOrder
  BY StoredMaps DEF OrderMap
<1>2. Lessened(M[id], quantity) =
         Stored(v, Lessened(O[id], quantity))
  BY <1>1, StoredQuantity
<1> HIDE DEF M
<1>3. CASE v # "v1" /\ v \in Tables
  <2>1. TableIndex(b, M, table_capacity(m))  BY <1>3, Zenon DEF IndexOf, M
  <2>2. Rest(c, SlotOf(b.slots, id), quantity) =
        Restored(c, SlotOf(b.slots, id), Lessened(M[id], quantity))
    BY <1>1, <2>1, TableReduce
  <2> QED  BY <1>2, <1>3, <2>2 DEF Reduce, Store
<1>4. CASE v \notin Tables
  <2>1. v = "v1" => Stored(v, O[id]) = O[id]  BY Zenon DEF Stored
  <2>2. c.orders[id] = M[id]
    <3>1. v = "v1" => MapIndex(c, O)  BY MapSame, Zenon DEF IndexOf
    <3>2. v # "v1" => FixedIndex(c, M, m)  BY <1>4, FixedSame, Zenon DEF IndexOf, M
    <3> QED  BY <1>1, <2>1, <3>1, <3>2, Zenon DEF FixedIndex, MapIndex
  <2>3. [c EXCEPT !.orders[id].quantity = @ - quantity] =
        [c EXCEPT !.orders[id] = Lessened(M[id], quantity)]
    BY <2>2 DEF Lessened
  <2> QED  BY <1>2, <1>4, <2>3 DEF Reduce, Store
<1> QED  BY <1>3, <1>4, Zenon DEF Tables

(* ... and gain an order that enters: those of v1 to v4 at the end of an   *)
(* add, ...                                                                *)
LEMMA IndexEnters ==
    ASSUME NEW v, v \notin Fixed, v = "v1" \/ v \in Tables, NEW m, NEW b, NEW O, OrderMap(O),
           IndexOf(v, m, b, O), NEW id \in DOMAIN Hash, id \notin DOMAIN O, NEW o,
           RoomFor(v, m, Put(O, id, o)), NEW c, SameIndex(b, c)
    PROVE  /\ IndexOf(v, m, Enter(v, b, c, id, Stored(v, o)), Put(O, id, o))
           /\ SameLevels(c, Enter(v, b, c, id, Stored(v, o)))
<1> DEFINE M == StoredMap(v, O)
           x == Stored(v, o)
           d == Enter(v, b, c, id, x)
<1>1. StoredMap(v, Put(O, id, o)) = Put(M, id, x)  BY StoredPut
<1>2. v = "v1" => x = o  BY Zenon DEF Stored
<1>3. DOMAIN M = DOMAIN O  BY StoredMaps, Zenon
<1> HIDE DEF M, x
<1>4. CASE v = "v1"
  <2>1. MapIndex(c, O)  BY <1>4, MapSame, Zenon DEF IndexOf
  <2>2. d = [c EXCEPT !.orders = Put(c.orders, id, o)]  BY <1>2, <1>4, Zenon DEF Enter, Tables
  <2> HIDE DEF d
  <2>3. MapIndex(d, Put(O, id, o)) /\ SameLevels(c, d)
    BY <2>1, <2>2 DEF MapIndex, SameLevels
  <2> QED  BY <1>4, <2>3, Zenon DEF IndexOf, d, x
<1>5. CASE v # "v1" /\ v \in Tables
  <2>1. TableIndex(b, M, table_capacity(m))  BY <1>5, Zenon DEF IndexOf, M
  <2>2. Cardinality(DOMAIN O) + 1 <= table_capacity(m)
    BY <1>5, OrderCount, Zenon DEF RoomFor
  <2>3. insertion_slot(b.slots, id) # {}  BY <1>3, <2>1, <2>2, TableFree, Zenon
  <2>4. d = Filled(c, FreeSlot(b.slots, id), Occupied(id, x))
    BY <1>5, Zenon DEF Enter
  <2>5. TableIndex(d, Put(M, id, x), table_capacity(m)) /\ SameLevels(c, d)
    BY <2>1, <2>3, <2>4, TableEnter, Zenon
  <2> HIDE DEF d
  <2> QED  BY <1>1, <1>5, <2>5, Zenon DEF IndexOf, d, x
<1> QED  BY <1>4, <1>5, Zenon

(* ... those of v5 and v6 at its beginning.                                *)
LEMMA FixedEnters ==
    ASSUME NEW v \in Fixed, NEW m, NEW b, NEW O, OrderMap(O), IndexOf(v, m, b, O),
           NEW id, id \notin DOMAIN O, NEW o,
           NEW c, SameIndex(Enter(v, b, b, id, Stored(v, o)), c)
    PROVE  /\ IndexOf(v, m, [c EXCEPT !.live = @ + 1], Put(O, id, o))
           /\ SameLevels(c, [c EXCEPT !.live = @ + 1])
<1> DEFINE M == StoredMap(v, O)
           x == Stored(v, o)
           a == Enter(v, b, b, id, x)
           d == [c EXCEPT !.live = @ + 1]
<1>1. v # "v1" /\ v \notin Tables  BY DEF Fixed, Tables
<1>2. StoredMap(v, Put(O, id, o)) = Put(M, id, x)  BY StoredPut
<1>3. id \notin DOMAIN M /\ IsFiniteSet(DOMAIN M)  BY StoredMaps, Zenon DEF OrderMap
<1>4. FixedIndex(b, M, m)  BY <1>1, Zenon DEF IndexOf
<1>5. a = [b EXCEPT !.orders = Put(@, id, x)]  BY <1>1, Zenon DEF Enter
<1> HIDE DEF M, x, a
<1>6. SameIndex(a, c)  BY DEF a, x
<1>7. /\ {"live", "maximum"} \subseteq DOMAIN c /\ MapIndex(c, Put(M, id, x))
      /\ c.maximum = m /\ c.live = Cardinality(DOMAIN M)
  BY <1>4, <1>5, <1>6 DEF FixedIndex, MapIndex, SameIndex
<1>8. Cardinality(DOMAIN Put(M, id, x)) = Cardinality(DOMAIN M) + 1  BY <1>3, MapCount, Zenon
<1>9. FixedIndex(d, Put(M, id, x), m) /\ SameLevels(c, d)
  BY <1>7, <1>8 DEF FixedIndex, MapIndex, SameLevels
<1> QED  BY <1>1, <1>2, <1>9, Zenon DEF IndexOf

(* An update of the index of a book leaves its levels.                     *)
LEMMA EnterLevels ==
    ASSUME NEW v, v \notin Tables, NEW b, NEW c, NEW id, NEW x
    PROVE  SameLevels(c, Enter(v, b, c, id, x))
BY DEF Enter, SameLevels

-----------------------------------------------------------------------------
(* The live orders of a trace: no price has more than a 64-bit quantity.   *)
Valid(O) == OrderMap(O) /\ Sums(O) \in Quantities

LevelFits(O, o) == Sums(O)[o.side][o.price] <= MaxQuantity

(* An order that comes keeps the live orders valid when its level can hold *)
(* it, ...                                                                 *)
LEMMA PutFits ==
    ASSUME NEW O, Valid(O), NEW id \in DOMAIN Hash \ {0}, id \notin DOMAIN O, NEW o \in LiveOrder
    PROVE  /\ OrderMap(Put(O, id, o))
           /\ Sums(Put(O, id, o)) = Plus(Sums(O), o)
           /\ LevelFits(Put(O, id, o), o) <=> Sums(O)[o.side][o.price] + o.quantity <= MaxQuantity
           /\ LevelFits(Put(O, id, o), o) => Valid(Put(O, id, o))
<1> DEFINE S == Sums(O)
<1>1. OrderMap(O) /\ S \in Quantities  BY DEF Valid
<1>2. OrderMap(Put(O, id, o))  BY <1>1, PutOrder, Zenon
<1>3. Sums(Put(O, id, o)) = Plus(S, o)  BY <1>1, PutSums
<1> HIDE DEF S
<1>4. o.side \in Sides /\ o.price \in Nat /\ o.quantity \in Nat  BY LargestQuantity DEF LiveOrder
<1>5. Plus(S, o)[o.side][o.price] = S[o.side][o.price] + o.quantity
  BY <1>4 DEF Plus, At
<1>6. Plus(S, o)[o.side][o.price] <= MaxQuantity => Plus(S, o) \in Quantities
  <2> SUFFICES ASSUME Plus(S, o)[o.side][o.price] <= MaxQuantity,
                      NEW side \in Sides, NEW price \in Nat
               PROVE  S[side][price] + At(o, side, price) \in 0 .. MaxQuantity
    BY DEF Plus, Quantities
  <2>1. S[side][price] \in 0 .. MaxQuantity  BY <1>1 DEF Quantities
  <2> QED  BY <1>4, <1>5, <2>1, LargestQuantity DEF At
<1> QED  BY <1>2, <1>3, <1>5, <1>6, Zenon DEF Valid, LevelFits, S

(* ... one that goes always does, ...                                      *)
LEMMA DropFits ==
    ASSUME NEW O, Valid(O), NEW id \in DOMAIN O
    PROVE  /\ Valid(Drop(O, id)) /\ id \notin DOMAIN Drop(O, id)
           /\ Sums(Drop(O, id)) = Minus(Sums(O), O[id])
           /\ O[id] \in LiveOrder /\ O[id].quantity <= Sums(O)[O[id].side][O[id].price]
<1> DEFINE S == Sums(O)
<1>1. OrderMap(O) /\ S \in Quantities  BY DEF Valid
<1>2. OrderMap(Drop(O, id)) /\ DOMAIN Drop(O, id) = DOMAIN O \ {id}  BY <1>1, DropOrder, Zenon
<1>3. /\ O[id] \in LiveOrder /\ Sums(Drop(O, id)) = Minus(S, O[id])
      /\ O[id].quantity <= S[O[id].side][O[id].price]
  BY <1>1, DropSums, Zenon
<1> HIDE DEF S
<1>4. Minus(S, O[id]) \in Quantities
  <2> SUFFICES ASSUME NEW side \in Sides, NEW price \in Nat
               PROVE  S[side][price] - At(O[id], side, price) \in 0 .. MaxQuantity
    BY DEF Minus, Quantities
  <2>1. S[side][price] \in 0 .. MaxQuantity  BY <1>1 DEF Quantities
  <2>2. O[id].quantity \in Nat  BY <1>3, LargestQuantity DEF LiveOrder
  <2> QED  BY <1>3, <2>1, <2>2, LargestQuantity DEF At
<1> QED  BY <1>2, <1>3, <1>4, Zenon DEF Valid, S

(* ... an upsert is both in turn, ...                                      *)
LEMMA UpsertFits ==
    ASSUME NEW O, Valid(O), NEW id \in DOMAIN O, NEW o
    PROVE  Put(O, id, o) = Put(Drop(O, id), id, o)
BY PutDrop DEF Valid

Part(o, quantity) == [o EXCEPT !.quantity = quantity]

(* ... and a reduction takes a part.                                       *)
LEMMA ReduceFits ==
    ASSUME NEW O, Valid(O), NEW id \in DOMAIN O, NEW quantity \in 1 .. O[id].quantity - 1
    PROVE  LET o == Part(O[id], quantity)
           IN  /\ Valid(Reduced(O, id, quantity))
               /\ Reduced(O, id, quantity) = Put(O, id, Lessened(O[id], quantity))
               /\ Sums(Reduced(O, id, quantity)) = Minus(Sums(O), o)
               /\ o \in LiveOrder /\ o.quantity <= Sums(O)[o.side][o.price]
<1> DEFINE S == Sums(O)
           o == Part(O[id], quantity)
<1>1. OrderMap(O) /\ S \in Quantities  BY DEF Valid
<1>2. OrderMap(Reduced(O, id, quantity)) /\ Sums(Reduced(O, id, quantity)) = Minus(S, o)
  BY <1>1, ReduceSums DEF Part
<1>3. O[id] \in LiveOrder /\ O[id].quantity <= S[O[id].side][O[id].price]
  BY <1>1, DropSums, Zenon
<1>4. /\ O[id].side \in Sides /\ O[id].price \in Nat /\ O[id].quantity \in 1 .. MaxQuantity
      /\ S[O[id].side][O[id].price] \in 0 .. MaxQuantity
  BY <1>1, <1>3 DEF LiveOrder, Quantities
<1>5. o \in LiveOrder /\ o.side = O[id].side /\ o.price = O[id].price /\ o.quantity = quantity
  BY <1>3, <1>4, LargestQuantity DEF LiveOrder, Part
<1>6. Reduced(O, id, quantity) = Put(O, id, Lessened(O[id], quantity))
  <2>1. Put(O, id, Lessened(O[id], quantity)) = [O EXCEPT ![id] = Lessened(O[id], quantity)]
    BY <1>1, PutDrop
  <2> QED  BY <2>1 DEF Reduced, Lessened
<1> HIDE DEF S, o
<1>7. o.quantity <= S[o.side][o.price]  BY <1>3, <1>4, <1>5, LargestQuantity
<1>8. Minus(S, o) \in Quantities
  <2> SUFFICES ASSUME NEW side \in Sides, NEW price \in Nat
               PROVE  S[side][price] - At(o, side, price) \in 0 .. MaxQuantity
    BY DEF Minus, Quantities
  <2>1. S[side][price] \in 0 .. MaxQuantity  BY <1>1 DEF Quantities
  <2> QED  BY <1>5, <1>7, <2>1, LargestQuantity DEF At
<1> QED  BY <1>2, <1>5, <1>6, <1>7, <1>8, Zenon DEF Valid, S, o

(* An index has no place for an order exactly when the id is live or the   *)
(* version has no room.                                                    *)
Full(v, b, id) == IF v = "v1" THEN id \in DOMAIN b.orders
                  ELSE IF v \in Tables THEN insertion_slot(b.slots, id) = {}
                  ELSE ~Inserts(b, id)

(* An index refuses an id exactly if the id is live or the index is at its *)
(* limit.                                                                  *)
LEMMA IndexRoom ==
    ASSUME NEW v, v = "v1" \/ v \in Tables \/ v \in Fixed, NEW m \in Nat, NEW b, NEW O, OrderMap(O),
           IndexOf(v, m, b, O), NEW id \in DOMAIN Hash, NEW o
    PROVE  Full(v, b, id) <=> id \in DOMAIN O \/ ~RoomFor(v, m, Put(O, id, o))
<1> DEFINE M == StoredMap(v, O)
           k == Cardinality(DOMAIN O)
<1>1. DOMAIN M = DOMAIN O  BY StoredMaps, Zenon
<1>2. id \notin DOMAIN O => Cardinality(DOMAIN Put(O, id, o)) = k + 1  BY OrderCount, Zenon
<1>3. k \in Nat  BY OrderCount, Zenon
<1> HIDE DEF M, k
<1>4. CASE v = "v1"
  <2>1. b.orders = O  BY <1>4 DEF IndexOf, MapIndex
  <2> QED  BY <1>4, <2>1 DEF Full, RoomFor, Tables, Fixed
<1>5. CASE v \in Tables
  <2>1. TableIndex(b, M, table_capacity(m))  BY <1>5, Zenon DEF IndexOf, M, Tables
  <2>2. insertion_slot(b.slots, id) = {} <=> id \in DOMAIN O \/ ~(k + 1 <= table_capacity(m))
    BY <1>1, <2>1, TableFree, Zenon DEF k
  <2> QED  BY <1>2, <1>5, <2>2 DEF Full, RoomFor, Tables, Fixed
<1>6. CASE v \in Fixed
  <2>1. v # "v1" /\ v \notin Tables  BY <1>6 DEF Tables, Fixed
  <2>2. DOMAIN b.orders = DOMAIN O /\ b.maximum = m
    BY <1>1, <2>1, Zenon DEF IndexOf, FixedIndex, MapIndex, M
  <2>3. Inserts(b, id) <=> id \notin DOMAIN O /\ k < m  BY <2>2, Zenon DEF Inserts, k
  <2>4. k < m <=> k + 1 <= m  BY <1>3
  <2> QED  BY <1>2, <1>6, <2>1, <2>3, <2>4, Zenon DEF Full, RoomFor
<1> QED  BY <1>4, <1>5, <1>6, Zenon

(* The orders that go leave room.                                          *)
LEMMA RoomLeft ==
    ASSUME NEW v, NEW m \in Nat, NEW O, OrderMap(O), RoomFor(v, m, O), table_capacity(m) \in Nat,
           NEW id \in DOMAIN O, NEW o
    PROVE  RoomFor(v, m, Drop(O, id)) /\ RoomFor(v, m, Put(O, id, o))
<1>1. /\ Cardinality(DOMAIN O) \in Nat
      /\ Cardinality(DOMAIN Put(O, id, o)) = Cardinality(DOMAIN O)
      /\ Cardinality(DOMAIN Drop(O, id)) = Cardinality(DOMAIN O) - 1
  BY OrderCount, Zenon
<1> QED  BY <1>1 DEF RoomFor
=============================================================================
