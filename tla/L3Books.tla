------------------------------ MODULE L3Books ------------------------------
(***************************************************************************)
(* The six L3 books fed with the same events, each in a process of its     *)
(* own, beside the map of live orders they have to represent.  No caller   *)
(* in the repository catches an exception of a book: a book that threw is  *)
(* looked at once more and then gone.                                      *)
(***************************************************************************)
EXTENDS L3Book, OrderBook, ParityOrderBook, DenseLadderOrderBook, BitmapLadderOrderBook,
        BitmapBackshiftOrderBook, BitmapPackedOrderBook

CONSTANTS Events,       \* the events that may come
          MaximumLives  \* values of maximum_live_orders

EventOrder == [side : Sides, price : Nat, quantity : 0 .. MaxQuantity]

Event == [type : {"Add", "Cancel", "Execute", "Delete", "OrderDelete", "Replace", "OrderUpsert"},
          order_id : DOMAIN Hash, replacement_order_id : DOMAIN Hash, order : EventOrder]

ASSUME L3BooksAssumption == Events \subseteq Event /\ MaximumLives \subseteq Nat

VARIABLES books,        \* the book of each version
          alive,        \* the versions that have not thrown
          thrown,       \* those that threw at the last event
          maximum_live,
          orders,       \* the live orders according to L3Book
          refused,      \* the versions that had to refuse the last event
          last          \* the last event, if some version threw

vars == <<books, alive, thrown, maximum_live, orders, refused, last>>

Versions == {"v1", "v2", "v3", "v4", "v5", "v6"}
Ladders == {"v3", "v4", "v5", "v6"}
Bitmaps == {"v4", "v5", "v6"}

Gone == [gone |-> TRUE]
NoEvent == [type |-> "none"]

Init == /\ maximum_live \in MaximumLives
        /\ books = [v \in Versions |->
              CASE v = "v1" -> New_v1               [] v = "v2" -> New_v2(maximum_live)
                [] v = "v3" -> New_v3(maximum_live) [] v = "v4" -> New_v4(maximum_live)
                [] v = "v5" -> New_v5(maximum_live) [] v = "v6" -> New_v6(maximum_live)]
        /\ alive = Versions /\ thrown = {}
        /\ orders = << >> /\ refused = {} /\ last = NoEvent

apply(v, e) ==
    CASE v = "v1" -> apply_v1(books[v], e) [] v = "v2" -> apply_v2(books[v], e)
      [] v = "v3" -> apply_v3(books[v], e) [] v = "v4" -> apply_v4(books[v], e)
      [] v = "v5" -> apply_v5(books[v], e) [] v = "v6" -> apply_v6(books[v], e)

(* The limits of the versions: the prices of a ladder, the slots of the    *)
(* tombstone index, and the maximum of the FixedOrderIndex.                *)
Fits(v, e) ==
    /\ v \in Ladders /\ e.type \in {"Add", "Replace", "OrderUpsert"} =>
          e.order.price \in MinimumPrice .. MinimumPrice + PriceCount - 1
    /\ v \in {"v2", "v3", "v4"} =>
          Cardinality(DOMAIN After(orders, e)) <= table_capacity(maximum_live)
    /\ v \in {"v5", "v6"} => Cardinality(DOMAIN After(orders, e)) <= maximum_live

Apply(e) ==
    \E results \in {[v \in alive |-> apply(v, e)]} :
        /\ books' = [v \in Versions |-> IF v \in alive THEN results[v].book ELSE Gone]
        /\ thrown' = {v \in alive : results[v].threw}
        /\ alive' = alive \ thrown'
        /\ orders' = IF Admits(orders, e) THEN After(orders, e) ELSE orders
        /\ refused' = {v \in alive : ~(Admits(orders, e) /\ Fits(v, e))}
        /\ last' = IF thrown' = {} THEN NoEvent ELSE e
        /\ UNCHANGED maximum_live

Finished == alive = {} /\ UNCHANGED vars

Next == (\E e \in Events : alive # {} /\ Apply(e)) \/ Finished

Spec == Init /\ [][Next]_vars

-----------------------------------------------------------------------------
state_digest(v) ==
    CASE v = "v1" -> state_digest_v1(books[v]) [] v = "v2" -> state_digest_v2(books[v])
      [] v = "v3" -> state_digest_v3(books[v]) [] v = "v4" -> state_digest_v4(books[v])
      [] v = "v5" -> state_digest_v5(books[v]) [] v = "v6" -> state_digest_v6(books[v])

best(v, side) ==
    CASE v = "v1" -> best_v1(books[v], side) [] v = "v2" -> best_v2(books[v], side)
      [] v = "v3" -> best_v3(books[v], side) [] v = "v4" -> best_v4(books[v], side)
      [] v = "v5" -> best_v5(books[v], side) [] v = "v6" -> best_v6(books[v], side)

(* The versions whose book can still be looked at.                         *)
Present == alive \cup thrown

(* Live orders have a quantity, and no ladder holds more than a 64-bit     *)
(* quantity at a price.                                                    *)
TypeOK == /\ alive \subseteq Versions /\ thrown \subseteq Versions /\ refused \subseteq Versions
          /\ alive \cap thrown = {}
          /\ maximum_live \in MaximumLives
          /\ \A id \in DOMAIN orders : orders[id].quantity \in 1 .. MaxQuantity
          /\ \A v \in Ladders \cap Present :
                books[v].ladder \in [Sides -> [Offsets -> 0 .. MaxQuantity]]

(* l3_order_book.md:61-67, after every event: the same live orders, level  *)
(* sums, level order and count behind the digest of every version, through *)
(* hash maps, tombstones, packed orders and ladders alike.                 *)
DigestsAgree == \A v \in alive : state_digest(v) = Digest(orders)

(* l3_order_book.md:63-64: best_bid is the highest and best_ask the lowest *)
(* live price, with its quantity, whether it is read from a map, from an   *)
(* array, from the cached price of v3 or from a bitmap.                    *)
BestAgrees == \A v \in alive, side \in Sides : best(v, side) = Best(orders, side)

(* Every version throws exactly at the events the map does not admit and   *)
(* at those beyond its limits: no live order is lost behind a tombstone,   *)
(* no second order gets an id that is live, and a table without an empty   *)
(* slot still finds and inserts.                                           *)
RefusesExactly == thrown = refused

(* Bit i of the bitmap is set exactly when price i has a quantity, in      *)
(* every book of v4, v5 and v6 and in whatever a throw left of it.         *)
BitmapsAgree ==
    \A v \in Bitmaps \cap Present, side \in Sides, i \in Offsets :
        i % WordBits \in books[v].occupied[side][i \div WordBits] <=> books[v].ladder[side][i] # 0

(* The price v3 caches is the best price of its ladder, after a throw too. *)
CachedBestIsBest ==
    "v3" \in Present => \A side \in Sides :
        refresh_best(books["v3"], side).best = books["v3"].best

(* The version changes its book before the last check that the event can   *)
(* fail.  A Replace removes the old order first.  The upsert of a live     *)
(* order takes it off its level first, except that v4 looks at the price   *)
(* before; that of a new one is an add, except that v1 enters the order    *)
(* first.  The add of v5 enters the order in the index and looks at price  *)
(* and level then; that of v6 looks only at the level then.                *)
ChangesFirst(v, e) ==
    LET known == e.order_id \in DOMAIN orders
        sound == e.order_id # 0 /\ e.order.quantity # 0
        enters == /\ v \in {"v5", "v6"} /\ (v = "v6" => InLadder(e.order.price))
                  /\ Cardinality(DOMAIN After(orders, e)) <= maximum_live
    IN  \/ e.type = "Replace" /\ known /\ e.order_id # e.replacement_order_id
        \/ e.type = "OrderUpsert" /\ sound /\ known /\ (v = "v4" => InLadder(e.order.price))
        \/ e.type = "OrderUpsert" /\ sound /\ ~known /\ (v = "v1" \/ enters)
        \/ e.type = "Add" /\ sound /\ ~known /\ enters

(* Any other event that a version refuses leaves its book as it was: it    *)
(* fails in a check that comes before the first change.                    *)
RefusalLeavesBook == [][\A v \in thrown' : ChangesFirst(v, last') \/ books'[v] = books[v]]_vars

(* packed_order_record_v6.md:10 "must reject an out-of-range price before  *)
(* mutation": when v6 throws at an event that is within the limits of v2,  *)
(* it leaves the book as it was.                                           *)
PackedRejectsBeforeMutation ==
    []["v6" \in thrown' /\ "v2" \in alive' => books'["v6"] = books["v6"]]_vars
=============================================================================
