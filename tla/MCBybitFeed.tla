---------------------------- MODULE MCBybitFeed ----------------------------
(* Two levels to a side out of three prices, so that a delta can replace a *)
(* level of a full vector; every delta of at most two changes, of two when *)
(* they insert the smaller quantity; snapshots that are empty, full,       *)
(* unsorted in either direction, too long or hold an empty level.  A word  *)
(* holds 0 to 15 and a decimal has one digit behind the point: 1.5 is the  *)
(* largest number, 1.6 does not fit, 15 has a whole part that fits and 16  *)
(* one that does not.                                                      *)
EXTENDS BybitFeed

L(price, quantity) == [price |-> price, quantity |-> quantity]

MCSnapshotVectors == {<< >>, <<L(10, 1)>>, <<L(9, 1), L(15, 10)>>, <<L(15, 1), L(10, 10)>>,
                      <<L(10, 0)>>, <<L(10, 1), L(10, 1)>>, <<L(15, 1), L(10, 1), L(9, 1)>>}
MCDeltas == BoundedSeq(Changes, 1) \cup TupleOf({c \in Changes : c.quantity # 10}, 2)

T(whole, fraction) == [whole |-> whole, fraction |-> fraction]

PriceTexts == {T(<<0>>, <<9>>), T(<<1>>, << >>), T(<<1>>, <<5>>), T(<<1>>, <<6>>), T(<<1>>, <<9>>), T(<<1, 5>>, << >>),
               T(<<1, 6>>, << >>), T(<<0>>, <<0>>), T(<<0>>, <<9, 0>>), T(<< >>, <<9>>), T(<<NonDigit>>, << >>)}
SizeTexts == {T(<<0>>, << >>), T(<<0, 0>>, <<1>>), T(<<1>>, <<0>>), T(<<2>>, << >>), T(<<0>>, <<NonDigit>>)}
Good == <<T(<<1>>, <<5>>), T(<<0>>, <<1>>)>>
Rows == {<<p, Good[2]>> : p \in PriceTexts} \cup {<<Good[1], q>> : q \in SizeTexts} \cup {<<Good[1]>>}

Frame(type, u, b, a) == [type |-> type, u |-> u, b |-> b, a |-> a]
MCFrames == {Frame("snapshot", 1, <<row>>, <<Good>>) : row \in Rows}
              \cup {Frame("delta", u, << >>, <<row>>) : u \in {2, 3}, row \in Rows}
              \cup {Frame("delta", 2, <<row>>, <<Good>>) : row \in Rows}
              \cup {Frame(type, 0, <<Good>>, << >>) : type \in {"snapshot", "delta"}}
              \cup {Frame(type, 1, << >>, << >>) : type \in {"none", "other"}}
=============================================================================
