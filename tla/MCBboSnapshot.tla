--------------------------- MODULE MCBboSnapshot ---------------------------
(* The seqlock with two of the four fields of BboSnapshot: all four are     *)
(* stored and loaded alike.  Publication k stores k in every field, so any *)
(* mixture of two publications is recognisable.                            *)
EXTENDS BboSnapshot

MCFields == {"bid_price", "ask_price"}
MCValues == 0 .. 2
MCSnapshots == {[f \in MCFields |-> k] : k \in 1 .. 2}
=============================================================================
