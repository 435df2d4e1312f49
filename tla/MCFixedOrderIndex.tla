------------------------- MODULE MCFixedOrderIndex -------------------------
(* Eight slots, the smallest table, for three live orders of four; they    *)
(* hash to the last two slots and the first, so that clusters grow across  *)
(* the end of the table.                                                   *)
EXTENDS FixedOrderIndex

MCIds == 0 .. 4
MCHomes == {6, 7, 0}
=============================================================================
