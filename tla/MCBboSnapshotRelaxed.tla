------------------------ MODULE MCBboSnapshotRelaxed ------------------------
(* One reader, two publications.                                           *)
EXTENDS BboSnapshotRelaxed

MCFields == {"bid_price", "ask_price"}
MCValues == 0 .. 2
MCSnapshots == {[f \in MCFields |-> k] : k \in 1 .. 2}
=============================================================================
