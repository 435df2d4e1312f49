------------------------- MODULE BboSnapshotRelaxed -------------------------
(***************************************************************************)
(* BboSnapshot executes the loads of try_read in program order, as x86     *)
(* does.  The C++ and Rust memory models ask for less: an acquire load     *)
(* keeps later accesses behind it, so the relaxed field loads may still be *)
(* performed after the second load of the version (bbo_snapshot.hpp:41).   *)
(* Here the second version load can come at any time after the first.      *)
(***************************************************************************)
EXTENDS BboSnapshot

VARIABLE after  \* the second version, None until it is loaded

relaxedVars == <<bboVars, after>>

RelaxedInit == BboInit /\ after = [r \in Readers |-> None]

LoadAfterEarly(r) ==
  /\ rpc[r] = "loading"
  /\ after[r] = None
  /\ after' = [after EXCEPT ![r] = version]
  /\ UNCHANGED bboVars

Return(r) ==
  /\ rpc[r] = "loading"
  /\ left[r] = {}
  /\ after[r] # None
  /\ rpc' = [rpc EXCEPT ![r] = "idle"]
  /\ after' = [after EXCEPT ![r] = None]
  /\ result' = [result EXCEPT ![r] = IF after[r] = before[r] THEN got[r] ELSE @]
  /\ UNCHANGED <<version, cell, writerVars, before, got, left>>

RelaxedReader(r) ==
  \/ LoadBefore(r) /\ UNCHANGED after
  \/ \E f \in Fields : LoadField(r, f) /\ UNCHANGED after
  \/ LoadAfterEarly(r)
  \/ Return(r)

RelaxedNext == \/ Writer /\ UNCHANGED after
               \/ \E r \in Readers : RelaxedReader(r)

RelaxedSpec == RelaxedInit /\ [][RelaxedNext]_relaxedVars

-----------------------------------------------------------------------------
(* bbo_snapshot.hpp:20 "A reader receives either one internally consistent *)
(* BBO snapshot or retries": what try_read returns was published as a      *)
(* whole.                                                                  *)
ConsistentSnapshot ==
  \A r \in Readers : result[r] \in Snapshots \cup {ZeroSnapshot, None}
=============================================================================
