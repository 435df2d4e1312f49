---------------------------- MODULE BboRegister ----------------------------
(***************************************************************************)
(* What a BboSnapshotCell promises: one atomic register.  A publication    *)
(* replaces the whole snapshot in one step; an accepted read returns the   *)
(* snapshot that is current at that step.  A rejected read (nullopt) is a  *)
(* stuttering step, so a reader that retries is not visible here.          *)
(***************************************************************************)
CONSTANTS Readers,      \* the reader threads
          Snapshots,    \* the snapshots a writer may publish
          ZeroSnapshot, \* what the cell holds before the first publication
          None          \* a reader that has not accepted a snapshot yet

VARIABLES current,      \* the last published snapshot
          result        \* per reader, the last snapshot it accepted

regVars == <<current, result>>

Init == /\ current = ZeroSnapshot
        /\ result = [r \in Readers |-> None]

Publish(s) == current' = s /\ UNCHANGED result

Read(r) == result' = [result EXCEPT ![r] = current] /\ UNCHANGED current

Next == \/ \E s \in Snapshots : Publish(s)
        \/ \E r \in Readers : Read(r)

Spec == Init /\ [][Next]_regVars
=============================================================================
