---------------------------- MODULE ReplayMerge ----------------------------
(***************************************************************************)
(* FeedSequenceRecovery with finish_snapshot loop by loop: sort the replay *)
(* buffer, scan it for gaps, emit one event for each number                *)
(* (feed_sequence_recovery.hpp:59-90).  The caller is in finish_snapshot   *)
(* meanwhile and makes no other call; the venue goes on publishing.  The   *)
(* buffer is sorted in place; nothing else reads it before it is emptied,  *)
(* so replay keeps the order of arrival here and sorted is the array the   *)
(* loops walk.  Entries of one number carry the same event, so how an      *)
(* unstable sort arranges them does not matter.                            *)
(***************************************************************************)
EXTENDS FeedSequenceRecovery, SequencesExt

VARIABLES pc,                        \* where finish_snapshot is
          sorted, first, i,          \* the sorted buffer, where the loops start, the loop index
          next, emit_sequence,
          ready                      \* what the caller will apply to its book

mergeVars == <<pc, sorted, first, i, next, emit_sequence, ready>>
allVars == <<recoveryVars, mergeVars>>

MergeInit == /\ RecoveryInit
             /\ pc = "returned" /\ sorted = << >> /\ first = 1 /\ i = 1
             /\ next = 0 /\ emit_sequence = 0 /\ ready = << >>

(* The locals of finish_snapshot end with the call.                        *)
Return == /\ pc' = "returned" /\ sorted' = << >> /\ first' = 1 /\ i' = 1
          /\ next' = 0 /\ emit_sequence' = 0 /\ ready' = << >>

(* The calls that are one step here as well.                               *)
Call == /\ pc = "returned"
        /\ \/ \E sequence \in 1 .. published : on_incremental(sequence)
           \/ \E last_sequence \in 0 .. published : begin_snapshot(last_sequence)
        /\ UNCHANGED mergeVars

Publish == VenuePublishes /\ UNCHANGED mergeVars

-----------------------------------------------------------------------------
(* Mutant: the buffer is scanned in the order of arrival.                  *)
Sort_ByArrival == /\ pc = "returned" /\ state = "Snapshotting"
                  /\ sorted' = replay
                  /\ first' = 1
                  /\ i' = first'
                  /\ next' = snapshot_last + 1
                  /\ pc' = "scan"
                  /\ UNCHANGED <<recoveryVars, emit_sequence, ready>>

(* Sort, and skip what the snapshot already holds.                         *)
Sort == /\ pc = "returned" /\ state = "Snapshotting"
        /\ sorted' = SortSeq(replay, <)
        /\ first' = 1 + Cardinality({k \in DOMAIN replay : replay[k] < snapshot_last + 1})
        /\ i' = first'
        /\ next' = snapshot_last + 1
        /\ pc' = "scan"
        /\ UNCHANGED <<recoveryVars, emit_sequence, ready>>

(* Mutant: a repeated number counts as the next one.                       *)
Scan_CountsRepeats == /\ pc = "scan" /\ i <= Len(sorted)
                      /\ sorted[i] <= next
                      /\ next' = next + 1
                      /\ i' = i + 1
                      /\ UNCHANGED <<recoveryVars, pc, sorted, first, emit_sequence, ready>>

(* A number below next is a repetition ...                                 *)
Scan == /\ pc = "scan" /\ i <= Len(sorted)
        /\ sorted[i] <= next
        /\ next' = IF sorted[i] < next THEN next ELSE next + 1
        /\ i' = i + 1
        /\ UNCHANGED <<recoveryVars, pc, sorted, first, emit_sequence, ready>>

(* ... and a number above it shows a gap.                                  *)
ScanGap == /\ pc = "scan" /\ i <= Len(sorted)
           /\ sorted[i] > next
           /\ state' = "AwaitingSnapshot"
           /\ replay' = << >>
           /\ Return
           /\ UNCHANGED <<expected, snapshot_last, published, book, heard>>

ScanEnd == /\ pc = "scan" /\ i > Len(sorted)
           /\ emit_sequence' = snapshot_last + 1
           /\ i' = first
           /\ pc' = "emit"
           /\ UNCHANGED <<recoveryVars, sorted, first, next, ready>>

Emit == /\ pc = "emit" /\ i <= Len(sorted)
        /\ IF sorted[i] = emit_sequence
           THEN ready' = Append(ready, sorted[i]) /\ emit_sequence' = emit_sequence + 1
           ELSE UNCHANGED <<ready, emit_sequence>>
        /\ i' = i + 1
        /\ UNCHANGED <<recoveryVars, pc, sorted, first, next>>

(* finish_snapshot returns true and the caller applies what is ready.      *)
EmitEnd == /\ pc = "emit" /\ i > Len(sorted)
           /\ replay' = << >>
           /\ expected' = next
           /\ state' = "Live"
           /\ book' = book \o ready
           /\ Return
           /\ UNCHANGED <<snapshot_last, published, heard>>

Merge == Sort \/ Scan \/ ScanGap \/ ScanEnd \/ Emit \/ EmitEnd

MergeNext == Publish \/ Call \/ Merge

MergeSpec == MergeInit /\ [][MergeNext]_allVars

-----------------------------------------------------------------------------
(* The loops do what FeedSequenceRecovery takes finish_snapshot to do in   *)
(* one step: they succeed exactly when no buffered number is missing its   *)
(* predecessor, hand out each number once and in order, and hand out       *)
(* nothing when they fail ("without emitting a partial, potentially        *)
(* inconsistent suffix", feed_sequence_recovery_v1.md:27).                 *)
MergesAtOnce == RecoverySpec
=============================================================================
