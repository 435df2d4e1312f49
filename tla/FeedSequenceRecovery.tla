------------------------ MODULE FeedSequenceRecovery ------------------------
(***************************************************************************)
(* The gap detector between a sequenced venue and an order book            *)
(* (feed_sequence_recovery.hpp, feed_sequence_recovery.rs).  The venue     *)
(* numbers its events 1, 2, 3, ...; the transport may lose, repeat, delay  *)
(* and reorder them.  The book is represented by the sequence numbers      *)
(* applied to it: a snapshot of the venue up to n is <<1, ..., n>>.  The   *)
(* caller serialises its calls, loads the snapshot it announces with       *)
(* begin_snapshot, and applies the events it gets back in ready.           *)
(***************************************************************************)
EXTENDS Naturals, Sequences, FiniteSets, Functions

CONSTANTS ReplayCapacity, \* maximum_replay_events
          MaxSequence     \* bound: events the venue publishes

ASSUME RecoveryAssumption == ReplayCapacity \in Nat /\ MaxSequence \in Nat

VARIABLES state, expected, snapshot_last,
          replay,     \* replay_[0 .. replay_size_ - 1], by sequence number
          published,  \* events the venue has published
          book,       \* sequence numbers applied to the caller's book
          heard       \* numbers delivered since the last begin_snapshot

recoveryVars == <<state, expected, snapshot_last, replay, published, book, heard>>

(* A book holding exactly the first n events of the venue.                 *)
VenueUpTo(n) == [i \in 1 .. n |-> i]

RecoveryInit == /\ state = "AwaitingSnapshot"
                /\ expected = 0 /\ snapshot_last = 0
                /\ replay = << >>
                /\ published = 0
                /\ book = << >>
                /\ heard = {}

VenuePublishes == /\ published < MaxSequence
                  /\ published' = published + 1
                  /\ UNCHANGED <<state, expected, snapshot_last, replay, book, heard>>

-----------------------------------------------------------------------------
(* on_incremental, one action for each way it returns.                     *)
Awaiting(sequence) == /\ state = "AwaitingSnapshot"
                      /\ UNCHANGED <<state, expected, replay, book>>

(* Mutant: the first number after the snapshot is taken for stale.         *)
Stale_OffByOne(sequence) ==
    /\ \/ state = "Snapshotting" /\ sequence <= snapshot_last + 1
       \/ state = "Live" /\ sequence < expected
    /\ UNCHANGED <<state, expected, replay, book>>

Stale(sequence) == /\ \/ state = "Snapshotting" /\ sequence <= snapshot_last
                      \/ state = "Live" /\ sequence < expected
                   /\ UNCHANGED <<state, expected, replay, book>>

(* Mutant: what does not fit is dropped.                                   *)
BufferFull_Drops(sequence) == /\ state = "Snapshotting" /\ sequence > snapshot_last
                              /\ Len(replay) = ReplayCapacity
                              /\ UNCHANGED <<state, expected, replay, book>>

BufferFull(sequence) == /\ state = "Snapshotting" /\ sequence > snapshot_last
                        /\ Len(replay) = ReplayCapacity
                        /\ state' = "AwaitingSnapshot"
                        /\ UNCHANGED <<expected, replay, book>>

(* Mutant: the capacity is not checked.                                    *)
Buffered_Unbounded(sequence) == /\ state = "Snapshotting" /\ sequence > snapshot_last
                                /\ Len(replay) <= ReplayCapacity
                                /\ replay' = Append(replay, sequence)
                                /\ UNCHANGED <<state, expected, book>>

Buffered(sequence) == /\ state = "Snapshotting" /\ sequence > snapshot_last
                      /\ Len(replay) # ReplayCapacity
                      /\ replay' = Append(replay, sequence)
                      /\ UNCHANGED <<state, expected, book>>

Gap(sequence) == /\ state = "Live" /\ sequence > expected
                 /\ state' = "AwaitingSnapshot"
                 /\ UNCHANGED <<expected, replay, book>>

(* Mutant: a later number than the expected one is applied.                *)
Apply_SkipsGap(sequence) == /\ state = "Live" /\ sequence >= expected
                            /\ book' = Append(book, sequence)
                            /\ expected' = sequence + 1
                            /\ UNCHANGED <<state, replay>>

Apply(sequence) == /\ state = "Live" /\ sequence = expected
                   /\ book' = Append(book, sequence)
                   /\ expected' = expected + 1
                   /\ UNCHANGED <<state, replay>>

on_incremental(sequence) == /\ \/ Awaiting(sequence) \/ Stale(sequence)
                               \/ BufferFull(sequence) \/ Buffered(sequence)
                               \/ Gap(sequence) \/ Apply(sequence)
                            /\ heard' = heard \cup {sequence}
                            /\ UNCHANGED <<snapshot_last, published>>

(* The caller has a snapshot that reflects the venue up to last_sequence   *)
(* and loads it into the book.                                             *)
begin_snapshot(last_sequence) == /\ state' = "Snapshotting"
                                 /\ snapshot_last' = last_sequence
                                 /\ replay' = << >>
                                 /\ book' = VenueUpTo(last_sequence)
                                 /\ heard' = {}
                                 /\ UNCHANGED <<expected, published>>

(* The scan of the sorted replay buffer: it stops at last unless a number  *)
(* is missing on the way to the highest one.  ReplayMerge shows that the   *)
(* loops of finish_snapshot compute this.                                  *)
ContiguousTo(last) == Range(replay) = snapshot_last + 1 .. last

FinishContiguous == /\ state = "Snapshotting"
                    /\ \E last \in snapshot_last .. published :
                          /\ ContiguousTo(last)
                          /\ book' = book \o [i \in 1 .. last - snapshot_last |-> snapshot_last + i]
                          /\ expected' = last + 1
                    /\ replay' = << >>
                    /\ state' = "Live"
                    /\ UNCHANGED <<snapshot_last, published, heard>>

FinishGap == /\ state = "Snapshotting"
             /\ \A last \in snapshot_last .. published : ~ContiguousTo(last)
             /\ state' = "AwaitingSnapshot"
             /\ replay' = << >>
             /\ UNCHANGED <<expected, snapshot_last, published, book, heard>>

(* In another state it returns false and changes nothing.                  *)
finish_snapshot == FinishContiguous \/ FinishGap

RecoveryNext == \/ VenuePublishes
                \/ \E sequence \in 1 .. published : on_incremental(sequence)
                \/ \E last_sequence \in 0 .. published : begin_snapshot(last_sequence)
                \/ finish_snapshot

RecoverySpec == RecoveryInit /\ [][RecoveryNext]_recoveryVars

-----------------------------------------------------------------------------
(* The fields have their types; the buffer never outgrows its capacity.    *)
RecoveryTypeOK == /\ state \in {"Live", "AwaitingSnapshot", "Snapshotting"}
                  /\ expected \in Nat /\ snapshot_last \in Nat /\ published \in Nat
                  /\ replay \in Seq(Nat) /\ Len(replay) <= ReplayCapacity
                  /\ book \in Seq(Nat)
                  /\ heard \subseteq 1 .. published

(* Whatever is lost, repeated or reordered, the book is a prefix of the    *)
(* venue's history: nothing is skipped and nothing applied twice, and in   *)
(* Live the next number it wants is the one expected_sequence reports.     *)
BookIsVenuePrefix ==
    /\ \E n \in 0 .. published : book = VenueUpTo(n)
    /\ state = "Live" => expected = Len(book) + 1
    /\ state = "Snapshotting" => snapshot_last = Len(book)

(* In Live the book reflects every event delivered since the snapshot      *)
(* began: none was dropped by the buffer, the sort or the gap check.       *)
LiveIsComplete == state = "Live" => heard \subseteq Range(book)

(* A book is given up only for a reason: the buffer is full, or some event *)
(* neither reached the book nor was delivered since its snapshot, while a  *)
(* later one was.  Events that are merely repeated, late or out of order   *)
(* never cost a snapshot, in Live, in the buffer or in the merge.          *)
NoFalseGap ==
    [][state # "AwaitingSnapshot" /\ state' = "AwaitingSnapshot" =>
          \/ state = "Snapshotting" /\ Len(replay') = ReplayCapacity
          \/ \E missing \in 1 .. published :
                /\ missing \notin Range(book) \cup heard'
                /\ \E later \in heard' : later > missing]_recoveryVars

(* What makes LiveIsComplete inductive: while the snapshot is loading,     *)
(* what was heard is either in it or buffered.                             *)
BufferIsComplete ==
    state = "Snapshotting" => /\ heard \subseteq 1 .. snapshot_last \cup Range(replay)
                              /\ Range(replay) \subseteq heard
                              /\ \A sequence \in Range(replay) : sequence > snapshot_last
=============================================================================
