------------------------- MODULE FeedRecoveryProofs -------------------------
(***************************************************************************)
(* The gap detector before the book, for any buffer capacity, any number   *)
(* of events and any delivery of them.                                     *)
(***************************************************************************)
EXTENDS FeedSequenceRecovery, SequenceTheorems, WellFoundedInduction, TLAPS

(* The inductive invariant: the prefix is named by its length, and the     *)
(* snapshot in progress is one the venue could have sent.                  *)
RecoveryInv == /\ RecoveryTypeOK
               /\ published \in Nat
               /\ Len(book) <= published
               /\ book = VenueUpTo(Len(book))
               /\ state = "Live" => expected = Len(book) + 1
               /\ state = "Snapshotting" => snapshot_last = Len(book)
               /\ LiveIsComplete
               /\ BufferIsComplete

(* A prefix of the venue's history is a sequence of its length and holds   *)
(* exactly the numbers up to it.                                           *)
LEMMA PrefixFacts ==
    ASSUME NEW n \in Nat
    PROVE  /\ VenueUpTo(n) \in Seq(Nat)
           /\ Len(VenueUpTo(n)) = n
           /\ Range(VenueUpTo(n)) = 1 .. n
<1>1. VenueUpTo(n) \in Seq(Nat) /\ Len(VenueUpTo(n)) = n  BY DEF VenueUpTo
<1>2. Range(VenueUpTo(n)) = 1 .. n  BY DEF VenueUpTo, Range
<1> QED  BY <1>1, <1>2

(* Applying the next k events to a prefix gives the longer prefix.         *)
LEMMA PrefixGrows ==
    ASSUME NEW n \in Nat, NEW k \in Nat
    PROVE  VenueUpTo(n) \o [i \in 1 .. k |-> n + i] = VenueUpTo(n + k)
<1> DEFINE more == [i \in 1 .. k |-> n + i]
<1>1. more \in Seq(Nat) /\ Len(more) = k  OBVIOUS
<1>2. VenueUpTo(n) \in Seq(Nat) /\ Len(VenueUpTo(n)) = n  BY PrefixFacts
<1>3. /\ VenueUpTo(n) \o more \in Seq(Nat)
      /\ Len(VenueUpTo(n) \o more) = n + k
      /\ \A i \in 1 .. n + k : (VenueUpTo(n) \o more)[i] =
            IF i <= n THEN VenueUpTo(n)[i] ELSE more[i - n]
  <2> HIDE DEF more
  <2> DEFINE prefix == VenueUpTo(n)
  <2> HIDE DEF prefix
  <2>1. prefix \in Seq(Nat) /\ Len(prefix) = n  BY <1>2 DEF prefix
  <2>2. /\ prefix \o more \in Seq(Nat)
        /\ Len(prefix \o more) = Len(prefix) + Len(more)
        /\ \A i \in 1 .. Len(prefix) + Len(more) : (prefix \o more)[i] =
               IF i <= Len(prefix) THEN prefix[i] ELSE more[i - Len(prefix)]
    BY <1>1, <2>1, ConcatProperties, Zenon
  <2> QED  BY <1>1, <2>1, <2>2 DEF prefix
<1>4. VenueUpTo(n + k) \in Seq(Nat) /\ Len(VenueUpTo(n + k)) = n + k
  BY PrefixFacts
<1>5. \A i \in 1 .. n + k : (VenueUpTo(n) \o more)[i] = VenueUpTo(n + k)[i]
  BY <1>3 DEF VenueUpTo
<1> QED  BY <1>3, <1>4, <1>5, SeqEqual, Zenon

(* Applying the expected event, as on_incremental does in Live.            *)
LEMMA PrefixAppend ==
    ASSUME NEW n \in Nat
    PROVE  Append(VenueUpTo(n), n + 1) = VenueUpTo(n + 1)
BY DEF VenueUpTo

(* Appending a number adds it to the numbers of a sequence.                *)
LEMMA RangeAppend ==
    ASSUME NEW s \in Seq(Nat), NEW x \in Nat
    PROVE  Range(Append(s, x)) = Range(s) \cup {x}
<1>1. /\ Append(s, x) \in Seq(Nat) /\ Len(Append(s, x)) = Len(s) + 1
      /\ \A i \in 1 .. Len(s) : Append(s, x)[i] = s[i]
      /\ Append(s, x)[Len(s) + 1] = x
  BY AppendProperties
<1>2. Range(s) = {s[i] : i \in 1 .. Len(s)}  BY RangeEquality
<1>3. Range(Append(s, x)) = {Append(s, x)[i] : i \in 1 .. Len(s) + 1}
  BY <1>1, RangeEquality, Zenon
<1>4. Len(s) \in Nat  OBVIOUS
<1>5. ASSUME NEW y PROVE y \in Range(Append(s, x)) <=> y \in Range(s) \/ y = x
  <2>1. ASSUME y \in Range(Append(s, x)) PROVE y \in Range(s) \/ y = x
    <3>1. PICK i \in 1 .. Len(s) + 1 : y = Append(s, x)[i]  BY <2>1, <1>3
    <3>2. i \in 1 .. Len(s) \/ i = Len(s) + 1  BY <1>4
    <3> QED  BY <3>1, <3>2, <1>1, <1>2
  <2>2. ASSUME y \in Range(s) PROVE y \in Range(Append(s, x))
    <3>1. PICK i \in 1 .. Len(s) : y = s[i]  BY <2>2, <1>2
    <3>2. i \in 1 .. Len(s) + 1  BY <1>4
    <3> QED  BY <3>1, <3>2, <1>1, <1>3
  <2>3. x \in Range(Append(s, x))
    <3>1. Len(s) + 1 \in 1 .. Len(s) + 1  BY <1>4
    <3> QED  BY <3>1, <1>1, <1>3
  <2> QED  BY <2>1, <2>2, <2>3
<1> QED  BY <1>5

(* Every call of the component preserves the invariant.                    *)
LEMMA RecoveryStep == RecoveryInv /\ [RecoveryNext]_recoveryVars => RecoveryInv'
<1> SUFFICES ASSUME RecoveryInv, [RecoveryNext]_recoveryVars PROVE RecoveryInv'
  OBVIOUS
<1>0. /\ RecoveryTypeOK /\ Len(book) \in Nat /\ ReplayCapacity \in Nat
      /\ book = VenueUpTo(Len(book)) /\ Range(book) = 1 .. Len(book)
  <2>1. RecoveryTypeOK /\ book = VenueUpTo(Len(book))  BY DEF RecoveryInv
  <2>2. Len(book) \in Nat  BY <2>1 DEF RecoveryTypeOK
  <2>3. Range(VenueUpTo(Len(book))) = 1 .. Len(book)  BY <2>2, PrefixFacts
  <2> QED  BY <2>1, <2>2, <2>3, RecoveryAssumption
<1>1. CASE UNCHANGED recoveryVars
  BY <1>1 DEF RecoveryInv, RecoveryTypeOK, LiveIsComplete, BufferIsComplete, recoveryVars
<1>2. CASE VenuePublishes
  BY <1>2 DEF RecoveryInv, RecoveryTypeOK, LiveIsComplete, BufferIsComplete, VenuePublishes
<1>3. ASSUME NEW sequence \in 1 .. published, on_incremental(sequence)
      PROVE  RecoveryInv'
  <2> sequence \in Nat /\ published \in Nat  BY <1>0 DEF RecoveryTypeOK
  <2>1. heard' = heard \cup {sequence} /\ UNCHANGED <<snapshot_last, published>>
    BY <1>3 DEF on_incremental
  <2>2. CASE Awaiting(sequence)
    BY <2>1, <2>2 DEF RecoveryInv, RecoveryTypeOK, LiveIsComplete, BufferIsComplete, Awaiting
  <2>3. CASE Stale(sequence)
    <3>1. UNCHANGED <<state, expected, replay, book>>  BY <2>3 DEF Stale
    <3>2. RecoveryTypeOK'  BY <1>0, <2>1, <3>1 DEF RecoveryTypeOK
    <3>3. LiveIsComplete'
      BY <1>0, <2>1, <2>3, <3>1 DEF RecoveryInv, RecoveryTypeOK, LiveIsComplete, Stale
    <3>4. BufferIsComplete'
      BY <1>0, <2>1, <2>3, <3>1 DEF RecoveryInv, RecoveryTypeOK, BufferIsComplete, Stale
    <3> QED  BY <2>1, <3>1, <3>2, <3>3, <3>4 DEF RecoveryInv
  <2>4. CASE BufferFull(sequence)
    BY <2>1, <2>4 DEF RecoveryInv, RecoveryTypeOK, LiveIsComplete, BufferIsComplete, BufferFull
  <2>5. CASE Buffered(sequence)
    <3>1. /\ UNCHANGED <<state, expected, book>> /\ state = "Snapshotting"
          /\ replay' = Append(replay, sequence) /\ sequence > snapshot_last
          /\ Len(replay) # ReplayCapacity
      BY <2>5 DEF Buffered
    <3>2. replay \in Seq(Nat)  BY <1>0 DEF RecoveryTypeOK
    <3>3. Range(replay') = Range(replay) \cup {sequence}
      BY <3>1, <3>2, RangeAppend
    <3>4. replay' \in Seq(Nat) /\ Len(replay') = Len(replay) + 1
      BY <3>1, <3>2, AppendProperties
    <3>5. RecoveryTypeOK'  BY <1>0, <2>1, <3>1, <3>2, <3>4 DEF RecoveryTypeOK
    <3>6. BufferIsComplete'
      BY <2>1, <3>1, <3>3 DEF RecoveryInv, BufferIsComplete
    <3> QED  BY <2>1, <3>1, <3>5, <3>6 DEF RecoveryInv, LiveIsComplete
  <2>6. CASE Gap(sequence)
    BY <2>1, <2>6 DEF RecoveryInv, RecoveryTypeOK, LiveIsComplete, BufferIsComplete, Gap
  <2>7. CASE Apply(sequence)
    <3>1. /\ UNCHANGED <<state, replay>> /\ state = "Live" /\ sequence = expected
          /\ book' = Append(book, sequence) /\ expected' = expected + 1
      BY <2>7 DEF Apply
    <3>2. sequence = Len(book) + 1  BY <3>1 DEF RecoveryInv
    <3>3. book' = VenueUpTo(Len(book) + 1)  BY <1>0, <3>1, <3>2, PrefixAppend, Zenon
    <3>4. /\ book' \in Seq(Nat) /\ Len(book') = Len(book) + 1
          /\ Range(book') = 1 .. Len(book) + 1
      BY <1>0, <3>3, PrefixFacts
    <3>5. RecoveryTypeOK'  BY <1>0, <2>1, <3>1, <3>4 DEF RecoveryTypeOK
    <3>6. LiveIsComplete'
      BY <1>0, <2>1, <3>1, <3>2, <3>4 DEF RecoveryInv, LiveIsComplete
    <3>7. Len(book') <= published'  BY <1>0, <2>1, <3>2, <3>4
    <3> QED  BY <1>0, <2>1, <3>1, <3>2, <3>3, <3>4, <3>5, <3>6, <3>7 DEF RecoveryInv, BufferIsComplete
  <2> QED  BY <1>3, <2>2, <2>3, <2>4, <2>5, <2>6, <2>7 DEF on_incremental
<1>4. ASSUME NEW last \in 0 .. published, begin_snapshot(last)
      PROVE  RecoveryInv'
  <2>1. last \in Nat /\ last <= published /\ published \in Nat  BY <1>0 DEF RecoveryTypeOK
  <2>2. /\ state' = "Snapshotting" /\ snapshot_last' = last /\ replay' = << >>
        /\ book' = VenueUpTo(last) /\ heard' = {} /\ UNCHANGED <<expected, published>>
    BY <1>4 DEF begin_snapshot
  <2>3. book' \in Seq(Nat) /\ Len(book') = last  BY <2>1, <2>2, PrefixFacts
  <2>4. RecoveryTypeOK'  BY <1>0, <2>1, <2>2, <2>3 DEF RecoveryTypeOK
  <2>5. Range(replay') = {}  BY <2>2 DEF Range
  <2> QED  BY <2>1, <2>2, <2>3, <2>4, <2>5 DEF RecoveryInv, LiveIsComplete, BufferIsComplete
<1>5. CASE FinishContiguous
  <2>1. PICK last \in snapshot_last .. published :
           /\ ContiguousTo(last)
           /\ book' = book \o [i \in 1 .. last - snapshot_last |-> snapshot_last + i]
           /\ expected' = last + 1
    BY <1>5, Zenon DEF FinishContiguous
  <2>2. /\ state = "Snapshotting" /\ replay' = << >> /\ state' = "Live"
        /\ UNCHANGED <<snapshot_last, published, heard>>
    BY <1>5 DEF FinishContiguous
  <2>3. snapshot_last \in Nat /\ published \in Nat /\ last \in Nat /\ snapshot_last <= last
    BY <1>0 DEF RecoveryTypeOK
  <2>4. snapshot_last = Len(book)  BY <2>2 DEF RecoveryInv
  <2>5. book' = VenueUpTo(last)
    <3>1. last - snapshot_last \in Nat /\ snapshot_last + (last - snapshot_last) = last
      BY <2>3
    <3> QED  BY <1>0, <2>1, <2>3, <2>4, <3>1, PrefixGrows, Zenon
  <2>6. book' \in Seq(Nat) /\ Len(book') = last /\ Range(book') = 1 .. last
    BY <2>3, <2>5, PrefixFacts
  <2>7. RecoveryTypeOK'  BY <1>0, <2>1, <2>2, <2>3, <2>6 DEF RecoveryTypeOK
  <2>8. LiveIsComplete'
    <3>1. heard \subseteq 1 .. snapshot_last \cup (snapshot_last + 1 .. last)
      BY <2>1, <2>2 DEF RecoveryInv, BufferIsComplete, ContiguousTo
    <3>2. 1 .. snapshot_last \cup (snapshot_last + 1 .. last) \subseteq 1 .. last
      BY <2>3
    <3> QED  BY <2>2, <2>6, <3>1, <3>2 DEF LiveIsComplete
  <2>9. Len(book') <= published' /\ book' = VenueUpTo(Len(book')) /\ expected' = Len(book') + 1
    <3>1. last <= published  BY <2>3
    <3>2. book' = VenueUpTo(Len(book'))
      <4>1. Len(book') = last  BY <2>6
      <4> QED  BY ONLY <4>1, <2>5
    <3> QED  BY <2>1, <2>2, <2>6, <3>1, <3>2, Zenon
  <2>10. BufferIsComplete'  BY <2>2 DEF BufferIsComplete
  <2>11. published' \in Nat  BY <2>2, <2>3
  <2> QED  BY <2>2, <2>7, <2>8, <2>9, <2>10, <2>11 DEF RecoveryInv
<1>6. CASE FinishGap
  BY <1>0, <1>6 DEF RecoveryInv, RecoveryTypeOK, LiveIsComplete, BufferIsComplete, FinishGap
<1> QED  BY <1>1, <1>2, <1>3, <1>4, <1>5, <1>6 DEF RecoveryNext, finish_snapshot

(* A new component, still awaiting its first snapshot, satisfies it.       *)
LEMMA RecoveryInitially == RecoveryInit => RecoveryInv
<1> SUFFICES ASSUME RecoveryInit PROVE RecoveryInv
  OBVIOUS
<1>1. VenueUpTo(0) = << >>  BY DEF VenueUpTo
<1>2. Len(book) = 0 /\ published = 0 /\ book = << >>  BY DEF RecoveryInit
<1>3. RecoveryTypeOK  BY RecoveryAssumption DEF RecoveryInit, RecoveryTypeOK
<1> QED  BY <1>1, <1>2, <1>3 DEF RecoveryInit, RecoveryInv, LiveIsComplete, BufferIsComplete

(* The inductive invariant holds in every reachable state.                 *)
THEOREM RecoveryInvariance == RecoverySpec => []RecoveryInv
BY RecoveryInitially, RecoveryStep, PTL DEF RecoverySpec

(* The book is at all times a prefix of the venue's history, for every     *)
(* buffer capacity and every loss, repetition and reordering.              *)
THEOREM BookPrefix == RecoverySpec => []BookIsVenuePrefix
<1>1. RecoveryInv => BookIsVenuePrefix
  <2> SUFFICES ASSUME RecoveryInv PROVE BookIsVenuePrefix
    OBVIOUS
  <2>1. Len(book) \in 0 .. published /\ book = VenueUpTo(Len(book))
    BY DEF RecoveryInv, RecoveryTypeOK
  <2> QED  BY <2>1 DEF RecoveryInv, BookIsVenuePrefix
<1> QED  BY <1>1, RecoveryInvariance, PTL

(* In Live nothing that was delivered since the snapshot began is missing. *)
THEOREM LiveCompleteness == RecoverySpec => []LiveIsComplete
<1>1. RecoveryInv => LiveIsComplete  BY DEF RecoveryInv
<1> QED  BY <1>1, RecoveryInvariance, PTL

(* The state machine keeps its types, for any buffer and any delivery.     *)
THEOREM RecoveryTypeCorrect == RecoverySpec => []RecoveryTypeOK
<1>1. RecoveryInv => RecoveryTypeOK  BY DEF RecoveryInv
<1> QED  BY <1>1, RecoveryInvariance, PTL

(* While a snapshot loads, whatever on_incremental has heard is in it or   *)
(* in the replay buffer.                                                   *)
THEOREM BufferCompleteness == RecoverySpec => []BufferIsComplete
<1>1. RecoveryInv => BufferIsComplete  BY DEF RecoveryInv
<1> QED  BY <1>1, RecoveryInvariance, PTL

(* A scan that fails has met a number beyond one that is missing.          *)
LEMMA GapIsReal ==
    ASSUME RecoveryInv, FinishGap
    PROVE  \E missing \in 1 .. published :
              /\ missing > snapshot_last /\ missing \notin Range(replay)
              /\ \E later \in Range(replay) : later > missing
<1> DEFINE Absent == {n \in Nat : n > snapshot_last /\ n \notin Range(replay)}
<1>1. /\ snapshot_last \in Nat /\ published \in Nat /\ snapshot_last <= published
      /\ \A n \in Range(replay) : n \in 1 .. published /\ n > snapshot_last
      /\ \A last \in snapshot_last .. published : Range(replay) # snapshot_last + 1 .. last
  BY DEF RecoveryInv, RecoveryTypeOK, BufferIsComplete, FinishGap, ContiguousTo
<1>2. published + 1 \in Absent  BY <1>1
<1>3. PICK m \in Absent : \A n \in Absent : ~(<<n, m>> \in OpToRel(<, Nat))
  <2>1. Absent \subseteq Nat /\ Absent # {}  BY <1>2
  <2> HIDE DEF Absent
  <2> QED  BY <2>1, NatLessThanWellFounded, WFMin, Zenon
<1>4. m \in Nat /\ m > snapshot_last /\ m \notin Range(replay)  OBVIOUS
<1>5. ASSUME NEW n \in Absent  PROVE m <= n
  <2> SUFFICES ASSUME n < m PROVE FALSE  BY <1>4
  <2>1. <<n, m>> \in OpToRel(<, Nat)  BY <1>4 DEF OpToRel
  <2> QED  BY <1>3, <2>1, Zenon
<1>6. m - 1 \in snapshot_last .. published  BY <1>1, <1>2, <1>4, <1>5
<1>7. snapshot_last + 1 .. m - 1 \subseteq Range(replay)
  <2> SUFFICES ASSUME NEW n \in snapshot_last + 1 .. m - 1, n \notin Range(replay) PROVE FALSE
    OBVIOUS
  <2>1. n \in Absent /\ n < m  BY <1>1, <1>4
  <2> QED  BY <1>4, <1>5, <2>1
<1>8. PICK later \in Range(replay) : later \notin snapshot_last + 1 .. m - 1
  BY <1>1, <1>6, <1>7
<1>9. later > m /\ m \in 1 .. published  BY <1>1, <1>4, <1>8
<1> QED  BY <1>4, <1>9

(* The gap detector raises no false alarm: for every buffer and every      *)
(* delivery, a book is given up only if the buffer is full or an event is  *)
(* missing that neither on_incremental nor finish_snapshot was given.      *)
THEOREM NoFalseAlarm == RecoverySpec => NoFalseGap
<1> DEFINE Reason == \/ state = "Snapshotting" /\ Len(replay') = ReplayCapacity
                     \/ \E missing \in 1 .. published :
                           /\ missing \notin Range(book) \cup heard'
                           /\ \E later \in heard' : later > missing
           Excused == state # "AwaitingSnapshot" /\ state' = "AwaitingSnapshot" => Reason
<1>1. ASSUME RecoveryInv, RecoveryNext PROVE Excused
  <2> SUFFICES ASSUME state # "AwaitingSnapshot", state' = "AwaitingSnapshot" PROVE Reason
    OBVIOUS
  <2>1. /\ Len(book) \in Nat /\ Range(book) = 1 .. Len(book)
        /\ snapshot_last \in Nat /\ published \in Nat /\ expected \in Nat /\ heard \subseteq 1 .. published
    <3>1. RecoveryTypeOK /\ book = VenueUpTo(Len(book))  BY <1>1 DEF RecoveryInv
    <3>2. Len(book) \in Nat  BY <3>1 DEF RecoveryTypeOK
    <3>3. Range(VenueUpTo(Len(book))) = 1 .. Len(book)  BY <3>2, PrefixFacts
    <3> QED  BY <3>1, <3>2, <3>3 DEF RecoveryTypeOK
  <2>2. ASSUME NEW sequence \in 1 .. published, Gap(sequence), heard' = heard \cup {sequence}
        PROVE  Reason
    <3>1. state = "Live" /\ sequence > expected  BY <2>2 DEF Gap
    <3>2. expected = Len(book) + 1 /\ heard \subseteq Range(book)
      BY <1>1, <3>1 DEF RecoveryInv, LiveIsComplete
    <3>3. expected \in 1 .. published /\ expected \notin Range(book) \cup heard'
      BY <2>1, <2>2, <3>1, <3>2
    <3> QED  BY <2>2, <3>1, <3>3
  <2>3. ASSUME NEW sequence \in 1 .. published, BufferFull(sequence) PROVE Reason
    BY <2>3 DEF BufferFull
  <2>4. CASE FinishGap
    <3>1. PICK missing \in 1 .. published :
             /\ missing > snapshot_last /\ missing \notin Range(replay)
             /\ \E later \in Range(replay) : later > missing
      BY <1>1, <2>4, GapIsReal
    <3>2. /\ heard' = heard /\ snapshot_last = Len(book) /\ Range(replay) \subseteq heard
          /\ heard \subseteq 1 .. snapshot_last \cup Range(replay)
      BY <1>1, <2>4 DEF FinishGap, RecoveryInv, BufferIsComplete
    <3>3. missing \notin Range(book) \cup heard'  BY <2>1, <3>1, <3>2
    <3> QED  BY <3>1, <3>2, <3>3
  <2> QED
    BY <1>1, <2>2, <2>3, <2>4 DEF RecoveryNext, VenuePublishes, on_incremental, Awaiting, Stale,
       Buffered, Apply, begin_snapshot, finish_snapshot, FinishContiguous
<1>2. RecoveryInv /\ [RecoveryNext]_recoveryVars => [Excused]_recoveryVars  BY <1>1
<1> QED  BY <1>2, RecoveryInvariance, PTL DEF RecoverySpec, NoFalseGap
=============================================================================
