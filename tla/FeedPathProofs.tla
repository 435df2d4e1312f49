---------------------------- MODULE FeedPathProofs ----------------------------
(***************************************************************************)
(* The components that hand market data from one thread to another: the    *)
(* ring between the socket thread and its consumer, and the cell that      *)
(* publishes the best prices.  Each is proved by itself, for every value   *)
(* of its constants; they share no state.                                  *)
(***************************************************************************)
EXTENDS RawFrameQueue, BboSnapshot, SequenceTheorems, TLAPS

-----------------------------------------------------------------------------
(* The SPSC ring: any number of slots, any frames, any payload sizes.      *)

(* Taking a record apart and putting one together.                         *)
LEMMA RecordParts ==
  \A x \in Records : /\ x.header \in 0 .. MaxFrames
                     /\ x.size \in Nat
                     /\ x.payload \in 0 .. MaxFrames
                     /\ x = [header |-> x.header, size |-> x.size,
                             payload |-> x.payload]
BY DEF Records

(* Putting a record of a slot together from its parts.                     *)
LEMMA RecordMake ==
  \A h \in 0 .. MaxFrames, n \in Nat, p \in 0 .. MaxFrames :
    [header |-> h, size |-> n, payload |-> p] \in Records
BY DEF Records

(* The ring, the views and the threads' locals keep their types.           *)
THEOREM QueueTypeCorrect == QueueSpec => []QueueTypeOK
<1> USE QueueAssumption DEF QueueTypeOK, Indices, Frames
<1>1. QueueInit => QueueTypeOK
  BY DEF QueueInit, Blank, Records
<1>2. QueueTypeOK /\ [QueueNext]_queueVars => QueueTypeOK'
  <2> SUFFICES ASSUME QueueTypeOK, [QueueNext]_queueVars PROVE QueueTypeOK'
    OBVIOUS
  <2> USE DEF producerVars, consumerVars, ringUnchanged, increment
  <2>1. CASE ReadIndexVisible BY <2>1 DEF ReadIndexVisible
  <2>2. CASE WriteIndexVisible BY <2>2 DEF WriteIndexVisible
  <2>3. CASE PushTooLarge BY <2>3 DEF PushTooLarge
  <2>4. CASE PushFull BY <2>4 DEF PushFull
  <2>5. CASE PushReserve BY <2>5 DEF PushReserve
  <2>6. CASE PushHeader
    <3>1. frame \in 0 .. MaxFrames /\ SizeOf[frame] \in Nat
      BY <2>6 DEF PushHeader
    <3>2. [header |-> frame, size |-> SizeOf[frame],
           payload |-> slots[write_index].payload] \in Records
      BY <3>1, RecordParts, RecordMake
    <3> QED
      BY <2>6, <3>2 DEF PushHeader
  <2>7. CASE PushPayload
    <3>1. frame \in 0 .. MaxFrames
      BY <2>7 DEF PushPayload
    <3>2. [header |-> slots[write_index].header, size |-> slots[write_index].size,
           payload |-> frame] \in Records
      BY <3>1, RecordParts, RecordMake, Zenon
    <3> QED
      BY <2>7, <3>2 DEF PushPayload
  <2>8. CASE PushPublish BY <2>8 DEF PushPublish
  <2>9. CASE PopReserve BY <2>9 DEF PopReserve
  <2>10. CASE PopHeader
    <3>1. [header |-> slots[read_index].header, size |-> out.size,
           payload |-> out.payload] \in Records
      BY RecordParts, RecordMake, Zenon
    <3> QED
      BY <2>10, <3>1 DEF PopHeader
  <2>11. CASE PopPayload
    <3>1. [header |-> out.header, size |-> slots[read_index].size,
           payload |-> slots[read_index].payload] \in Records
      BY RecordParts, RecordMake, Zenon
    <3> QED
      BY <2>11, <3>1 DEF PopPayload
  <2>12. CASE PopRelease BY <2>12 DEF PopRelease
  <2>13. CASE UNCHANGED queueVars BY <2>13 DEF queueVars
  <2> HIDE DEF QueueTypeOK
  <2> QED
    BY <2>1, <2>2, <2>3, <2>4, <2>5, <2>6, <2>7, <2>8, <2>9, <2>10, <2>11,
       <2>12, <2>13 DEF QueueNext, Producer, Consumer, PopEmpty, PopNoRoom
<1> QED
  BY <1>1, <1>2, PTL DEF QueueSpec

(* The order of the indices and of the views is preserved by every step.   *)
LEMMA IndexStep == QueueTypeOK /\ QueueTypeOK' /\ IndexOrder /\ [QueueNext]_queueVars => IndexOrder'
<1> SUFFICES ASSUME QueueTypeOK, QueueTypeOK', IndexOrder, [QueueNext]_queueVars PROVE IndexOrder'
  OBVIOUS
<1> USE QueueAssumption
    DEF QueueTypeOK, IndexOrder, Indices, Occupied, Distance, increment,
        producerVars, consumerVars, ringUnchanged
<1>1. CASE ReadIndexVisible BY <1>1 DEF ReadIndexVisible
<1>2. CASE WriteIndexVisible BY <1>2 DEF WriteIndexVisible
<1>3. CASE PushTooLarge BY <1>3 DEF PushTooLarge
<1>4. CASE PushFull BY <1>4 DEF PushFull
<1>5. CASE PushReserve BY <1>5 DEF PushReserve
<1>6. CASE PushHeader BY <1>6 DEF PushHeader
<1>7. CASE PushPayload BY <1>7 DEF PushPayload
<1>8. CASE PushPublish BY <1>8 DEF PushPublish
<1>9. CASE PopReserve BY <1>9 DEF PopReserve
<1>10. CASE PopHeader BY <1>10 DEF PopHeader
<1>11. CASE PopPayload BY <1>11 DEF PopPayload
<1>12. CASE PopRelease BY <1>12 DEF PopRelease
<1>13. CASE UNCHANGED queueVars BY <1>13 DEF queueVars
<1> QED
  BY <1>1, <1>2, <1>3, <1>4, <1>5, <1>6, <1>7, <1>8, <1>9, <1>10, <1>11,
     <1>12, <1>13, Zenon DEF QueueNext, Producer, Consumer, PopEmpty, PopNoRoom

(* While a pop is in progress the ring is not empty.                       *)
LEMMA PoppingNotEmpty ==
  QueueTypeOK /\ IndexOrder /\ cpc # "idle" => /\ read_index # write_index
                                         /\ Occupied > 0
BY QueueAssumption DEF QueueTypeOK, IndexOrder, Indices, Occupied, Distance

(* Only the slot at write_index is ever written, and it is not queued.     *)
LEMMA WrittenNotQueued ==
  QueueTypeOK =>
    \A i \in Indices : Distance(read_index, i) < Occupied => i # write_index
BY QueueAssumption DEF QueueTypeOK, Indices, Distance, Occupied

(* The slots between the indices stay whole.                               *)
LEMMA WholeStep ==
  QueueTypeOK /\ QueueTypeOK' /\ RingInv /\ [QueueNext]_queueVars => QueuedWhole'
<1> SUFFICES ASSUME QueueTypeOK, QueueTypeOK', RingInv, [QueueNext]_queueVars,
                    NEW i \in Indices,
                    Distance(read_index', i) < Occupied'
             PROVE  \E f \in Frames : slots'[i] = Whole(f)
  BY DEF QueuedWhole, Indices, Distance, Whole
<1> USE DEF RingInv
<1>1. CASE slots' = slots /\ read_index' = read_index /\ write_index' = write_index
  BY <1>1 DEF QueuedWhole, Occupied, Distance
<1>2. CASE PushHeader \/ PushPayload
  <2>1. read_index' = read_index /\ write_index' = write_index
    BY <1>2 DEF PushHeader, PushPayload
  <2>2. Distance(read_index, i) < Occupied
    BY <2>1 DEF Occupied, Distance
  <2>3. slots'[i] = slots[i]
    BY <1>2, <2>2, WrittenNotQueued DEF PushHeader, PushPayload, QueueTypeOK
  <2> QED
    BY <2>2, <2>3 DEF QueuedWhole
<1>3. CASE PushPublish
  <2>1. slots' = slots /\ read_index' = read_index
        /\ write_index' = increment(write_index)
    BY <1>3 DEF PushPublish
  <2>2. Distance(read_index, i) < Occupied \/ i = write_index
    BY <1>3, <2>1, QueueAssumption
       DEF PushPublish, QueueTypeOK, IndexOrder, Indices, Occupied, Distance, increment
  <2>3. slots[write_index] = Whole(frame) /\ frame \in Frames
    BY <1>3, RecordParts, Zenon DEF PushPublish, QueueTypeOK, Copied, Whole
  <2> QED
    BY <2>1, <2>2, <2>3 DEF QueuedWhole
<1>4. CASE PopRelease
  <2>1. slots' = slots /\ write_index' = write_index
        /\ read_index' = increment(read_index)
    BY <1>4 DEF PopRelease
  <2>2. Occupied > 0 /\ read_index # write_index
    BY <1>4, PoppingNotEmpty DEF PopRelease
  <2>3. Distance(read_index, i) < Occupied
    BY <2>1, <2>2, QueueAssumption
       DEF QueueTypeOK, IndexOrder, Indices, Occupied, Distance, increment
  <2> QED
    BY <2>1, <2>3 DEF QueuedWhole
<1> QED
  BY <1>1, <1>2, <1>3, <1>4
     DEF QueueNext, Producer, Consumer, PopEmpty, PopNoRoom, queueVars, ringUnchanged,
         ReadIndexVisible, WriteIndexVisible, PushTooLarge, PushFull,
         PushReserve, PopReserve, PopHeader, PopPayload

(* What a push has stored and a pop has copied stays the right thing.      *)
LEMMA CopyStep == QueueTypeOK /\ QueueTypeOK' /\ RingInv /\ [QueueNext]_queueVars => Copied'
<1> SUFFICES ASSUME QueueTypeOK, QueueTypeOK', RingInv, [QueueNext]_queueVars PROVE Copied'
  OBVIOUS
<1> USE QueueAssumption
    DEF RingInv, QueueTypeOK, Copied, producerVars, consumerVars, ringUnchanged
<1>0. cpc # "idle" => read_index # write_index
  BY PoppingNotEmpty
<1>1. CASE ReadIndexVisible BY <1>1 DEF ReadIndexVisible
<1>2. CASE WriteIndexVisible BY <1>2 DEF WriteIndexVisible
<1>3. CASE PushTooLarge BY <1>3 DEF PushTooLarge
<1>4. CASE PushFull BY <1>4 DEF PushFull
<1>5. CASE PushReserve BY <1>5 DEF PushReserve
<1>6. CASE PushHeader BY <1>0, <1>6 DEF PushHeader
<1>7. CASE PushPayload BY <1>0, <1>7 DEF PushPayload
<1>8. CASE PushPublish BY <1>8 DEF PushPublish
<1>9. CASE PopReserve BY <1>9 DEF PopReserve
<1>10. CASE PopHeader BY <1>10 DEF PopHeader
<1>11. CASE PopPayload
  <2>1. slots[read_index] = [header |-> slots[read_index].header,
                             size |-> slots[read_index].size,
                             payload |-> slots[read_index].payload]
    BY RecordParts
  <2> QED
    BY <1>11, <2>1 DEF PopPayload
<1>12. CASE PopRelease BY <1>12 DEF PopRelease
<1>13. CASE UNCHANGED queueVars BY <1>13 DEF queueVars
<1> QED
  BY <1>1, <1>2, <1>3, <1>4, <1>5, <1>6, <1>7, <1>8, <1>9, <1>10, <1>11,
     <1>12, <1>13 DEF QueueNext, Producer, Consumer, PopEmpty, PopNoRoom

(* The ring invariant holds in every state, for any number of slots.       *)
THEOREM RingInvariance == QueueSpec => []RingInv
<1>1. QueueInit => RingInv
  BY QueueAssumption
     DEF QueueInit, RingInv, IndexOrder, QueuedWhole, Copied, Occupied, Distance, Indices
<1>2. QueueTypeOK /\ QueueTypeOK' /\ RingInv /\ [QueueNext]_queueVars => RingInv'
  BY IndexStep, WholeStep, CopyStep DEF RingInv
<1> QED
  BY <1>1, <1>2, QueueTypeCorrect, PTL DEF QueueSpec

(* The threads' plain accesses to a slot never race, for any ring size and *)
(* however stale the indices are that they see.                            *)
THEOREM RaceFreedom == QueueSpec => []NoSlotRace
<1>1. QueueTypeOK /\ RingInv => NoSlotRace
  BY PoppingNotEmpty DEF RingInv, NoSlotRace
<1> QED
  BY <1>1, QueueTypeCorrect, RingInvariance, PTL

(* The queued records form a sequence of length Occupied.                  *)
ContentsOK == /\ Contents \in Seq(Records)
              /\ Len(Contents) = Occupied
              /\ Occupied \in 0 .. SlotCount - 1
              /\ \A k \in 1 .. Occupied : Contents[k] = slots[Nth(k)]

(* The queued records form a sequence of whole slots of that length.       *)
LEMMA ContentsSeq == QueueTypeOK => ContentsOK
<1> SUFFICES ASSUME QueueTypeOK PROVE ContentsOK
  OBVIOUS
<1>1. Occupied \in 0 .. SlotCount - 1
  BY QueueAssumption DEF QueueTypeOK, Indices, Occupied, Distance
<1>2. \A k \in 1 .. Occupied : Nth(k) \in Indices
  BY <1>1, QueueAssumption DEF QueueTypeOK, Indices, Nth
<1>3. Contents \in [1 .. Occupied -> Records]
  BY <1>2 DEF QueueTypeOK, Contents
<1>4. Contents \in Seq(Records)
  BY <1>1, <1>3, SeqDef
<1>5. Len(Contents) = Occupied
  BY <1>1, <1>3, <1>4, LenProperties
<1> QED
  BY <1>1, <1>4, <1>5 DEF Contents, ContentsOK

(* The k-th queued slot is an occupied one, the first is at read_index.    *)
LEMMA NthOccupied ==
  QueueTypeOK => /\ \A k \in 1 .. Occupied :
                      Nth(k) \in Indices /\ Distance(read_index, Nth(k)) < Occupied
                 /\ Nth(1) = read_index
BY QueueAssumption DEF QueueTypeOK, Indices, Nth, Occupied, Distance

(* Filling the slot at write_index does not touch what is queued.          *)
LEMMA FillKeepsContents ==
  QueueTypeOK /\ QueueTypeOK' /\ (PushHeader \/ PushPayload) => Contents' = Contents
<1> SUFFICES ASSUME QueueTypeOK, QueueTypeOK', PushHeader \/ PushPayload
             PROVE  Contents' = Contents
  OBVIOUS
<1>1. read_index' = read_index /\ write_index' = write_index
  BY DEF PushHeader, PushPayload
<1>2. Occupied' = Occupied /\ \A k \in 1 .. Occupied : Nth(k)' = Nth(k)
  BY <1>1 DEF Occupied, Distance, Nth
<1>3. \A k \in 1 .. Occupied : slots'[Nth(k)] = slots[Nth(k)]
  BY NthOccupied, WrittenNotQueued DEF PushHeader, PushPayload, QueueTypeOK
<1> QED
  BY <1>2, <1>3 DEF Contents

(* Publishing write_index appends the frame to what is queued.             *)
LEMMA PublishEnqueues ==
  QueueTypeOK /\ QueueTypeOK' /\ RingInv /\ PushPublish =>
    /\ frame \in Frames
    /\ Len(Contents) < SlotCount - 1
    /\ Contents' = Append(Contents, Whole(frame))
<1> SUFFICES ASSUME QueueTypeOK, QueueTypeOK', RingInv, PushPublish
             PROVE  /\ frame \in Frames
                    /\ Len(Contents) < SlotCount - 1
                    /\ Contents' = Append(Contents, Whole(frame))
  OBVIOUS
<1>1. slots[write_index] = Whole(frame) /\ frame \in Frames
  BY RecordParts, Zenon DEF PushPublish, QueueTypeOK, RingInv, Copied, Whole
<1>2. Occupied' = Occupied + 1 /\ Occupied < SlotCount - 1
  BY QueueAssumption
     DEF PushPublish, QueueTypeOK, RingInv, IndexOrder, Indices, Occupied, Distance,
         increment
<1>3. \A k \in 1 .. Occupied + 1 : Nth(k)' = Nth(k)
  BY DEF PushPublish, Nth
<1>4. Nth(Occupied + 1) = write_index
  BY QueueAssumption DEF QueueTypeOK, Indices, Nth, Occupied, Distance
<1>5. /\ Contents \in Seq(Records) /\ Len(Contents) = Occupied
      /\ Occupied \in Nat
      /\ \A k \in 1 .. Occupied : Contents[k] = slots[Nth(k)]
  BY ContentsSeq, QueueAssumption DEF ContentsOK
<1>6. /\ Contents' \in Seq(Records) /\ Len(Contents') = Occupied + 1
      /\ \A k \in 1 .. Occupied + 1 : Contents'[k] = slots[Nth(k)]
  <2>1. ContentsOK'
    BY ContentsSeq, PTL
  <2> QED
    BY <2>1, <1>2, <1>3 DEF PushPublish, ContentsOK
<1>7. Whole(frame) \in Records
  BY <1>1 DEF QueueTypeOK
<1> DEFINE app == Append(Contents, Whole(frame))
<1>8. /\ app \in Seq(Records) /\ Len(app) = Occupied + 1
      /\ \A k \in 1 .. Occupied : app[k] = Contents[k]
      /\ app[Occupied + 1] = Whole(frame)
  BY <1>5, <1>7, AppendProperties
<1>9. \A k \in 1 .. Occupied + 1 : Contents'[k] = app[k]
  BY <1>1, <1>4, <1>5, <1>6, <1>8
<1>10. Contents' = app
  BY ONLY <1>6, <1>8, <1>9, SeqEqual
<1> QED
  BY <1>1, <1>2, <1>5, <1>10

(* Publishing read_index takes the head off what is queued, and the record *)
(* handed to the caller is that head.                                      *)
LEMMA ReleaseDequeues ==
  QueueTypeOK /\ QueueTypeOK' /\ RingInv /\ PopRelease =>
    /\ Contents # << >>
    /\ out = Head(Contents)
    /\ Contents' = Tail(Contents)
<1> SUFFICES ASSUME QueueTypeOK, QueueTypeOK', RingInv, PopRelease
             PROVE  /\ Contents # << >>
                    /\ out = Head(Contents)
                    /\ Contents' = Tail(Contents)
  OBVIOUS
<1>1. read_index # write_index /\ Occupied > 0
  BY PoppingNotEmpty DEF PopRelease, RingInv
<1>2. Occupied' = Occupied - 1
  BY <1>1, QueueAssumption
     DEF PopRelease, QueueTypeOK, Indices, Occupied, Distance, increment
<1>3. \A k \in 1 .. Occupied - 1 : Nth(k)' = Nth(k + 1)
  BY <1>1, QueueAssumption
     DEF PopRelease, QueueTypeOK, Indices, Occupied, Distance, increment, Nth
<1>4. /\ Contents \in Seq(Records) /\ Len(Contents) = Occupied
      /\ Occupied \in Nat
      /\ \A k \in 1 .. Occupied : Contents[k] = slots[Nth(k)]
  BY ContentsSeq, QueueAssumption DEF ContentsOK
<1>5. /\ Contents' \in Seq(Records) /\ Len(Contents') = Occupied - 1
      /\ \A k \in 1 .. Occupied - 1 : Contents'[k] = slots[Nth(k + 1)]
  <2>1. ContentsOK'
    BY ContentsSeq, PTL
  <2> QED
    BY <2>1, <1>2, <1>3 DEF PopRelease, ContentsOK
<1>6. Contents # << >>
  BY <1>1, <1>4, EmptySeq
<1>7. /\ Tail(Contents) \in Seq(Records)
      /\ Len(Tail(Contents)) = Occupied - 1
      /\ \A k \in 1 .. Occupied - 1 : Tail(Contents)[k] = Contents[k + 1]
  BY <1>4, <1>6, HeadTailProperties
<1>8. \A k \in 1 .. Occupied - 1 : Contents'[k] = Tail(Contents)[k]
  BY <1>4, <1>5, <1>7
<1>9. Contents' = Tail(Contents)
  BY ONLY <1>5, <1>7, <1>8, SeqEqual
<1>10. out = Head(Contents)
  <2>1. out = slots[read_index]
    BY DEF PopRelease, RingInv, Copied
  <2>2. Contents[1] = slots[read_index]
    BY <1>1, <1>4, NthOccupied
  <2> QED
    BY <2>1, <2>2, <1>4, <1>6
<1> QED
  BY <1>6, <1>9, <1>10

(* The ring implements a bounded FIFO of SlotCount - 1 frames: nothing is  *)
(* lost, duplicated, reordered or torn between try_push and try_pop_into.  *)
THEOREM ImplementsFifo == QueueSpec => FifoSpec
<1>1. QueueInit => Fifo!Init
  <2> SUFFICES ASSUME QueueInit PROVE Contents = << >>
    BY DEF QueueInit, Fifo!Init
  <2>1. QueueTypeOK
    BY QueueAssumption DEF QueueInit, QueueTypeOK, Indices, Blank, Records, Frames
  <2>2. Occupied = 0
    BY DEF QueueInit, Occupied, Distance
  <2> QED
    BY <2>1, <2>2, ContentsSeq, EmptySeq DEF ContentsOK
<1>2. QueueTypeOK /\ QueueTypeOK' /\ RingInv /\ [QueueNext]_queueVars => [Fifo!Next]_(Fifo!fifoVars)
  <2> SUFFICES ASSUME QueueTypeOK, QueueTypeOK', RingInv, [QueueNext]_queueVars
               PROVE  Fifo!Next \/ UNCHANGED Fifo!fifoVars
    OBVIOUS
  <2> USE DEF Fifo!fifoVars, consumerVars
  <2>1. CASE /\ UNCHANGED <<slots, read_index, write_index, delivered>>
    BY <2>1 DEF Contents, Occupied, Distance, Nth
  <2>2. CASE PushHeader \/ PushPayload
    BY <2>2, FillKeepsContents DEF PushHeader, PushPayload
  <2>3. CASE PushPublish
    <3>1. Fifo!Enqueue(Whole(frame)) /\ frame \in Frames
      BY <2>3, PublishEnqueues DEF PushPublish, Fifo!Enqueue
    <3> QED
      BY <3>1 DEF Fifo!Next
  <2>4. CASE PopRelease
    <3>1. Fifo!Dequeue
      BY <2>4, ReleaseDequeues DEF PopRelease, Fifo!Dequeue
    <3> QED
      BY <3>1 DEF Fifo!Next
  <2> QED
    BY <2>1, <2>2, <2>3, <2>4
       DEF QueueNext, Producer, Consumer, PopEmpty, PopNoRoom, queueVars, ringUnchanged,
           ReadIndexVisible, WriteIndexVisible, PushTooLarge, PushFull,
           PushReserve, PopReserve, PopHeader, PopPayload
<1> QED
  BY <1>1, <1>2, QueueTypeCorrect, RingInvariance, PTL DEF QueueSpec, FifoSpec, Fifo!Spec

-----------------------------------------------------------------------------
(* The seqlock cell: any fields, readers and snapshots.                    *)

(* The words and the threads' locals keep their types in every step of     *)
(* publish() and try_read().                                               *)
THEOREM BboTypeCorrect == BboSpec => []BboTypeOK
<1> USE SnapshotsAssumption, VersionAssumption DEF BboTypeOK
<1>1. BboInit => BboTypeOK
  BY DEF BboInit, ZeroSnapshot
<1>2. BboTypeOK /\ [BboNext]_bboVars => BboTypeOK'
  <2> SUFFICES ASSUME BboTypeOK, [BboNext]_bboVars PROVE BboTypeOK'
    OBVIOUS
  <2>1. ASSUME NEW s \in Snapshots, FetchAddVersion(s) PROVE BboTypeOK'
    BY <2>1 DEF FetchAddVersion, readerVars, Wrap
  <2>2. ASSUME NEW f \in Fields, StoreField(f) PROVE BboTypeOK'
    BY <2>2 DEF StoreField, readerVars
  <2>3. CASE StoreVersion
    BY <2>3 DEF StoreVersion, readerVars, Wrap
  <2>4. ASSUME NEW r \in Readers, LoadBefore(r) PROVE BboTypeOK'
    BY <2>4, Zenon DEF LoadBefore, writerVars
  <2>5. ASSUME NEW r \in Readers, NEW f \in Fields, LoadField(r, f) PROVE BboTypeOK'
    BY <2>5 DEF LoadField, writerVars
  <2>6. ASSUME NEW r \in Readers, LoadAfter(r) PROVE BboTypeOK'
    BY <2>6 DEF LoadAfter, writerVars
  <2>7. CASE UNCHANGED bboVars
    BY <2>7 DEF bboVars, writerVars, readerVars
  <2> HIDE DEF BboTypeOK
  <2> QED
    BY <2>1, <2>2, <2>3, <2>4, <2>5, <2>6, <2>7 DEF BboNext, Writer, Reader
<1> QED
  BY <1>1, <1>2, PTL DEF BboSpec

(* The version a publication in progress shows is odd.                     *)
LEMMA OddVersion == \A p \in Nat : Odd(2 * p - 1)
BY DEF Odd

(* One step of the writer or of a reader preserves the seqlock invariant.  *)
LEMMA SeqlockStep == BboTypeOK /\ BboTypeOK' /\ SeqlockInv /\ [BboNext]_bboVars => SeqlockInv'
<1> SUFFICES ASSUME BboTypeOK, BboTypeOK', SeqlockInv, [BboNext]_bboVars PROVE SeqlockInv'
  OBVIOUS
<1> USE SnapshotsAssumption, VersionAssumption DEF BboTypeOK, SeqlockInv
<1>1. ASSUME NEW s \in Snapshots, FetchAddVersion(s) PROVE SeqlockInv'
  BY <1>1 DEF FetchAddVersion, readerVars, Wrap
<1>2. ASSUME NEW f \in Fields, StoreField(f) PROVE SeqlockInv'
  BY <1>2 DEF StoreField, readerVars
<1>3. CASE StoreVersion
  BY <1>3 DEF StoreVersion, readerVars, Wrap
<1>4. ASSUME NEW r \in Readers, LoadBefore(r) PROVE SeqlockInv'
  BY <1>4 DEF LoadBefore, writerVars
<1>5. ASSUME NEW r \in Readers, NEW f \in Fields, LoadField(r, f) PROVE SeqlockInv'
  <2>1. before[r] = version => wpc = "idle" /\ cell = current
    <3>1. wpc = "storing" => Odd(version)
      <4>1. publications \in Nat
        OBVIOUS
      <4>2. Odd(2 * publications - 1)
        BY ONLY <4>1, OddVersion
      <4> QED
        BY <4>2
    <3>2. ~Odd(before[r])
      BY <1>5 DEF LoadField
    <3> QED
      BY <3>1, <3>2
  <2> HIDE DEF BboTypeOK, SeqlockInv
  <2>2. /\ got \in [Readers -> [Fields -> Values]] /\ left \in [Readers -> SUBSET Fields]
        /\ got[r] \in [Fields -> Values]
    BY DEF BboTypeOK
  <2>3. /\ got'[r] = [got[r] EXCEPT ![f] = cell[f]]
        /\ \A q \in Readers \ {r} : got'[q] = got[q]
        /\ left'[r] = left[r] \ {f}
        /\ \A q \in Readers \ {r} : left'[q] = left[q]
    BY <1>5, <2>2 DEF LoadField
  <2>4. /\ rpc[r] = "loading"
        /\ UNCHANGED <<version, cell, wpc, starting, snapshot, todo, current, publications,
                       before, rpc>>
    BY <1>5 DEF LoadField, writerVars
  <2>5. ASSUME before[r] = version, NEW g \in Fields \ left'[r]
        PROVE  got'[r][g] = current[g]
    <3>1. CASE g = f  BY <2>1, <2>2, <2>3, <2>5, <3>1
    <3>2. CASE g # f
      <4>1. g \in Fields \ left[r] /\ got'[r][g] = got[r][g]  BY <2>2, <2>3, <2>5, <3>2
      <4>2. got[r][g] = current[g]  BY <2>4, <2>5, <4>1 DEF SeqlockInv
      <4> QED  BY <4>1, <4>2
    <3> QED  BY <3>1, <3>2
  <2>6. ASSUME NEW q \in Readers, rpc'[q] = "loading"
        PROVE  /\ before'[q] <= version' /\ ~Odd(before'[q])
               /\ before'[q] = version' =>
                    \A g \in Fields \ left'[q] : got'[q][g] = current'[g]
    <3>1. /\ rpc[q] = "loading" /\ before[q] <= version /\ ~Odd(before[q])
          /\ before[q] = version => \A g \in Fields \ left[q] : got[q][g] = current[g]
      BY <2>4, <2>6 DEF SeqlockInv
    <3>2. CASE q = r  BY <2>4, <2>5, <3>1, <3>2
    <3>3. CASE q # r  BY <2>3, <2>4, <3>1, <3>3
    <3> QED  BY <3>2, <3>3
  <2>7. /\ wpc' = "idle" => version' = 2 * publications' /\ cell' = current'
        /\ wpc' = "storing" =>
             /\ version' = 2 * publications' - 1 /\ starting' = version' - 1
             /\ snapshot' \in Snapshots
             /\ \A g \in Fields : cell'[g] = IF g \in todo' THEN current'[g] ELSE snapshot'[g]
    BY <2>4 DEF SeqlockInv
  <2> QED  BY <2>6, <2>7 DEF SeqlockInv
<1>6. ASSUME NEW r \in Readers, LoadAfter(r) PROVE SeqlockInv'
  BY <1>6 DEF LoadAfter, writerVars
<1>7. CASE UNCHANGED bboVars
  BY <1>7 DEF bboVars, writerVars, readerVars
<1> QED
  BY <1>1, <1>2, <1>3, <1>4, <1>5, <1>6, <1>7, Zenon DEF BboNext, Writer, Reader

(* The version is even exactly between publications, and whatever a reader *)
(* has collected under an unchanged version belongs to one snapshot.       *)
THEOREM SeqlockInvariance == BboSpec => []SeqlockInv
<1>1. BboInit => SeqlockInv
  BY SnapshotsAssumption DEF BboInit, SeqlockInv, ZeroSnapshot
<1> QED
  BY <1>1, BboTypeCorrect, SeqlockStep, PTL DEF BboSpec

(* The cell implements an atomic register: the last store of publish() is  *)
(* the write, the second version load of an accepted try_read() the read,  *)
(* and every other step of either leaves the register alone.               *)
THEOREM ImplementsRegister == BboSpec => RegisterSpec
<1>1. BboInit => Register!Init
  BY DEF BboInit, Register!Init
<1>2. BboTypeOK /\ SeqlockInv /\ [BboNext]_bboVars => [Register!Next]_(Register!regVars)
  <2> SUFFICES ASSUME BboTypeOK, SeqlockInv, [BboNext]_bboVars
               PROVE  Register!Next \/ UNCHANGED Register!regVars
    OBVIOUS
  <2> USE DEF Register!regVars
  <2>1. ASSUME NEW s \in Snapshots, FetchAddVersion(s)
        PROVE  UNCHANGED Register!regVars
    BY <2>1 DEF FetchAddVersion, readerVars
  <2>2. ASSUME NEW f \in Fields, StoreField(f)
        PROVE  UNCHANGED Register!regVars
    BY <2>2 DEF StoreField, readerVars
  <2>3. CASE StoreVersion
    <3>1. Register!Publish(snapshot)
      BY <2>3 DEF StoreVersion, readerVars, Register!Publish
    <3>2. snapshot \in Snapshots
      BY <2>3 DEF StoreVersion, SeqlockInv
    <3> QED
      BY <3>1, <3>2 DEF Register!Next
  <2>4. ASSUME NEW r \in Readers, LoadBefore(r)
        PROVE  UNCHANGED Register!regVars
    BY <2>4 DEF LoadBefore, writerVars
  <2>5. ASSUME NEW r \in Readers, NEW f \in Fields, LoadField(r, f)
        PROVE  UNCHANGED Register!regVars
    BY <2>5 DEF LoadField, writerVars
  <2>6. ASSUME NEW r \in Readers, LoadAfter(r)
        PROVE  Register!Next \/ UNCHANGED Register!regVars
    <3>1. CASE version = before[r]
      <4>1. \A f \in Fields : got[r][f] = current[f]
        BY <2>6, <3>1 DEF LoadAfter, SeqlockInv
      <4>2. got[r] = current
        BY <4>1 DEF BboTypeOK
      <4>3. Register!Read(r)
        BY <2>6, <3>1, <4>2 DEF LoadAfter, writerVars, Register!Read
      <4> QED
        BY <4>3 DEF Register!Next
    <3>2. CASE version # before[r]
      BY <2>6, <3>2 DEF LoadAfter, writerVars, BboTypeOK
    <3> QED
      BY <3>1, <3>2
  <2>7. CASE UNCHANGED bboVars
    BY <2>7 DEF bboVars, writerVars, readerVars
  <2> QED
    BY <2>1, <2>2, <2>3, <2>4, <2>5, <2>6, <2>7 DEF BboNext, Writer, Reader
<1> QED
  BY <1>1, <1>2, BboTypeCorrect, SeqlockInvariance, PTL
     DEF BboSpec, RegisterSpec, Register!Spec
==============================================================================
