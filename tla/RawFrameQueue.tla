--------------------------- MODULE RawFrameQueue ---------------------------
(***************************************************************************)
(* RawFrameSpscQueue: the bounded ring between the thread that receives    *)
(* frames and the thread that writes them to the capture file.  One        *)
(* producer, one consumer, no lock; a slot belongs to the producer until   *)
(* write_index is published and to the consumer until read_index is.       *)
(*                                                                         *)
(* An acquire load may return a value that has been superseded: each side  *)
(* has its own view of the other side's index, which follows the index one *)
(* store at a time, and loads read the view.                               *)
(***************************************************************************)
EXTENDS Integers, Sequences

CONSTANTS SlotCount,       \* slots_.size()
          PayloadCapacity, \* payload_capacity_
          OutCapacities,   \* out.payload.capacity() of the records popped into
          MaxFrames,       \* bound: frames offered in one behaviour
          SizeOf           \* payload size of each frame

Frames == 1 .. MaxFrames

ASSUME QueueAssumption == /\ SlotCount \in Nat /\ SlotCount >= 2
                          /\ PayloadCapacity \in Nat \ {0}
                          /\ OutCapacities \subseteq Nat
                          /\ MaxFrames \in Nat
                          /\ SizeOf \in [Frames -> Nat]

VARIABLES
  slots, write_index, read_index, \* the shared ring
  producer_view, consumer_view,   \* read_index and write_index as last visible
  frame, ppc,                     \* producer: the frame it offers, its position
  out, cpc,                       \* consumer: the record it fills, its position
  delivered                       \* history: the records try_pop_into returned

producerVars == <<frame, ppc>>
consumerVars == <<out, cpc, delivered>>
queueVars == <<slots, write_index, read_index, producer_view, consumer_view,
               producerVars, consumerVars>>

Indices == 0 .. SlotCount - 1

(* A record that is one frame through and through.                         *)
Whole(f) == [header |-> f, size |-> SizeOf[f], payload |-> f]

Blank == [header |-> 0, size |-> 0, payload |-> 0]

(* Mutant: the index does not wrap.                                        *)
increment_NoWrap(i) == i + 1

increment(i) == IF i + 1 = SlotCount THEN 0 ELSE i + 1

Distance(from, to) == IF to >= from THEN to - from ELSE to - from + SlotCount

QueueInit == /\ slots = [i \in Indices |-> Blank]
             /\ write_index = 0 /\ read_index = 0
             /\ producer_view = 0 /\ consumer_view = 0
             /\ frame = 1 /\ ppc = "idle"
             /\ out = Blank /\ cpc = "idle"
             /\ delivered = << >>
-----------------------------------------------------------------------------
(* Visibility of the two indices, a property of the memory system.         *)
ReadIndexVisible ==
  /\ producer_view # read_index
  /\ producer_view' = increment(producer_view)
  /\ UNCHANGED <<slots, write_index, read_index, consumer_view,
                 producerVars, consumerVars>>

WriteIndexVisible ==
  /\ consumer_view # write_index
  /\ consumer_view' = increment(consumer_view)
  /\ UNCHANGED <<slots, write_index, read_index, producer_view,
                 producerVars, consumerVars>>
-----------------------------------------------------------------------------
(* try_push.  A refused frame is dropped by the caller; a caller that      *)
(* offers it again is the same state again.                                *)
ringUnchanged == UNCHANGED <<slots, write_index, read_index,
                             producer_view, consumer_view>>

PushTooLarge ==
  /\ ppc = "idle" /\ frame \in Frames
  /\ SizeOf[frame] > PayloadCapacity
  /\ frame' = frame + 1
  /\ ringUnchanged /\ UNCHANGED <<ppc, consumerVars>>

PushFull ==
  /\ ppc = "idle" /\ frame \in Frames
  /\ SizeOf[frame] <= PayloadCapacity
  /\ increment(write_index) = producer_view
  /\ frame' = frame + 1
  /\ ringUnchanged /\ UNCHANGED <<ppc, consumerVars>>

(* Mutant: a full ring is not noticed.                                     *)
PushReserve_Unchecked ==
  /\ ppc = "idle" /\ frame \in Frames
  /\ SizeOf[frame] <= PayloadCapacity
  /\ ppc' = "header"
  /\ ringUnchanged /\ UNCHANGED <<frame, consumerVars>>

PushReserve ==
  /\ ppc = "idle" /\ frame \in Frames
  /\ SizeOf[frame] <= PayloadCapacity
  /\ increment(write_index) # producer_view
  /\ ppc' = "header"
  /\ ringUnchanged /\ UNCHANGED <<frame, consumerVars>>

(* Mutant: the slot is published before its payload is copied.             *)
PushHeader_NoPayload ==
  /\ ppc = "header"
  /\ slots' = [slots EXCEPT ![write_index] =
                 [header |-> frame, size |-> SizeOf[frame], payload |-> @.payload]]
  /\ ppc' = "publish"
  /\ UNCHANGED <<write_index, read_index, producer_view, consumer_view,
                 frame, consumerVars>>

PushHeader ==
  /\ ppc = "header"
  /\ slots' = [slots EXCEPT ![write_index] =
                 [header |-> frame, size |-> SizeOf[frame], payload |-> @.payload]]
  /\ ppc' = "payload"
  /\ UNCHANGED <<write_index, read_index, producer_view, consumer_view,
                 frame, consumerVars>>

PushPayload ==
  /\ ppc = "payload"
  /\ slots' = [slots EXCEPT ![write_index] =
                 [header |-> @.header, size |-> @.size, payload |-> frame]]
  /\ ppc' = "publish"
  /\ UNCHANGED <<write_index, read_index, producer_view, consumer_view,
                 frame, consumerVars>>

PushPublish ==
  /\ ppc = "publish"
  /\ write_index' = increment(write_index)
  /\ ppc' = "idle"
  /\ frame' = frame + 1
  /\ UNCHANGED <<slots, read_index, producer_view, consumer_view, consumerVars>>
-----------------------------------------------------------------------------
(* try_pop_into.                                                           *)
PopEmpty ==
  /\ cpc = "idle"
  /\ read_index = consumer_view
  /\ UNCHANGED queueVars

PopNoRoom ==
  /\ cpc = "idle"
  /\ read_index # consumer_view
  /\ \E c \in OutCapacities : c < slots[read_index].size
  /\ UNCHANGED queueVars

(* Mutant: an exact fit is taken for too small.                            *)
PopReserve_ExactFit ==
  /\ cpc = "idle"
  /\ read_index # consumer_view
  /\ \E c \in OutCapacities : c > slots[read_index].size
  /\ cpc' = "header"
  /\ ringUnchanged /\ UNCHANGED <<producerVars, out, delivered>>

PopReserve ==
  /\ cpc = "idle"
  /\ read_index # consumer_view
  /\ \E c \in OutCapacities : c >= slots[read_index].size
  /\ cpc' = "header"
  /\ ringUnchanged /\ UNCHANGED <<producerVars, out, delivered>>

PopHeader ==
  /\ cpc = "header"
  /\ out' = [header |-> slots[read_index].header, size |-> out.size,
             payload |-> out.payload]
  /\ cpc' = "payload"
  /\ ringUnchanged /\ UNCHANGED <<producerVars, delivered>>

PopPayload ==
  /\ cpc = "payload"
  /\ out' = [header |-> out.header, size |-> slots[read_index].size,
             payload |-> slots[read_index].payload]
  /\ cpc' = "release"
  /\ ringUnchanged /\ UNCHANGED <<producerVars, delivered>>

PopRelease ==
  /\ cpc = "release"
  /\ read_index' = increment(read_index)
  /\ cpc' = "idle"
  /\ delivered' = Append(delivered, out)
  /\ UNCHANGED <<slots, write_index, producer_view, consumer_view,
                 producerVars, out>>
-----------------------------------------------------------------------------
Producer == PushTooLarge \/ PushFull \/ PushReserve \/ PushHeader
              \/ PushPayload \/ PushPublish

Consumer == PopEmpty \/ PopNoRoom \/ PopReserve \/ PopHeader
              \/ PopPayload \/ PopRelease

QueueNext == ReadIndexVisible \/ WriteIndexVisible \/ Producer \/ Consumer

QueueSpec == QueueInit /\ [][QueueNext]_queueVars

(* The consumer keeps polling, in the end with a record that has room, and *)
(* a store becomes visible in finite time.  Nothing obliges the producer   *)
(* to offer a frame or to finish a push.                                   *)
QueueFairSpec == QueueSpec /\ WF_queueVars(Consumer) /\ WF_queueVars(WriteIndexVisible)
-----------------------------------------------------------------------------
(* Types of the ring, of the two views and of the threads' locals.         *)
Records == [header : 0 .. MaxFrames, size : Nat, payload : 0 .. MaxFrames]

QueueTypeOK ==
  /\ slots \in [Indices -> Records]
  /\ write_index \in Indices /\ read_index \in Indices
  /\ producer_view \in Indices /\ consumer_view \in Indices
  /\ frame \in 1 .. MaxFrames + 1
  /\ ppc # "idle" => frame \in Frames
  /\ ppc \in {"idle", "header", "payload", "publish"}
  /\ out \in Records
  /\ cpc \in {"idle", "header", "payload", "release"}
  /\ delivered \in Seq(Records)

Occupied == Distance(read_index, write_index)

(* Going round from the producer's view of read_index one meets            *)
(* read_index, then the consumer's view of write_index, then write_index,  *)
(* and a push in progress still has a free slot beyond that.               *)
IndexOrder ==
  /\ Distance(producer_view, read_index) + Occupied < SlotCount
  /\ Distance(read_index, consumer_view) + Distance(consumer_view, write_index)
       = Occupied
  /\ ppc # "idle" => increment(write_index) # producer_view
  /\ cpc # "idle" => read_index # consumer_view

(* Every slot between the indices holds one whole frame.                   *)
QueuedWhole ==
  \A i \in Indices : Distance(read_index, i) < Occupied =>
    \E f \in Frames : slots[i] = Whole(f)

(* What a push has stored, and what a pop has copied, is the right thing.  *)
Copied ==
  /\ ppc \in {"payload", "publish"} => /\ slots[write_index].header = frame
                                       /\ slots[write_index].size = SizeOf[frame]
  /\ ppc = "publish" => slots[write_index].payload = frame
  /\ cpc \in {"payload", "release"} => out.header = slots[read_index].header
  /\ cpc = "release" => out = slots[read_index]

(* The inductive invariant of the ring: the order of the two indices and   *)
(* of the two views of them keeps the slot being filled away from the      *)
(* queued ones, so that a queued slot stays whole until it is released.    *)
RingInv == IndexOrder /\ QueuedWhole /\ Copied

(* The plain (non-atomic) accesses to slots never race: the producer never *)
(* writes a slot the consumer is reading, although each side may decide on *)
(* a stale value of the other side's index.                                *)
NoSlotRace ==
  ~ /\ ppc \in {"header", "payload"}
    /\ cpc \in {"header", "payload"}
    /\ write_index = read_index

(* The k-th queued slot, and the queued records in order.                  *)
Nth(k) == IF read_index + k - 1 >= SlotCount
          THEN read_index + k - 1 - SlotCount
          ELSE read_index + k - 1

Contents == [k \in 1 .. Occupied |-> slots[Nth(k)]]

(* The ring is a bounded FIFO of SlotCount - 1 whole frames: the store of  *)
(* write_index is the enqueue, the store of read_index the dequeue.  So no *)
(* frame is lost, duplicated, reordered or delivered torn.                 *)
Fifo == INSTANCE BoundedFifo WITH
  Items <- {Whole(f) : f \in Frames},
  Capacity <- SlotCount - 1,
  queue <- Contents
FifoSpec == Fifo!Spec

(* A queued frame is delivered in the end: no try_pop_into that found the  *)
(* ring empty, or its record too small, loses it or blocks it for good.    *)
(* Some record has to have room for any frame the queue takes, as in       *)
(* AsyncRecorder::run, which reserves payload_capacity().                  *)
QueuedIsDelivered ==
  \A n \in Frames : (Len(delivered) + Occupied >= n) ~> (Len(delivered) >= n)
=============================================================================
