# Formal models of the low-latency lab

TLA+ models of the stateful components of this repository, checked with TLC on
small instances and, for all but the L2 side, proved with TLAPS for all values
of their parameters. Paths below are relative to the repository root.

## 1. The system and its parts

| Part | Code | Model | Status |
|---|---|---|---|
| BBO publication cell (seqlock) | `cpp/include/llab/bbo_snapshot.hpp`, `rust/src/bbo_snapshot.rs` | `BboSnapshot`, `BboSnapshotRelaxed`, abstract `BboRegister` | checked, proved |
| Raw-frame SPSC queue | `cpp/include/llab/raw_frame_queue.hpp`, `rust/src/raw_frame_queue.rs` | `RawFrameQueue`, abstract `BoundedFifo` | checked, proved |
| LLFR v2 capture file | `cpp/include/llab/raw_frame_capture.hpp` | `CaptureFile` | checked, proved as part of the recorder |
| Recorder and live session | `cpp/benchmarks/bybit_l2_capture.cpp` | `AsyncRecorder` (composes `BoundedFifo` and `CaptureFile`) | checked, proved |
| Feed sequence recovery | `cpp/include/llab/feed_sequence_recovery.hpp`, `rust/src/feed_sequence_recovery.rs` | `FeedSequenceRecovery`, `ReplayMerge` | checked, proved |
| Fixed order index | `cpp/include/llab/fixed_order_index.hpp`, `rust/src/fixed_order_index.rs` | `FixedOrderIndex`, abstract `OrderIndexMap` | checked, proved |
| L3 books v1 to v6 | `cpp/src/*order_book.cpp`, `rust/src/*order_book.rs` | abstract `L3Book`; `OrderBook`, `ParityOrderBook` on `TombstoneIndex`, `DenseLadderOrderBook`, `BitmapLadderOrderBook`, `BitmapBackshiftOrderBook`, `BitmapPackedOrderBook` on `BitmapLadder`; composed in `L3Books` | checked, proved |
| Bybit V5 decoder | `cpp/include/llab/bybit_v5_l2_decoder.hpp` | `BybitV5Decoder` | checked, without JSON |
| Bybit L2 books | `cpp/include/llab/bybit_l2_*.hpp`, `rust/src/bybit_l2_*.rs` | `BybitL2Book`, `BybitL2Parity`; with the decoder in `BybitFeed` | checked |

How they interact: the live client receives a frame, hands it to the recorder
(queue, worker thread, capture file) and then decodes it and applies it to the
L2 book. A replay reads a published capture and drives the same book. The BBO
cell hands the best prices to other threads. Sequence recovery feeds an L3 book;
the order index is inside the v5 and v6 books. The composed models are
`AsyncRecorder` (client, worker, queue, file, other recorders), `BybitFeed`
(decoder and L2 books) and `L3Books` (six books on one stream of events).

## 2. Modules and their correspondence to the code

Definitions keep the names of the code where a function is one action; those of
the six L3 books end in the version (`add_v4`, `best_v6`). Where a
function interleaves with another thread, each shared access is an action
(`PushReserve`, `PushHeader`, ... of `try_push`). `PROJECT.json` lists the source
lines of the definitions; those of the combinators (`Then`, `WithSlot`, `Dispatch`,
`Visits`, `ApplyUntil`) are with the operators that use them. Definitions under a
comment "Mutant" are faulty variants of another; they show which property notices
the fault and take no part in any specification.

- **BboSnapshot.** `version` and `cell` are the atomics. The relaxed field
  accesses are taken in any order, but between the accesses of the version.
  `current` (last complete publication) is a history variable. The register of
  `BboRegister` changes at the final version store, and is read at the second
  version load of an accepted `try_read`.
- **BboSnapshotRelaxed.** The same cell where the second version load may be
  performed before field loads, which an acquire load permits. Weaker visibility
  of the writer's stores is not modelled.
- **RawFrameQueue.** Slots are written and read field by field. `producer_view`
  and `consumer_view` are the other side's index as last visible: an acquire load
  may return an older value. `BoundedFifo` is implemented with
  `queue <- Contents`, the records from `read_index` to `write_index`.
- **CaptureFile.** A file is its owner, the capture indices of its records and
  whether it ends in the completion marker. `close` takes a step for each system
  call. Failures and kills lose any suffix that was not flushed.
- **AsyncRecorder.** Client thread (`mpc`), worker thread (`wpc`), the four flags,
  the queue, the file, and other processes that record to the same path. An
  exception leads to the destructor, which aborts. `producer_mutex_` is only ever
  locked by the client thread and is left out. A worker that does not see the last
  push yet may find the queue empty. `AwaitsPeer` marks the three blocking calls
  on the socket (the write of the subscription, the read of a frame, the close).
- **FeedSequenceRecovery.** The book is the sequence of event numbers applied to
  it. Any published number can be delivered at any time, which covers loss,
  repetition and reordering. The merge of `finish_snapshot` is one step.
  **ReplayMerge** extends it: sort, scan and emit are executed entry by entry
  while the venue goes on publishing, and implement that one step.
- **FixedOrderIndex.** `erase_at` takes one step per probe. The hash is chosen
  once, arbitrarily. `Entries` is the map of `OrderIndexMap`.
- **L3Events, L3Book.** The seven events, and the map of live orders with what a
  correct book answers from it: admitted events, digest, best levels.
- **The six books.** Each has `apply`, with the result `[book, threw]`: the book the
  call leaves behind, also when it throws. **OrderBook** (v1) keeps maps.
  **ParityOrderBook** (v2) keeps its orders in the open-addressing
  **TombstoneIndex**. **DenseLadderOrderBook** (v3) has an array of quantities
  and a cached best price for each side. **BitmapLadder** is the array with its
  occupancy words that v4, v5 and v6 share; v5 and v6 put their orders into the
  map of `OrderIndexMap`, v6 packs side and price offset into one word.
- **L3Books.** The same event goes to every book that is still `alive`, and to
  the map. A book that throws stays visible for one state and is then dropped,
  since no caller catches. `refused` is what the map and the limits of each
  version say about the event.
- **BybitL2Book.** The sorted vectors, next to `ladder`, the set of levels that
  the messages state. The successor of an update id wraps, so that the test for
  the largest one matters. **BybitL2Parity** puts one of three other implementations
  beside it: the Rust vectors, the dense ladder or the ordered map.
- **BybitV5Decoder, BybitFeed.** A decimal text is its digits before and after
  the point, and is parsed digit by digit in words of `MaxWord`. `Meaning` is
  what the text denotes, without a width. `BybitFeed` sends frames through the
  decoder to the books, and through `Meaning` to the ladder.

## 3. Runs

| Run | Instance | Shows |
|---|---|---|
| `bbo_seqlock` | 2 readers, 2 publications, 2 fields | seqlock invariant, atomic register, readers catch up |
| `bbo_relaxed` | 1 reader | **violation**: mixed snapshot (section 6) |
| `frame_queue` | 4 slots, 8 frames, sizes around the limit | ring invariant, no slot race, FIFO, delivery |
| `capture_overwrite` | 2 processes, 2 frames each | **violation** (section 6) |
| `recorder` | queue of 2, 3 inbound frames, 1 other recorder | order, atomic publication of complete sessions only, the joins return |
| `recorder_drain` | same | **violation** (section 6) |
| `feed_recovery` | buffer of 3, 5 events | prefix, completeness in Live, no false gap; the merge loops implement the merge |
| `order_index` | 8 slots, 4 ids, 3 live, 3 home slots | probe chains, refinement of a map, termination |
| `l2_book` | 2 levels per side, 3 prices, deltas of 2 changes, frames with texts around the largest number, window of 2 prices | the book equals what texts and messages state; the other implementations agree while valid |
| `l2_parity` | same, without frames | **violation** (section 6) |
| `l3_books` | 4 prices in 2 words, 3 ids, quantities up to 2, tables of 2 and 4 slots | six books equal the map of orders, refuse the same, keep caches and bitmaps |
| `l3_packed_upsert` | same | **violation** (section 6) |

Why the bounds are enough for the cases of interest. Two publications are the
fewest that can be mixed. Eight frames take a four-slot ring around twice and
fill it. Two writers are the fewest that can race for a path. A queue of two
fills while three frames arrive. A buffer of three overflows within five events
and holds a gap, a repetition and an inversion. The home slots 6, 7 and 0 of
eight make clusters that wrap around the table. Two levels and three prices let a
delta replace a level of a full side, in both list orders, and overflow it. With
words of 0 to 15 and one decimal, 1.5 is the largest price, 1.6 overflows by its
fraction and 15 by its whole part. Bids at two neighbouring prices lie on either
side of a word boundary, one ask price lies outside the ladder, two orders of the
largest quantity overflow a level, and colliding ids fill the smallest tombstone
table until it has no empty slot. One bound hides a case: `WholePartsFit` admits
no text whose whole part alone exceeds a word (section 5). `InLadders` stops
following v1 and v2 past a price outside the ladders, which is not special to
them.

Fairness. `bbo_seqlock`: a publication that has begun is finished (`publish` has
no wait) and readers keep calling; nothing makes the writer publish again.
`frame_queue`: the consumer keeps polling and a store becomes visible in finite
time; the producer owes nothing. `recorder`: both threads are scheduled, but
nothing is assumed of the peer. The calls of `live()` on the socket block, and the
idle timeout it sets acts on asynchronous calls only; a silent peer can hold the
client for ever. `SessionEnds` therefore says that the session ends, with every
join on the way, unless the client stays in such a call (`<>[]AwaitsPeer`).
`order_index`: a call of `erase` keeps running. Deadlock is checked in every run.

## 4. Proofs

TLAPS checks these theorems for all values of the constants that satisfy the
named assumptions of the modules.

- **FeedPathProofs** has the proofs about the ring and the cell, which share no
  state; the names of their specifications therefore begin with `Queue` and `Bbo`.
- *Cell.* From `SnapshotsAssumption` and `VersionAssumption` (the
  version does not wrap within a behaviour). `SeqlockInv` is inductive: the
  version is even exactly between publications, and as long as the version a
  reader loaded is current, what it collected is part of the current snapshot.
  This gives `BboTypeCorrect`, `SeqlockInvariance` and `ImplementsRegister`.
- *Ring.* From `QueueAssumption` (at least two slots). Freedom
  from races is not inductive alone; `RingInv` adds the cyclic order of
  `producer_view`, `read_index`, `consumer_view`, `write_index`, and that queued
  slots hold whole frames. With `QueueTypeCorrect`, from it follow `RaceFreedom` and `ImplementsFifo`.
- **FeedRecoveryProofs** (sequence recovery). From `RecoveryAssumption`.
  `RecoveryInv` joins the types, the prefix property and `BufferIsComplete`: while
  a snapshot loads, what was heard is in it or buffered. `RecoveryTypeCorrect`,
  `BookPrefix`, `BufferCompleteness` and `LiveCompleteness` follow, and the action
  property `NoFalseAlarm`: a book is given up only for a full buffer or for an
  event that is really missing. In Live the missing event is the expected one; for
  a merge that fails it is the least number that was not buffered (`GapIsReal`).
- **AsyncRecorderProofs.** From `RecorderAssumption`, for any queue capacity,
  session length and set of other recorders. `RecorderInv` has three parts.
  `FileInv`: a file that may still be renamed is numbered from 0 and, once the
  trailer is written, complete. `QueueInv`: delivered and queued frames continue
  one numbering, and the file lags behind by the frame being appended.
  `SessionInv`: the control points of the two threads determine the flags; this
  carries the argument that `finalize_` is set before `producer_closed_`. From it
  follow `AtomicPublication`, `OnlyCompleteSessions` and `SuccessPublishes`.
  `OrderInv` adds that what a failure or a kill leaves of the file is still a
  prefix, which gives `OrderedRecording`. `ControlInv` says how many frames were
  recorded and received at each control point of the client, which gives
  `TypeCorrect`: a session records at most the subscription and the frames it
  was asked for.
- **FixedOrderIndexProofs.** From `IndexAssumption`, for any table at most half of
  which is used, any hash and any ids. `IndexInv` adds to `ProbeChain` and
  `SizeCounts` that no id is entered twice and, during a shift (`ShiftInv`), that
  all slots from the hole to `next` are occupied and that the hole holds the
  erased entry or a copy of one that has moved. The free half gives a slot where
  each loop stops; so the shift never comes back to the hole. `ProbeChainsHold`,
  `SizesHold`, `FindsExactlyTheLive` and `ImplementsMap` follow. The v5 and v6
  books may therefore use the index as the map of `OrderIndexMap`.
- **L3LevelProofs, L3IndexProofs, L3OperationProofs, L3BooksProofs** (in this
  order, each extending the ones before). From `L3Assumption` and
  `L3BooksAssumption`, for any set of events, ladder, word width, largest
  quantity, hash of the ids and limit on live orders. Vocabulary for these proofs
  is in `L3Levels`: `Quantities` (a quantity for each side and price) with `Plus`
  and `Minus` of an order.
  - *Levels.* For each way to keep quantities there is one relation between book
    and quantities: `MapLevels` (v1), `ArrayLevels` (v2, sorted and without empty
    levels), `CachedLadder` (v3, ladder and cached best price) and `MarkedLadder`
    (v4 to v6, ladder and bitmap). The lemmas say that adding an order leads to
    `Plus`, or throws without a change exactly if the price is outside the ladder
    or the sum exceeds a quantity; that subtracting leads to `Minus`; and that
    `best_bid`, `best_ask` and the levels of the digest can be read off the
    quantities. Division with remainder makes bits and prices correspond.
  - *Indexes.* `IndexOf` relates the index of a version to the live orders. For
    the tombstone tables it is `Table`: every entry is reached by its probe before
    an empty slot. `find_slot` and `insertion_slot` are then exact, also in a table
    without an empty slot. `v4` and `v6` store packed orders, which unpack to what
    was packed as long as the price is in the ladder.
  - *Live orders.* `Sums` are the quantities of the live orders. A level is the
    number of its units (`Units`), so what an event does to the sums follows from
    cardinalities, without induction over the orders.
  - *Operations.* `RemoveIs`, `ReduceIs`, `AddIs` and `UpsertIs` bring the six
    versions of an operation to one form, with the order of checks and changes of
    each version; `RemoveOutcome`, ..., `ApplyOutcome` say when it throws, what the
    book then represents, and whether a throw left it as it was.
  - *Invariant.* `IInv`: a version that is alive represents `orders` in levels,
    index and limits (`Represents`), the levels of a version that threw are those
    of some quantities (`LevelsLeft`), and `thrown = refused`. None of the checked
    invariants is inductive alone: that bitmaps agree, say, needs that each stored
    order has its quantity on its level, or a removal would underflow. From
    `Invariance` follow `TypeCorrect`, `DigestsAlwaysAgree`, `BestAlwaysAgrees`,
    `AlwaysRefusesExactly`, `BitmapsAlwaysAgree`, `CachedBestAlwaysBest` and the
    action property `RefusalsLeaveBook`: every property of the run `l3_books`.
    The operations that change a book before their last check are `EntersFirst`
    (the adds of v5 and v6) and `UpsertsFirst`; `TouchedIs` relates them to
    `ChangesFirst` of `L3Books`.
  - `LadderBitmaps`, `BackshiftBitmaps` and `PackedBitmaps` concern v4, v5 and v6
    each by itself, fed with events until and beyond a throw; `L3Books` drops a
    book that threw, these go on with what the throw left. They need less of the
    book (`Sound`), since what it represents is no longer known.

Only model-checked: the L2 books and the decoder, whose loops are folds over
sequences, so that their proofs would be inductions over data, as would be those
of the loops of `ReplayMerge`; and all liveness properties, which are outside the
prover.

## 5. Hazards

`PROJECT.json` lists them at their lines with the properties that cover them. Three
have none:

- Power loss: `close` flushes but does not call `fsync`. The model kills
  processes, not machines.
- A silent peer keeps a session in a blocking call on the socket (section 3).
- `parse_fixed_1e8` tests the whole part before it multiplies by ten, but does
  not bound the digit that it adds. A whole part just above the largest 64-bit
  number wraps to a small one, which the last test accepts. `WholePart` models
  this, `BookIsLadder` does not hold for such texts, and `WholePartsFit` keeps
  them out of the run. No price or size of the venue comes near 2^64.

Wrapping of 64-bit event numbers and of the version of the BBO cell is excluded by
bounds (`MaxSequence`, `VersionAssumption`).

## 6. Where code and documentation disagree

1. *Recorder drain* (`recorder_drain`). The worker finds the queue empty; the
   client records the last frame and closes; the worker sees `producer_closed_`
   and leaves. The capture is published without the frame, and `close` reports
   success. `RecordedInOrder` and the other theorems about the recorder hold
   nevertheless: what is lost is at the end.
2. *Overwriting a capture* (`capture_overwrite`). Two recordings to one path both
   find it free before either renames.
3. *Relaxed seqlock* (`bbo_relaxed`). Possible by the C++ and Rust memory models;
   loads in program order, as on x86, do not show it.
   `docs/components/bbo_snapshot_cell.md` says itself that its tests are no proof
   across memory models.
4. *Rust book after a gap* (`l2_parity`). It keeps reporting the levels
   that the C++ book has cleared.
5. *Upsert of the packed book* (`l3_packed_upsert`). `upsert` of a live order to a
   price outside the ladder takes the old quantity off its level before it throws;
   `specs/packed_order_record_v6.md` asks for the rejection "before mutation".
   v5 does the same. `RefusalLeavesBook` of `l3_books` exempts the events that
   reach such a late check, by version, event and live orders (`ChangesFirst`), and
   requires every other refusal to leave the book as it was.

## 7. Not modelled

- *LLFR record codec* (`raw_frame_record.hpp`): pure functions on bytes. That a
  damaged record is recognised rests on its checksum, which a model could only
  assume.
- *JSON parsing and `parse_u64`*: a library, and a call of `std::from_chars`.
- *L2 labels* (`bybit_l2_labels.hpp`): two pure functions without state.
- *Metrics* (`metrics.hpp`, `feed_receive_metrics.hpp`): counters and a buffer of
  one thread; each call is one assignment and nothing depends on the result.
- *State export and feature extraction*: programs that read a replayed book and
  print. What a replay accepts is `Replays` of `CaptureFile`.
- *Benchmarks, probes, scripts*: measurement and I/O.
- *The Rust versions* of the queue, the cell, the index, sequence recovery and the
  L3 books repeat the C++ algorithms and are not modelled a second time. The Rust
  L2 book differs and is modelled.
