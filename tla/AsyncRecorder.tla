--------------------------- MODULE AsyncRecorder ---------------------------
(***************************************************************************)
(* A recorded live session of bybit_l2_capture: the client thread runs     *)
(* live() and hands each frame to AsyncRecorder::record before decoding    *)
(* it; the worker thread runs AsyncRecorder::run, which moves frames from  *)
(* the queue to the capture file.  The queue is the BoundedFifo that       *)
(* RawFrameQueue implements, the file is CaptureFile; other processes may   *)
(* record to the same path.  producer_mutex_ is locked by the client       *)
(* thread only and is left out.                                            *)
(***************************************************************************)
EXTENDS Naturals, Sequences

CONSTANTS QueueCapacity, \* frames the queue holds
          MaxInbound,    \* config.max_frames
          Others,        \* other processes recording to the same path
          OtherFrames,   \* bound: frames each of them records
          NoFile

VARIABLES queue, delivered,       \* the queue, and all that was popped from it
          partial, final, phase,  \* the capture file
          mpc,                    \* control of the client thread
          index,                  \* next capture index
          received,               \* inbound frames the book consumed
          outcome,                \* how live() ended
          wpc,                    \* control of the worker
          producer_closed, closed, finalize, writer_failed

Self == "recorder"

File == INSTANCE CaptureFile WITH Writers <- {Self} \cup Others, MaxFrames <- OtherFrames
Queue == INSTANCE BoundedFifo WITH Items <- Nat, Capacity <- QueueCapacity

ASSUME RecorderAssumption == /\ QueueCapacity \in Nat \ {0} /\ MaxInbound \in Nat
                             /\ Self \notin Others /\ NoFile \notin File!Capture

fileVars == <<partial, final, phase>>
queueVars == <<queue, delivered>>
clientVars == <<mpc, index, received, outcome>>
flags == <<producer_closed, closed, finalize, writer_failed>>
vars == <<fileVars, queueVars, clientVars, wpc, flags>>

(* Every frame that record() has accepted so far.                          *)
Accepted == delivered \o queue

Init == /\ File!Init
        /\ Queue!Init
        /\ mpc = "construct" /\ index = 0 /\ received = 0 /\ outcome = "running"
        /\ wpc = "unstarted"
        /\ producer_closed = FALSE /\ closed = FALSE
        /\ finalize = FALSE /\ writer_failed = FALSE

-----------------------------------------------------------------------------
(* The client thread.  An exception unwinds live() to the destructor of    *)
(* the recorder.                                                           *)
Throw == mpc' = "destroy" /\ outcome' = "failed" /\ UNCHANGED received

Construct == /\ mpc = "construct"
             /\ File!Open(Self)
             /\ mpc' = "record"
             /\ wpc' = "pop"
             /\ UNCHANGED <<queueVars, index, received, outcome, flags>>

(* The file is refused or cannot be opened: there is no recorder yet, and  *)
(* live() ends.                                                            *)
ConstructFails == /\ mpc = "construct"
                  /\ File!OpenRefused(Self) \/ File!OpenFails(Self)
                  /\ mpc' = "exit" /\ outcome' = "failed"
                  /\ UNCHANGED <<queueVars, index, received, wpc, flags>>

(* record() first looks at the flags ...                                   *)
RecordCheck == /\ mpc = "record"
               /\ ~producer_closed /\ ~writer_failed
               /\ mpc' = "push"
               /\ UNCHANGED <<fileVars, queueVars, index, received, outcome, wpc, flags>>

RecordRefused == /\ mpc = "record"
                 /\ producer_closed \/ writer_failed
                 /\ Throw
                 /\ index' = index + 1
                 /\ UNCHANGED <<fileVars, queueVars, wpc, flags>>

(* ... then pushes.  The first frame is the subscription.                  *)
RecordPush == /\ mpc = "push"
              /\ Queue!Enqueue(index)
              /\ index' = index + 1
              /\ mpc' = IF index = 0 THEN "subscribe" ELSE "consume"
              /\ UNCHANGED <<fileVars, received, outcome, wpc, flags>>

(* Mutant: a frame the queue refuses is skipped.                           *)
RecordRejected_Skips == /\ mpc = "push"
                        /\ index > 0
                        /\ mpc' = "consume"
                        /\ index' = index + 1
                        /\ UNCHANGED <<fileVars, queueVars, received, outcome, wpc, flags>>

(* The queue is full, or looks full to a producer that has not yet seen    *)
(* the slots the worker freed; or an inbound frame is too large for it.    *)
RecordRejected == /\ mpc = "push"
                  /\ index > 0 \/ Len(Accepted) >= QueueCapacity
                  /\ Throw
                  /\ index' = index + 1
                  /\ UNCHANGED <<fileVars, queueVars, wpc, flags>>

SocketWrite == /\ mpc = "subscribe"
               /\ mpc' = "receive"
               /\ UNCHANGED <<fileVars, queueVars, index, received, outcome, wpc, flags>>

(* Mutant: one frame too many is read.                                     *)
SocketRead_OffByOne == /\ mpc = "receive"
                       /\ received <= MaxInbound
                       /\ mpc' = "record"
                       /\ UNCHANGED <<fileVars, queueVars, index, received, outcome, wpc, flags>>

(* A frame arrives.  The read blocks until then: the timeouts that live()  *)
(* sets on the stream act on asynchronous calls only.                      *)
SocketRead == /\ mpc = "receive"
              /\ received < MaxInbound
              /\ mpc' = "record"
              /\ UNCHANGED <<fileVars, queueVars, index, received, outcome, wpc, flags>>

Consume == /\ mpc = "consume"
           /\ received' = received + 1
           /\ mpc' = "receive"
           /\ UNCHANGED <<fileVars, queueVars, index, outcome, wpc, flags>>

(* The socket fails; the frame is malformed, has the wrong topic or is     *)
(* refused by the book.                                                    *)
ClientThrows == /\ \/ mpc \in {"subscribe", "consume", "hangup"}
                   \/ mpc = "receive" /\ received < MaxInbound
                /\ Throw
                /\ UNCHANGED <<fileVars, queueVars, index, wpc, flags>>

CloseFinalize == /\ mpc = "receive"
                 /\ received = MaxInbound
                 /\ closed' = TRUE
                 /\ finalize' = TRUE
                 /\ mpc' = "close"
                 /\ UNCHANGED <<fileVars, queueVars, index, received, outcome, wpc, producer_closed, writer_failed>>

CloseProducer == /\ mpc = "close"
                 /\ producer_closed' = TRUE
                 /\ mpc' = "join"
                 /\ UNCHANGED <<fileVars, queueVars, index, received, outcome, wpc, closed, finalize, writer_failed>>

(* Mutant: a failure of the worker is not reported.                        *)
CloseJoin_Unchecked == /\ mpc = "join"
                       /\ wpc = "done"
                       /\ mpc' = "hangup"
                       /\ UNCHANGED <<fileVars, queueVars, index, received, outcome, wpc, flags>>

CloseJoin == /\ mpc = "join"
             /\ wpc = "done"
             /\ IF writer_failed THEN Throw ELSE mpc' = "hangup" /\ UNCHANGED <<received, outcome>>
             /\ UNCHANGED <<fileVars, queueVars, index, wpc, flags>>

SocketClose == /\ mpc = "hangup"
               /\ mpc' = "destroy"
               /\ outcome' = "ok"
               /\ UNCHANGED <<fileVars, queueVars, index, received, wpc, flags>>

(* Mutants: the worker is not told to stop; an abort finalizes.            *)
Abort_KeepsOpen ==
    /\ mpc = "destroy"
    /\ mpc' = IF closed THEN "exit" ELSE "abort_join"
    /\ closed' = TRUE
    /\ UNCHANGED <<fileVars, queueVars, index, received, outcome, wpc,
                   producer_closed, finalize, writer_failed>>

Abort_Finalizes ==
    /\ mpc = "destroy"
    /\ mpc' = IF closed THEN "exit" ELSE "abort_join"
    /\ closed' = TRUE /\ finalize' = TRUE /\ producer_closed' = TRUE
    /\ UNCHANGED <<fileVars, queueVars, index, received, outcome, wpc, writer_failed>>

(* abort(), called by the destructor, does nothing after close().          *)
Abort == /\ mpc = "destroy"
         /\ \/ closed /\ mpc' = "exit" /\ UNCHANGED <<closed, producer_closed>>
            \/ ~closed /\ mpc' = "abort_join" /\ closed' = TRUE /\ producer_closed' = TRUE
         /\ UNCHANGED <<fileVars, queueVars, index, received, outcome, wpc, finalize, writer_failed>>

AbortJoin == /\ mpc = "abort_join"
             /\ wpc = "done"
             /\ mpc' = "exit"
             /\ UNCHANGED <<fileVars, queueVars, index, received, outcome, wpc, flags>>

Client == \/ Construct \/ ConstructFails
          \/ RecordCheck \/ RecordRefused \/ RecordPush \/ RecordRejected
          \/ SocketWrite \/ SocketRead \/ Consume \/ ClientThrows
          \/ CloseFinalize \/ CloseProducer \/ CloseJoin \/ SocketClose
          \/ Abort \/ AbortJoin

(* The client thread is in a blocking call on the socket, which returns or *)
(* throws when the peer or the network does something, or never: the       *)
(* write of the subscription, the read of a frame, the closing handshake.  *)
AwaitsPeer == \/ mpc \in {"subscribe", "hangup"}
              \/ mpc = "receive" /\ received < MaxInbound

-----------------------------------------------------------------------------
(* The worker thread: pop and append until the queue is seen empty and     *)
(* then the producer closed; finalize; any exception sets writer_failed_.  *)
Pop == /\ wpc = "pop"
       /\ Queue!Dequeue
       /\ wpc' = "append"
       /\ UNCHANGED <<fileVars, clientVars, flags>>

(* The queue is empty, or looks empty to a worker that has not yet seen    *)
(* the last push.                                                          *)
PopEmpty == /\ wpc = "pop"
            /\ wpc' = "check"
            /\ UNCHANGED <<fileVars, queueVars, clientVars, flags>>

WorkerAppend == /\ wpc = "append"
                /\ \/ File!append(Self, delivered[Len(delivered)]) /\ wpc' = "pop"
                   \/ File!AppendFails(Self) /\ wpc' = "catch"
                /\ UNCHANGED <<queueVars, clientVars, flags>>

CheckClosed == /\ wpc = "check"
               /\ wpc' = IF producer_closed THEN "finalize" ELSE "pop"
               /\ UNCHANGED <<fileVars, queueVars, clientVars, flags>>

CheckFinalize == /\ wpc = "finalize"
                 /\ wpc' = IF finalize THEN "close" ELSE "done"
                 /\ UNCHANGED <<fileVars, queueVars, clientVars, flags>>

CloseWriter == /\ wpc = "close"
               /\ File!CloseStep(Self)
               /\ wpc' = CASE phase'[Self] = "closed" -> "done"
                           [] phase'[Self] = "failed" -> "catch"
                           [] OTHER -> "close"
               /\ UNCHANGED <<queueVars, clientVars, flags>>

Catch == /\ wpc = "catch"
         /\ writer_failed' = TRUE
         /\ wpc' = "done"
         /\ UNCHANGED <<fileVars, queueVars, clientVars, producer_closed, closed, finalize>>

Worker == \/ Pop \/ PopEmpty \/ WorkerAppend \/ CheckClosed
          \/ CheckFinalize \/ CloseWriter \/ Catch

(* The process is killed.                                                  *)
Crash == /\ mpc \notin {"exit", "crashed"}
         /\ \/ File!Crash(Self)
            \/ phase[Self] \in {"closed", "failed"} /\ UNCHANGED fileVars
         /\ mpc' = "crashed"
         /\ wpc' = "crashed"
         /\ UNCHANGED <<queueVars, index, received, outcome, flags>>

(* Another process records to the path.                                    *)
Other(w) == /\ File!Process(w)
            /\ UNCHANGED <<queueVars, clientVars, wpc, flags>>

Finished == mpc \in {"exit", "crashed"} /\ UNCHANGED vars

Next == \/ Client \/ Worker \/ Crash
        \/ \E w \in Others : Other(w)
        \/ Finished

Spec == Init /\ [][Next]_vars

(* Both threads are scheduled.  Nothing is assumed of the peer, nor of the *)
(* other processes.                                                        *)
FairSpec == Spec /\ WF_vars(~AwaitsPeer /\ Client) /\ WF_vars(Worker)

-----------------------------------------------------------------------------
(* The file, the queue, the counters, the flags and the control points of  *)
(* the two threads have their types.                                       *)
TypeOK ==
    /\ File!TypeOK
    /\ queue \in Seq(Nat) /\ delivered \in Seq(Nat)
    /\ index \in 0 .. MaxInbound + 1 /\ received \in 0 .. MaxInbound
    /\ outcome \in {"running", "ok", "failed"}
    /\ mpc \in {"construct", "record", "push", "subscribe", "receive", "consume", "close",
               "join", "hangup", "destroy", "abort_join", "exit", "crashed"}
    /\ wpc \in {"unstarted", "pop", "append", "check", "finalize", "close", "catch",
               "done", "crashed"}
    /\ {producer_closed, closed, finalize, writer_failed} \subseteq BOOLEAN

(* No file holds a frame out of place: the partial and the published file  *)
(* contain a prefix of the frames record() accepted, and those are         *)
(* numbered 0, 1, 2, ... as RawFrameCaptureReader::next demands.           *)
RecordedInOrder ==
    /\ File!Contiguous(Accepted)
    /\ \A file \in {partial[Self], final} \ {NoFile} :
          file.owner = Self => \E n \in 0 .. Len(Accepted) : file.frames = SubSeq(Accepted, 1, n)

(* bybit_v5_l2_pipeline_v1.md:94-97: a malformed frame, a gap, a queue     *)
(* overflow, a recorder failure, or a kill before the last frame, leaves   *)
(* the capture unpublished.                                                *)
PublishedOnlyIfAllReceived ==
    phase[Self] = "closed" => received = MaxInbound /\ finalize /\ ~writer_failed

(* A session that ends normally has renamed its file to the final path,    *)
(* and whatever the other processes do, a capture that replays stays       *)
(* there.                                                                  *)
SuccessIsPublished == outcome = "ok" => phase[Self] = "closed" /\ File!Replays(final)

(* Atomic publication: at every moment, whatever has failed or been killed *)
(* in this session or in the others recording to the path, the file at the *)
(* final path is complete, replays to its end, and comes from a close()    *)
(* that returned normally.                                                 *)
PublishedComplete == File!PublishedComplete

(* Whatever throws, and in whichever order close, abort and the worker's   *)
(* failure happen, the joins return and the session ends, unless a silent  *)
(* peer leaves the client in a call on the socket for ever.                *)
SessionEnds == <>(mpc \in {"exit", "crashed"}) \/ <>[]AwaitsPeer

(* The test bybit_async_recorder.cpp:17 "recorder lost queued frame during *)
(* close": close() has the worker drain the queue, so that a published     *)
(* capture holds every frame record() accepted.                            *)
NoFrameLostOnClose ==
    final # NoFile /\ final.owner = Self => final.frames = Accepted
=============================================================================
