------------------------ MODULE AsyncRecorderProofs ------------------------
(***************************************************************************)
(* Proofs about AsyncRecorder, for any queue, any number of frames and any *)
(* set of other processes that record to the same path.                    *)
(***************************************************************************)
EXTENDS AsyncRecorder, SequenceTheorems, TLAPS

Writers == {Self} \cup Others

(* A file that w is writing: its frames are numbered 0, 1, 2, ...          *)
Written(file, w) == /\ file \in File!Capture
                    /\ file.owner = w
                    /\ File!Contiguous(file.frames)

(* Publication: a file that may still be renamed is well formed, and       *)
(* complete once the trailer is written; the final path holds such a file. *)
FileInv == /\ phase \in [Writers -> File!Phases]
           /\ partial \in [Writers -> File!Capture \cup {NoFile}]
           /\ \A w \in Writers :
                /\ phase[w] \in {"open", "flushed", "checked"} => Written(partial[w], w)
                /\ phase[w] \in {"flushed", "checked"} => partial[w].trailer
                /\ phase[w] = "closed" => final # NoFile
           /\ final # NoFile =>
                /\ final.owner \in Writers
                /\ Written(final, final.owner) /\ final.trailer
                /\ phase[final.owner] = "closed"

LEMMA WritersFacts == /\ Self \in Writers /\ Others \subseteq Writers
                      /\ \A w \in Others : w # Self
BY RecorderAssumption DEF Writers

LEMMA AppendContiguous ==
    ASSUME NEW frames \in Seq(Nat), File!Contiguous(frames)
    PROVE  /\ Append(frames, Len(frames)) \in Seq(Nat)
           /\ File!Contiguous(Append(frames, Len(frames)))
<1>1. /\ Append(frames, Len(frames)) \in Seq(Nat)
      /\ DOMAIN Append(frames, Len(frames)) = 1 .. Len(frames) + 1
      /\ \A i \in 1 .. Len(frames) : Append(frames, Len(frames))[i] = frames[i]
      /\ Append(frames, Len(frames))[Len(frames) + 1] = Len(frames)
  BY AppendProperties
<1> QED  BY <1>1 DEF File!Contiguous

(* A step that changes the file of w keeps the invariant if the new file   *)
(* of w does, and final is as it was.                                      *)
LEMMA PartialStep ==
    ASSUME FileInv, NEW w \in Writers, NEW file \in File!Capture \cup {NoFile}, NEW ph \in File!Phases,
           phase[w] # "closed", ph # "closed",
           partial' = [partial EXCEPT ![w] = file], phase' = [phase EXCEPT ![w] = ph],
           UNCHANGED final,
           ph \in {"open", "flushed", "checked"} => Written(file, w),
           ph \in {"flushed", "checked"} => file.trailer
    PROVE  FileInv'
<1>1. phase' \in [Writers -> File!Phases] /\ partial' \in [Writers -> File!Capture \cup {NoFile}]
  BY DEF FileInv
<1>2. \A v \in Writers : /\ phase'[v] = IF v = w THEN ph ELSE phase[v]
                         /\ partial'[v] = IF v = w THEN file ELSE partial[v]
  BY DEF FileInv
<1>3. \A v \in Writers : /\ phase'[v] \in {"open", "flushed", "checked"} => Written(partial'[v], v)
                         /\ phase'[v] \in {"flushed", "checked"} => partial'[v].trailer
                         /\ phase'[v] = "closed" => final # NoFile
  BY <1>2 DEF FileInv
<1>4. final # NoFile => /\ final.owner \in Writers /\ Written(final, final.owner) /\ final.trailer
                        /\ phase'[final.owner] = "closed"
  BY <1>2 DEF FileInv
<1> QED  BY <1>1, <1>3, <1>4 DEF FileInv, Written

(* A failure of the file system leaves a prefix of the frames.             *)
LEMMA Prefix ==
    ASSUME NEW s \in Seq(Nat), NEW n \in 0 .. Len(s)
    PROVE  /\ SubSeq(s, 1, n) \in Seq(Nat) /\ Len(SubSeq(s, 1, n)) = n
           /\ \A i \in 1 .. n : SubSeq(s, 1, n)[i] = s[i]
<1>1. Len(s) \in Nat /\ n \in Int /\ 0 <= n /\ n <= Len(s)  BY LenProperties
<1>2. \A i \in 1 .. n : s[i] \in Nat  BY <1>1, ElementOfSeq
<1>3. /\ SubSeq(s, 1, n) \in Seq(Nat)
      /\ Len(SubSeq(s, 1, n)) = IF 1 <= n THEN n - 1 + 1 ELSE 0
      /\ \A i \in 1 .. n - 1 + 1 : SubSeq(s, 1, n)[i] = s[1 + i - 1]
  BY <1>1, <1>2, SubSeqProperties
<1>4. \A i \in 1 .. n : i \in 1 .. n - 1 + 1 /\ 1 + i - 1 = i  BY <1>1
<1> QED  BY <1>1, <1>3, <1>4

(* The files a failure leaves behind, and the file with its trailer, are   *)
(* captures.                                                               *)
LEMMA RemainsAreCaptures ==
    ASSUME NEW file \in File!Capture
    PROVE  /\ File!Remains(file) \subseteq File!Capture
           /\ [file EXCEPT !.trailer = TRUE] \in File!Capture
           /\ file.frames \in Seq(Nat)
<1>1. file.frames \in Seq(Nat)  BY DEF File!Capture
<1>2. ASSUME NEW n \in 0 .. Len(file.frames) PROVE SubSeq(file.frames, 1, n) \in Seq(Nat)
  BY <1>1, <1>2, Prefix
<1>3. ASSUME NEW n \in 0 .. Len(file.frames)
      PROVE  [file EXCEPT !.frames = SubSeq(file.frames, 1, n)] \in File!Capture
  <2> DEFINE kept == SubSeq(file.frames, 1, n)
  <2>1. kept \in Seq(Nat)  BY <1>2
  <2> HIDE DEF kept
  <2>2. [file EXCEPT !.frames = kept] \in File!Capture  BY <2>1, Zenon DEF File!Capture
  <2> QED  BY <2>2 DEF kept
<1>4. File!Remains(file) \subseteq File!Capture  BY <1>3 DEF File!Remains
<1>5. [file EXCEPT !.trailer = TRUE] \in File!Capture  BY Zenon DEF File!Capture
<1> QED  BY <1>1, <1>4, <1>5

LEMMA OpenStep ==
    ASSUME FileInv, NEW w \in Writers, File!Open(w) \/ File!OpenRefused(w) \/ File!OpenFails(w)
    PROVE  FileInv'
<1>1. phase[w] = "new"  BY DEF File!Open, File!OpenRefused, File!OpenFails
<1>2. File!Empty(w) \in File!Capture /\ Written(File!Empty(w), w)
  BY DEF File!Empty, File!Capture, Written, File!Contiguous, Writers
<1>3. partial = [partial EXCEPT ![w] = partial[w]] /\ partial[w] \in File!Capture \cup {NoFile}
  BY DEF FileInv
<1>4. {"open", "failed"} \subseteq File!Phases  BY DEF File!Phases
<1>5. CASE File!Open(w)
  BY <1>1, <1>2, <1>4, <1>5, PartialStep, Zenon DEF File!Open
<1>6. CASE File!OpenRefused(w)
  <2>1. partial' = [partial EXCEPT ![w] = partial[w]]  BY <1>3, <1>6 DEF File!OpenRefused
  <2> QED  BY <1>1, <1>3, <1>4, <1>6, <2>1, PartialStep, Zenon DEF File!OpenRefused
<1>7. CASE File!OpenFails(w)
  <2>1. PICK file \in {NoFile, File!Empty(w)} : partial' = [partial EXCEPT ![w] = file]
    BY <1>7, Zenon DEF File!OpenFails
  <2>2. file \in File!Capture \cup {NoFile}  BY <1>2
  <2> QED  BY <1>1, <1>4, <1>7, <2>1, <2>2, PartialStep, Zenon DEF File!OpenFails
<1> QED  BY <1>5, <1>6, <1>7

LEMMA AppendStep ==
    ASSUME FileInv, NEW w \in Writers, File!append(w, Len(partial[w].frames))
    PROVE  FileInv'
<1> DEFINE file == [partial[w] EXCEPT !.frames = Append(@, Len(partial[w].frames))]
<1>1. phase[w] = "open" /\ Written(partial[w], w)  BY DEF FileInv, File!append
<1>2. partial[w].frames \in Seq(Nat)  BY <1>1 DEF Written, File!Capture
<1>3. /\ Append(partial[w].frames, Len(partial[w].frames)) \in Seq(Nat)
      /\ File!Contiguous(Append(partial[w].frames, Len(partial[w].frames)))
  BY <1>1, <1>2, AppendContiguous DEF Written
<1>4. file \in File!Capture /\ Written(file, w)  BY <1>1, <1>3, Zenon DEF Written, File!Capture
<1>5. partial' = [partial EXCEPT ![w] = file]  BY DEF File!append, FileInv
<1>6. phase' = [phase EXCEPT ![w] = "open"] /\ "open" \in File!Phases
  BY <1>1 DEF File!append, FileInv, File!Phases
<1> HIDE DEF file
<1> QED  BY <1>1, <1>4, <1>5, <1>6, PartialStep, Zenon DEF File!append

LEMMA FailStep ==
    ASSUME FileInv, NEW w \in Writers, File!AppendFails(w) \/ File!TrailerFails(w) \/ File!Crash(w)
    PROVE  FileInv'
<1>1. phase[w] # "closed"  BY DEF File!AppendFails, File!TrailerFails, File!Crash
<1>2. {"failed", "crashed"} \subseteq File!Phases  BY DEF File!Phases
<1>3. partial = [partial EXCEPT ![w] = partial[w]] /\ partial[w] \in File!Capture \cup {NoFile}
  BY DEF FileInv
<1>4. phase[w] = "open" => /\ File!Remains(partial[w]) \subseteq File!Capture
                           /\ [partial[w] EXCEPT !.trailer = TRUE] \in File!Capture
  BY RemainsAreCaptures DEF FileInv, Written
<1>5. PICK file \in File!Capture \cup {NoFile} : partial' = [partial EXCEPT ![w] = file]
  BY <1>3, <1>4, Zenon DEF File!AppendFails, File!TrailerFails, File!Crash
<1>6. PICK ph \in {"failed", "crashed"} : phase' = [phase EXCEPT ![w] = ph]
  BY DEF File!AppendFails, File!TrailerFails, File!Crash
<1>7. UNCHANGED final  BY DEF File!AppendFails, File!TrailerFails, File!Crash
<1> QED  BY <1>1, <1>2, <1>5, <1>6, <1>7, PartialStep, Zenon

(* close() publishes a complete file, or fails.                            *)
LEMMA RenameStep ==
    ASSUME FileInv, NEW w \in Writers, File!Rename(w)
    PROVE  FileInv'
<1>1. Written(partial[w], w) /\ partial[w].trailer  BY DEF File!Rename, FileInv
<1>2. final' = partial[w] /\ final' # NoFile /\ final'.owner = w /\ final'.trailer
  BY <1>1, RecorderAssumption DEF File!Rename, Written
<1>3. /\ phase' \in [Writers -> File!Phases] /\ partial' \in [Writers -> File!Capture \cup {NoFile}]
      /\ \A v \in Writers : /\ phase'[v] = IF v = w THEN "closed" ELSE phase[v]
                            /\ v # w => partial'[v] = partial[v]
  BY DEF File!Rename, FileInv, File!Phases
<1>4. \A v \in Writers : /\ phase'[v] \in {"open", "flushed", "checked"} => Written(partial'[v], v)
                         /\ phase'[v] \in {"flushed", "checked"} => partial'[v].trailer
                         /\ phase'[v] = "closed" => final' # NoFile
  BY <1>2, <1>3 DEF FileInv
<1>5. /\ final'.owner \in Writers /\ Written(final', final'.owner)
      /\ phase'[final'.owner] = "closed"
  BY <1>1, <1>2, <1>3
<1> QED  BY <1>2, <1>3, <1>4, <1>5 DEF FileInv, Written

LEMMA CloseSteps ==
    ASSUME FileInv, NEW w \in Writers, File!CloseStep(w)
    PROVE  FileInv'
<1>1. {"flushed", "checked", "failed"} \subseteq File!Phases  BY DEF File!Phases
<1>2. partial = [partial EXCEPT ![w] = partial[w]] /\ partial[w] \in File!Capture \cup {NoFile}
  BY DEF FileInv
<1>3. CASE File!WriteTrailer(w)
  <2> DEFINE file == [partial[w] EXCEPT !.trailer = TRUE]
  <2>1. phase[w] = "open" /\ Written(partial[w], w)  BY <1>3 DEF FileInv, File!WriteTrailer
  <2>2. file \in File!Capture /\ Written(file, w) /\ file.trailer
    BY <2>1, Zenon DEF Written, File!Capture
  <2>3. partial' = [partial EXCEPT ![w] = file]  BY <1>3 DEF File!WriteTrailer, FileInv
  <2> HIDE DEF file
  <2> QED  BY <1>1, <1>3, <2>1, <2>2, <2>3, PartialStep, Zenon DEF File!WriteTrailer
<1>4. CASE File!TrailerFails(w)  BY <1>4, FailStep
<1>5. CASE File!FinalAbsent(w) \/ File!FinalAppeared(w) \/ File!RenameFails(w)
  <2>1. phase[w] \in {"flushed", "checked"} /\ Written(partial[w], w) /\ partial[w].trailer
    BY <1>5 DEF FileInv, File!FinalAbsent, File!FinalAppeared, File!RenameFails
  <2>2. PICK ph \in {"checked", "failed"} : phase' = [phase EXCEPT ![w] = ph]
    BY <1>5 DEF File!FinalAbsent, File!FinalAppeared, File!RenameFails
  <2>3. partial' = [partial EXCEPT ![w] = partial[w]] /\ UNCHANGED final
    BY <1>2, <1>5 DEF File!FinalAbsent, File!FinalAppeared, File!RenameFails
  <2> QED  BY <1>1, <1>2, <2>1, <2>2, <2>3, PartialStep, Zenon
<1>6. CASE File!Rename(w)  BY <1>6, RenameStep
<1> QED  BY <1>3, <1>4, <1>5, <1>6 DEF File!CloseStep

LEMMA ProcessStep ==
    ASSUME FileInv, NEW w \in Writers, File!Process(w)
    PROVE  FileInv'
BY OpenStep, AppendStep, FailStep, CloseSteps DEF File!Process, File!Record

-----------------------------------------------------------------------------
(* Live() before it closes the recorder.                                   *)
Receiving == {"construct", "record", "push", "subscribe", "receive", "consume"}

(* The frames in the queue continue those that were popped, and those that *)
(* were popped are in the file, but for one the worker has in hand.        *)
QueueInv == /\ queue \in Seq(Nat) /\ delivered \in Seq(Nat) /\ index \in Nat
            /\ \A i \in 1 .. Len(delivered) : delivered[i] = i - 1
            /\ \A i \in 1 .. Len(queue) : queue[i] = Len(delivered) + i - 1
            /\ mpc \in Receiving => index = Len(delivered) + Len(queue)
            /\ wpc = "unstarted" => Len(delivered) = 0
            /\ phase[Self] = "open" =>
                 Len(delivered) = Len(partial[Self].frames) + (IF wpc = "append" THEN 1 ELSE 0)

(* How far the two threads are determines the flags and the phase of the   *)
(* file.  The worker leaves without publishing only after a failure, or    *)
(* when it sees producer_closed and not finalize, which is then final.     *)
SessionInv ==
    /\ producer_closed \in BOOLEAN /\ closed \in BOOLEAN
    /\ finalize \in BOOLEAN /\ writer_failed \in BOOLEAN
    /\ mpc \in Receiving => ~finalize /\ ~producer_closed /\ outcome = "running"
    /\ mpc = "construct" => wpc = "unstarted" /\ phase[Self] = "new"
    /\ mpc \in {"close", "join"} => finalize
    /\ mpc = "close" => outcome = "running"
    /\ wpc = "unstarted" => mpc \in {"construct", "exit"}
    /\ wpc \in {"pop", "append", "check", "finalize"} => phase[Self] = "open"
    /\ wpc = "close" => phase[Self] \in {"open", "flushed", "checked"}
    /\ wpc \in {"finalize", "close"} => producer_closed
    /\ wpc = "close" => finalize
    /\ finalize => received = MaxInbound
    /\ wpc = "catch" \/ writer_failed => phase[Self] = "failed"
    /\ wpc = "done" => writer_failed \/ phase[Self] = "closed" \/ (producer_closed /\ ~finalize)
    /\ phase[Self] = "closed" => finalize
    /\ mpc = "hangup" \/ outcome = "ok" => phase[Self] = "closed"
    /\ mpc = "close" => ~producer_closed

RecorderInv == FileInv /\ QueueInv /\ SessionInv

LEMMA InitHolds == Init => RecorderInv
<1> SUFFICES ASSUME Init PROVE RecorderInv  OBVIOUS
<1>1. FileInv
  BY DEF Init, File!Init, FileInv, File!Phases, Writers
<1>2. QueueInv
  BY WritersFacts DEF Init, File!Init, Queue!Init, QueueInv, Writers
<1>3. SessionInv
  BY WritersFacts, Zenon DEF Init, File!Init, SessionInv, Writers
<1> QED  BY <1>1, <1>2, <1>3 DEF RecorderInv

LEMMA FileSteps ==
    ASSUME RecorderInv, [Next]_vars
    PROVE  FileInv'
<1>1. FileInv /\ Self \in Writers  BY WritersFacts DEF RecorderInv
<1>2. CASE UNCHANGED fileVars
  BY <1>1, <1>2 DEF fileVars, FileInv, Written
<1>3. CASE Construct  BY <1>1, <1>3, OpenStep DEF Construct
<1>4. CASE ConstructFails  BY <1>1, <1>4, OpenStep DEF ConstructFails
<1>5. CASE WorkerAppend
  <2>1. CASE File!append(Self, delivered[Len(delivered)])
    <3>1. phase[Self] = "open" /\ Len(delivered) = Len(partial[Self].frames) + 1
      BY <1>5, <2>1 DEF WorkerAppend, File!append, RecorderInv, QueueInv
    <3>2. partial[Self].frames \in Seq(Nat)
      BY <1>1, <3>1 DEF FileInv, Written, File!Capture
    <3>3. Len(partial[Self].frames) \in Nat  BY <3>2, LenProperties
    <3>4. delivered[Len(delivered)] = Len(partial[Self].frames)
      <4> DEFINE n == Len(delivered)
      <4>1. n \in 1 .. Len(delivered)  BY <3>1, <3>3
      <4>2. delivered[n] = n - 1  BY <4>1 DEF RecorderInv, QueueInv
      <4> QED  BY <3>1, <3>3, <4>2
    <3> QED  BY <1>1, <2>1, <3>4, AppendStep
  <2>2. CASE File!AppendFails(Self)  BY <1>1, <2>2, FailStep
  <2> QED  BY <1>5, <2>1, <2>2 DEF WorkerAppend
<1>6. CASE CloseWriter  BY <1>1, <1>6, CloseSteps DEF CloseWriter
<1>7. CASE Crash
  BY <1>1, <1>2, <1>7, FailStep DEF Crash
<1>8. ASSUME NEW w \in Others, Other(w) PROVE FileInv'
  BY <1>1, <1>8, ProcessStep, WritersFacts DEF Other
<1>9. CASE UNCHANGED vars  BY <1>2, <1>9 DEF vars
<1>10. CASE Client
  BY <1>2, <1>3, <1>4, <1>10 DEF Client, RecordCheck, RecordRefused, RecordPush, RecordRejected,
     SocketWrite, SocketRead, Consume, ClientThrows, CloseFinalize, CloseProducer, CloseJoin,
     SocketClose, Abort, AbortJoin
<1>11. CASE Worker
  BY <1>2, <1>5, <1>6, <1>11 DEF Worker, Pop, PopEmpty, CheckClosed, CheckFinalize, Catch
<1> QED  BY <1>7, <1>8, <1>9, <1>10, <1>11 DEF Next, Finished

(* What a step does to the file and the phase of this session.             *)
LEMMA OtherLeaves ==
    ASSUME FileInv, NEW w \in Others, File!Process(w)
    PROVE  phase'[Self] = phase[Self] /\ partial'[Self] = partial[Self]
<1>1. w # Self /\ w \in Writers /\ Self \in Writers  BY WritersFacts
<1> QED
  BY <1>1 DEF FileInv, File!Process, File!Open, File!OpenRefused, File!OpenFails, File!Record,
     File!append, File!AppendFails, File!CloseStep, File!WriteTrailer, File!TrailerFails,
     File!FinalAbsent, File!FinalAppeared, File!Rename, File!RenameFails, File!Crash

LEMMA ClosePhases ==
    ASSUME FileInv, File!CloseStep(Self)
    PROVE  /\ phase[Self] \in {"open", "flushed", "checked"}
           /\ phase'[Self] \in {"flushed", "checked", "closed", "failed"}
<1>1. Self \in Writers  BY WritersFacts
<1> QED
  BY <1>1 DEF FileInv, File!CloseStep, File!WriteTrailer, File!TrailerFails,
     File!FinalAbsent, File!FinalAppeared, File!Rename, File!RenameFails

LEMMA ClientSession ==
    ASSUME RecorderInv, Client
    PROVE  SessionInv'
<1>1. Self \in Writers  BY WritersFacts
<1>2. CASE Construct
  <2>1. phase'[Self] = "open"  BY <1>1, <1>2 DEF RecorderInv, FileInv, Construct, File!Open
  <2> QED  BY <1>2, <2>1 DEF RecorderInv, SessionInv, Receiving, Construct, flags
<1>3. CASE ConstructFails
  <2>1. phase'[Self] = "failed"
    BY <1>1, <1>3 DEF RecorderInv, FileInv, ConstructFails, File!OpenRefused, File!OpenFails
  <2> QED  BY <1>3, <2>1 DEF RecorderInv, SessionInv, Receiving, ConstructFails, flags
<1>4. CASE RecordCheck \/ RecordPush \/ SocketWrite \/ SocketRead \/ Consume
  BY <1>4 DEF RecorderInv, SessionInv, Receiving, RecordCheck, RecordPush, SocketWrite, SocketRead,
     Consume, flags, fileVars
<1>5. CASE RecordRefused \/ RecordRejected \/ ClientThrows
  BY <1>5 DEF RecorderInv, SessionInv, Receiving, RecordRefused, RecordRejected, ClientThrows, Throw,
     flags, fileVars
<1>6. CASE CloseFinalize
  BY <1>6 DEF RecorderInv, SessionInv, Receiving, CloseFinalize, fileVars
<1>7. CASE CloseProducer
  BY <1>7 DEF RecorderInv, SessionInv, Receiving, CloseProducer, fileVars
<1>8. CASE CloseJoin
  BY <1>8 DEF RecorderInv, SessionInv, Receiving, CloseJoin, Throw, flags, fileVars
<1>9. CASE SocketClose
  BY <1>9 DEF RecorderInv, SessionInv, Receiving, SocketClose, flags, fileVars
<1>10. CASE Abort
  BY <1>10, Zenon DEF RecorderInv, SessionInv, Receiving, Abort, fileVars
<1>11. CASE AbortJoin
  BY <1>11 DEF RecorderInv, SessionInv, Receiving, AbortJoin, flags, fileVars
<1> QED
  BY <1>2, <1>3, <1>4, <1>5, <1>6, <1>7, <1>8, <1>9, <1>10, <1>11 DEF Client

LEMMA WorkerSession ==
    ASSUME RecorderInv, Worker
    PROVE  SessionInv'
<1>1. Self \in Writers  BY WritersFacts
<1>2. CASE Pop \/ PopEmpty
  BY <1>2 DEF RecorderInv, SessionInv, Receiving, Pop, PopEmpty, flags, fileVars, clientVars
<1>5. CASE CheckClosed
  BY <1>5 DEF RecorderInv, SessionInv, Receiving, CheckClosed, flags, fileVars, clientVars
<1>6. CASE CheckFinalize
  BY <1>6 DEF RecorderInv, SessionInv, Receiving, CheckFinalize, flags, fileVars, clientVars
<1>7. CASE Catch
  BY <1>7 DEF RecorderInv, SessionInv, Receiving, Catch, fileVars, clientVars
<1>3. CASE WorkerAppend
  <2>1. \/ wpc' = "pop" /\ phase'[Self] = "open"
        \/ wpc' = "catch" /\ phase'[Self] = "failed"
    BY <1>1, <1>3 DEF RecorderInv, FileInv, WorkerAppend, File!append, File!AppendFails
  <2> QED  BY <1>3, <2>1 DEF RecorderInv, SessionInv, Receiving, WorkerAppend, flags, clientVars
<1>4. CASE CloseWriter
  <2>1. /\ phase[Self] \in {"open", "flushed", "checked"}
        /\ phase'[Self] \in {"flushed", "checked", "closed", "failed"}
    BY <1>4, ClosePhases DEF RecorderInv, CloseWriter
  <2> QED  BY <1>4, <2>1 DEF RecorderInv, SessionInv, Receiving, CloseWriter, flags, clientVars
<1> QED  BY <1>2, <1>3, <1>4, <1>5, <1>6, <1>7 DEF Worker

LEMMA SessionSteps ==
    ASSUME RecorderInv, [Next]_vars
    PROVE  SessionInv'
<1>1. Self \in Writers  BY WritersFacts
<1>2. CASE UNCHANGED vars
  BY <1>2 DEF vars, flags, fileVars, clientVars, RecorderInv, SessionInv
<1>3. CASE Crash
  <2>1. \/ phase[Self] \notin {"closed", "failed"} /\ phase'[Self] = "crashed"
        \/ phase[Self] \in {"closed", "failed"} /\ phase'[Self] = phase[Self]
    BY <1>1, <1>3 DEF RecorderInv, FileInv, Crash, File!Crash, fileVars
  <2> QED  BY <1>3, <2>1 DEF RecorderInv, SessionInv, Receiving, Crash, flags
<1>4. ASSUME NEW w \in Others, Other(w) PROVE SessionInv'
  <2>1. phase'[Self] = phase[Self]  BY <1>4, OtherLeaves DEF RecorderInv, Other
  <2> QED  BY <1>4, <2>1 DEF RecorderInv, SessionInv, Other, flags, clientVars
<1> QED  BY <1>2, <1>3, <1>4, ClientSession, WorkerSession DEF Next, Finished

LEMMA PushQueue ==
    ASSUME RecorderInv, RecordPush
    PROVE  QueueInv'
<1>1. /\ queue \in Seq(Nat) /\ index = Len(delivered) + Len(queue) /\ index \in Nat
      /\ queue' = Append(queue, index) /\ index' = index + 1 /\ UNCHANGED <<delivered, wpc, fileVars>>
  BY DEF RecorderInv, QueueInv, Receiving, RecordPush, Queue!Enqueue
<1>2. /\ queue' \in Seq(Nat) /\ Len(queue') = Len(queue) + 1
      /\ \A i \in 1 .. Len(queue) : queue'[i] = queue[i]
      /\ queue'[Len(queue) + 1] = index
  BY <1>1, AppendProperties
<1>3. Len(queue) \in Nat /\ Len(delivered) \in Nat
  BY LenProperties DEF RecorderInv, QueueInv
<1>4. ASSUME NEW i \in 1 .. Len(queue') PROVE queue'[i] = Len(delivered) + i - 1
  <2>1. CASE i = Len(queue) + 1  BY <1>1, <1>2, <1>3, <2>1
  <2>2. CASE i \in 1 .. Len(queue)  BY <1>2, <2>2 DEF RecorderInv, QueueInv
  <2> QED  BY <1>2, <1>3, <2>1, <2>2
<1>5. index' \in Nat /\ index' = Len(delivered') + Len(queue')  BY <1>1, <1>2, <1>3
<1>6. phase' = phase /\ partial' = partial  BY <1>1 DEF fileVars
<1> QED  BY <1>1, <1>2, <1>4, <1>5, <1>6, Zenon DEF RecorderInv, QueueInv

LEMMA PopQueue ==
    ASSUME RecorderInv, Pop
    PROVE  QueueInv'
<1>1. /\ queue \in Seq(Nat) /\ queue # << >> /\ delivered \in Seq(Nat)
      /\ queue' = Tail(queue) /\ delivered' = Append(delivered, Head(queue))
      /\ UNCHANGED <<mpc, index, fileVars>> /\ wpc = "pop" /\ wpc' = "append"
  BY DEF RecorderInv, QueueInv, Pop, Queue!Dequeue, clientVars
<1>2. /\ Len(queue) \in Nat \ {0} /\ queue' \in Seq(Nat) /\ Len(queue') = Len(queue) - 1
      /\ \A i \in 1 .. Len(queue') : queue'[i] = queue[i + 1]
      /\ Head(queue) = queue[1] /\ Head(queue) \in Nat
  BY <1>1, EmptySeq, LenProperties, HeadTailProperties
<1>3. Head(queue) = Len(delivered)
  BY <1>1, <1>2 DEF RecorderInv, QueueInv
<1>4. /\ delivered' \in Seq(Nat) /\ Len(delivered') = Len(delivered) + 1
      /\ \A i \in 1 .. Len(delivered) : delivered'[i] = delivered[i]
      /\ delivered'[Len(delivered) + 1] = Len(delivered)
  BY <1>1, <1>2, <1>3, AppendProperties
<1>5. \A i \in 1 .. Len(delivered') : delivered'[i] = i - 1
  BY <1>1, <1>4 DEF RecorderInv, QueueInv
<1>6. \A i \in 1 .. Len(queue') : queue'[i] = Len(delivered') + i - 1
  BY <1>1, <1>2, <1>4 DEF RecorderInv, QueueInv
<1>7. phase'[Self] = "open" => Len(delivered') = Len(partial'[Self].frames) + 1
  BY <1>1, <1>4 DEF RecorderInv, QueueInv, fileVars
<1>8. mpc' \in Receiving => index' = Len(delivered') + Len(queue')
  BY <1>1, <1>2, <1>4 DEF RecorderInv, QueueInv
<1> QED  BY <1>1, <1>2, <1>4, <1>5, <1>6, <1>7, <1>8 DEF RecorderInv, QueueInv

LEMMA AppendQueue ==
    ASSUME RecorderInv, WorkerAppend
    PROVE  QueueInv'
<1>1. Self \in Writers  BY WritersFacts
<1>2. UNCHANGED <<queue, delivered, mpc, index>> /\ wpc = "append" /\ wpc' \in {"pop", "catch"}
  BY DEF WorkerAppend, queueVars, clientVars
<1>3. phase'[Self] = "open" => Len(delivered) = Len(partial'[Self].frames)
  <2>1. CASE File!append(Self, delivered[Len(delivered)])
    <3>1. phase[Self] = "open" /\ partial[Self] \in File!Capture
      BY <1>1, <2>1 DEF RecorderInv, FileInv, Written, File!append
    <3>2. partial[Self].frames \in Seq(Nat)  BY <3>1 DEF File!Capture
    <3>3. partial'[Self].frames = Append(partial[Self].frames, delivered[Len(delivered)])
      BY <1>1, <2>1, <3>1 DEF RecorderInv, FileInv, File!append, File!Capture
    <3>4. Len(partial'[Self].frames) = Len(partial[Self].frames) + 1
      BY <3>2, <3>3
    <3> QED  BY <1>2, <3>1, <3>4 DEF RecorderInv, QueueInv
  <2>2. CASE File!AppendFails(Self)
    BY <1>1, <2>2 DEF RecorderInv, FileInv, File!AppendFails
  <2> QED  BY <2>1, <2>2 DEF WorkerAppend
<1>4. Len(delivered) \in Nat  BY LenProperties DEF RecorderInv, QueueInv
<1>5. phase'[Self] = "open" =>
        Len(delivered') = Len(partial'[Self].frames) + (IF wpc' = "append" THEN 1 ELSE 0)
  <2> SUFFICES ASSUME phase'[Self] = "open"
               PROVE  Len(delivered') = Len(partial'[Self].frames) + (IF wpc' = "append" THEN 1 ELSE 0)
    BY Zenon
  <2>1. delivered' = delivered /\ (IF wpc' = "append" THEN 1 ELSE 0) = 0  BY <1>2
  <2>2. Len(partial'[Self].frames) = Len(delivered)  BY <1>3
  <2> QED  BY <1>4, <2>1, <2>2
<1> QED  BY <1>2, <1>5, Zenon DEF RecorderInv, QueueInv

LEMMA QueueSteps ==
    ASSUME RecorderInv, [Next]_vars
    PROVE  QueueInv'
<1>1. Self \in Writers  BY WritersFacts
<1>2. ASSUME UNCHANGED <<queue, delivered, wpc>>, phase'[Self] = phase[Self],
             partial'[Self] = partial[Self], index' \in Nat,
             mpc' \in Receiving => mpc \in Receiving /\ index' = index
      PROVE  QueueInv'
  BY <1>2, Zenon DEF RecorderInv, QueueInv
<1>3. ASSUME UNCHANGED <<queue, delivered, index>>, phase'[Self] # "open",
             mpc' \in Receiving => mpc \in Receiving,
             wpc' = "unstarted" => wpc = "unstarted"
      PROVE  QueueInv'
  BY <1>3, Zenon DEF RecorderInv, QueueInv
<1>4. index \in Nat  BY DEF RecorderInv, QueueInv
<1>5. CASE Client
  <2>1. CASE Construct
    <3>1. /\ phase'[Self] = "open" /\ partial'[Self].frames = << >>
          /\ UNCHANGED <<queue, delivered, index>> /\ wpc' = "pop" /\ wpc = "unstarted"
          /\ mpc \in Receiving
      BY <1>1, <2>1 DEF RecorderInv, FileInv, SessionInv, Receiving, Construct, File!Open, File!Empty,
         queueVars
    <3> QED  BY <3>1 DEF RecorderInv, QueueInv
  <2>2. CASE ConstructFails
    <3>1. phase'[Self] = "failed"
      BY <1>1, <2>2 DEF RecorderInv, FileInv, ConstructFails, File!OpenRefused, File!OpenFails
    <3> QED  BY <1>3, <2>2, <3>1 DEF ConstructFails, Receiving, queueVars
  <2>3. CASE RecordPush  BY <2>3, PushQueue
  <2>4. CASE RecordCheck \/ RecordRefused \/ RecordRejected \/ SocketWrite \/ SocketRead \/ Consume
             \/ ClientThrows \/ CloseFinalize \/ CloseProducer \/ CloseJoin \/ SocketClose
             \/ Abort \/ AbortJoin
    BY <1>2, <1>4, <2>4 DEF RecordCheck, RecordRefused, RecordRejected, SocketWrite, SocketRead,
       Consume, ClientThrows, CloseFinalize, CloseProducer, CloseJoin, SocketClose, Abort, AbortJoin,
       Throw, Receiving, queueVars, fileVars
  <2> QED  BY <1>5, <2>1, <2>2, <2>3, <2>4 DEF Client
<1>6. CASE Worker
  <2>1. CASE Pop  BY <2>1, PopQueue
  <2>2. CASE WorkerAppend  BY <2>2, AppendQueue
  <2>3. CASE PopEmpty \/ CheckClosed \/ CheckFinalize \/ Catch
    <3>1. /\ UNCHANGED <<queue, delivered, index, mpc, phase, partial>>
          /\ wpc \notin {"append", "unstarted"} /\ wpc' \notin {"append", "unstarted"}
      BY <2>3 DEF PopEmpty, CheckClosed, CheckFinalize, Catch, queueVars, clientVars, fileVars
    <3> QED  BY <3>1, Zenon DEF RecorderInv, QueueInv
  <2>4. CASE CloseWriter
    <3>1. phase'[Self] # "open"  BY <2>4, ClosePhases DEF RecorderInv, CloseWriter
    <3> QED  BY <1>3, <2>4, <3>1 DEF CloseWriter, queueVars, clientVars
  <2> QED  BY <1>6, <2>1, <2>2, <2>3, <2>4 DEF Worker
<1>7. CASE Crash
  <2>1. phase'[Self] # "open"
    BY <1>1, <1>7 DEF RecorderInv, FileInv, Crash, File!Crash, fileVars
  <2> QED  BY <1>3, <1>7, <2>1 DEF Crash, Receiving, queueVars
<1>8. ASSUME NEW w \in Others, Other(w) PROVE QueueInv'
  <2>1. phase'[Self] = phase[Self] /\ partial'[Self] = partial[Self]
    BY <1>8, OtherLeaves DEF RecorderInv, Other
  <2> QED  BY <1>2, <1>4, <1>8, <2>1 DEF Other, queueVars, clientVars
<1>9. CASE UNCHANGED vars
  BY <1>2, <1>4, <1>9 DEF vars, queueVars, clientVars, fileVars
<1> QED  BY <1>5, <1>6, <1>7, <1>8, <1>9 DEF Next, Finished

-----------------------------------------------------------------------------
(* The inductive invariant of a recorded session.                          *)
THEOREM RecorderInvariance == Spec => []RecorderInv
<1>1. ASSUME RecorderInv, [Next]_vars PROVE RecorderInv'
  BY <1>1, FileSteps, QueueSteps, SessionSteps DEF RecorderInv
<1> QED  BY InitHolds, <1>1, PTL DEF Spec

(* Whatever fails or is killed in this session or in the others that       *)
(* record to the path, the file at the final path is complete, replays to  *)
(* its end and comes from a close() that returned normally.                *)
THEOREM AtomicPublication == Spec => []PublishedComplete
<1>1. RecorderInv => PublishedComplete
  BY DEF RecorderInv, FileInv, Written, PublishedComplete, File!PublishedComplete, File!Replays, File!Opens
<1> QED  BY <1>1, RecorderInvariance, PTL

(* A capture is published only by a session that received all its frames   *)
(* and whose worker did not fail.                                          *)
THEOREM OnlyCompleteSessions == Spec => []PublishedOnlyIfAllReceived
<1>1. RecorderInv => PublishedOnlyIfAllReceived
  BY DEF RecorderInv, SessionInv, PublishedOnlyIfAllReceived
<1> QED  BY <1>1, RecorderInvariance, PTL

(* A session that ends normally has published its capture.                 *)
THEOREM SuccessPublishes == Spec => []SuccessIsPublished
<1>1. RecorderInv => SuccessIsPublished
  BY WritersFacts DEF RecorderInv, FileInv, SessionInv, Written, SuccessIsPublished, File!Replays, File!Opens
<1> QED  BY <1>1, RecorderInvariance, PTL

-----------------------------------------------------------------------------
(* The order of the frames: whatever this session has left at either path, *)
(* also after a failure, is numbered 0, 1, 2, ... and no longer than what  *)
(* the worker has popped.                                                  *)
KeptBy(file, n) == file # NoFile => Written(file, Self) /\ Len(file.frames) <= n

OrderInv == /\ KeptBy(partial[Self], Len(delivered))
            /\ final # NoFile /\ final.owner = Self => KeptBy(final, Len(delivered))

LEMMA RemainsKept ==
    ASSUME NEW n \in Nat, NEW file, Written(file, Self), Len(file.frames) <= n,
           NEW left \in File!Remains(file) \cup {[file EXCEPT !.trailer = TRUE]}
    PROVE  KeptBy(left, n)
<1>1. file \in File!Capture /\ file.frames \in Seq(Nat)  BY DEF Written, File!Capture
<1>2. left \in File!Capture  BY <1>1, RemainsAreCaptures, Zenon
<1>3. CASE left = [file EXCEPT !.trailer = TRUE]
  BY <1>1, <1>2, <1>3 DEF KeptBy, Written, File!Capture
<1>4. ASSUME NEW k \in 0 .. Len(file.frames), left = [file EXCEPT !.frames = SubSeq(file.frames, 1, k)]
      PROVE  KeptBy(left, n)
  <2>1. Len(file.frames) \in Nat /\ k \in Nat  BY <1>1, LenProperties
  <2>2. /\ SubSeq(file.frames, 1, k) \in Seq(Nat)
        /\ Len(SubSeq(file.frames, 1, k)) = k
        /\ \A i \in 1 .. k : SubSeq(file.frames, 1, k)[i] = file.frames[i]
    BY <1>1, Prefix
  <2>3. left.frames = SubSeq(file.frames, 1, k) /\ left.owner = file.owner
    BY <1>1, <1>4 DEF File!Capture
  <2>4. DOMAIN file.frames = 1 .. Len(file.frames) /\ DOMAIN left.frames = 1 .. k
    BY <1>1, <2>2, <2>3, LenProperties
  <2>5. File!Contiguous(left.frames)
    BY <2>1, <2>2, <2>3, <2>4 DEF Written, File!Contiguous
  <2> QED  BY <1>2, <2>1, <2>2, <2>3, <2>5 DEF KeptBy, Written
<1> QED  BY <1>3, <1>4 DEF File!Remains

LEMMA SelfFile ==
    ASSUME FileInv, NEW n \in Nat, KeptBy(partial[Self], n),
           \/ File!Open(Self) \/ File!OpenRefused(Self) \/ File!OpenFails(Self)
           \/ File!AppendFails(Self) \/ File!CloseStep(Self) \/ File!Crash(Self)
    PROVE  KeptBy(partial'[Self], n) /\ final' \in {final, partial[Self]}
<1>1. Self \in Writers  BY WritersFacts
<1>2. KeptBy(File!Empty(Self), n) /\ KeptBy(NoFile, n)
  <2>1. Len(<< >>) = 0 /\ << >> \in Seq(Nat)  OBVIOUS
  <2> QED  BY <1>1, <2>1 DEF KeptBy, File!Empty, Written, File!Capture, File!Contiguous, Writers
<1>3. phase[Self] = "open" =>
        \A left \in File!Remains(partial[Self]) \cup {[partial[Self] EXCEPT !.trailer = TRUE]} : KeptBy(left, n)
  <2>1. phase[Self] = "open" => Written(partial[Self], Self) /\ Len(partial[Self].frames) <= n
    BY <1>1, RecorderAssumption DEF FileInv, KeptBy, Written
  <2> QED  BY <2>1, RemainsKept
<1>4. CASE File!Open(Self) \/ File!OpenRefused(Self) \/ File!OpenFails(Self)
  BY <1>1, <1>2, <1>4 DEF FileInv, File!Open, File!OpenRefused, File!OpenFails
<1>5. CASE File!AppendFails(Self) \/ File!TrailerFails(Self) \/ File!Crash(Self) \/ File!WriteTrailer(Self)
  <2>1. \/ partial' = partial
        \/ /\ phase[Self] = "open"
           /\ \E left \in File!Remains(partial[Self]) \cup {[partial[Self] EXCEPT !.trailer = TRUE]} :
                 partial' = [partial EXCEPT ![Self] = left]
    BY <1>1, <1>5 DEF FileInv, File!AppendFails, File!TrailerFails, File!Crash, File!WriteTrailer
  <2>2. UNCHANGED final
    BY <1>5 DEF File!AppendFails, File!TrailerFails, File!Crash, File!WriteTrailer
  <2> QED  BY <1>1, <1>3, <2>1, <2>2 DEF FileInv
<1>6. CASE File!FinalAbsent(Self) \/ File!FinalAppeared(Self) \/ File!RenameFails(Self)
  BY <1>6 DEF File!FinalAbsent, File!FinalAppeared, File!RenameFails
<1>7. CASE File!Rename(Self)
  BY <1>1, <1>2, <1>7 DEF FileInv, File!Rename
<1> QED  BY <1>4, <1>5, <1>6, <1>7 DEF File!CloseStep

LEMMA OtherFinal ==
    ASSUME FileInv, NEW w \in Others, File!Process(w)
    PROVE  final' = final \/ final'.owner # Self
<1>1. w # Self /\ w \in Writers  BY WritersFacts
<1>2. CASE File!Rename(w)
  BY <1>1, <1>2 DEF FileInv, Written, File!Rename
<1>3. CASE ~File!Rename(w)
  BY <1>3 DEF File!Process, File!Open, File!OpenRefused, File!OpenFails, File!Record,
     File!append, File!AppendFails, File!CloseStep, File!WriteTrailer, File!TrailerFails,
     File!FinalAbsent, File!FinalAppeared, File!RenameFails, File!Crash
<1> QED  BY <1>2, <1>3

LEMMA ConcatNumbered ==
    ASSUME NEW s \in Seq(Nat), NEW t \in Seq(Nat),
           \A i \in 1 .. Len(s) : s[i] = i - 1,
           \A i \in 1 .. Len(t) : t[i] = Len(s) + i - 1
    PROVE  \A i \in 1 .. Len(s \o t) : (s \o t)[i] = i - 1
<1>1. Len(s) \in Nat /\ Len(t) \in Nat  BY LenProperties
<1>2. Len(s \o t) = Len(s) + Len(t)  BY ConcatProperties
<1>3. \A i \in 1 .. Len(s) + Len(t) : (s \o t)[i] = IF i <= Len(s) THEN s[i] ELSE t[i - Len(s)]
  BY ConcatProperties
<1> SUFFICES ASSUME NEW i \in 1 .. Len(s) + Len(t)
             PROVE  (IF i <= Len(s) THEN s[i] ELSE t[i - Len(s)]) = i - 1
  BY <1>2, <1>3
<1>4. CASE i <= Len(s)  BY <1>1, <1>4
<1>5. CASE i > Len(s)
  <2>1. i - Len(s) \in 1 .. Len(t)  BY <1>1, <1>5
  <2>2. t[i - Len(s)] = Len(s) + (i - Len(s)) - 1  BY <2>1
  <2> QED  BY <1>1, <1>5, <2>2
<1> QED  BY <1>1, <1>4, <1>5

LEMMA OrderSteps ==
    ASSUME RecorderInv, RecorderInv', OrderInv, [Next]_vars
    PROVE  OrderInv'
<1>1. FileInv /\ FileInv' /\ QueueInv /\ QueueInv' /\ Self \in Writers
  BY WritersFacts DEF RecorderInv
<1> DEFINE n == Len(delivered)
           m == Len(delivered')
<1>2. n \in Nat /\ m \in Nat  BY <1>1, LenProperties DEF QueueInv
<1>3. n <= m
  <2>1. CASE Pop
    <3>1. \E x \in Nat : delivered' = Append(delivered, x)
      BY <1>1, <2>1, HeadTailProperties DEF Pop, Queue!Dequeue, QueueInv
    <3> QED  BY <1>1, <1>2, <3>1, AppendProperties DEF QueueInv
  <2>2. CASE UNCHANGED delivered  BY <1>2, <2>2
  <2> QED
    BY <2>1, <2>2, Zenon DEF Next, vars, queueVars, Client, Construct, ConstructFails, RecordCheck,
       RecordRefused, RecordPush, Queue!Enqueue, RecordRejected, SocketWrite, SocketRead, Consume,
       ClientThrows, CloseFinalize, CloseProducer, CloseJoin, SocketClose, Abort, AbortJoin,
       Worker, PopEmpty, WorkerAppend, CheckClosed, CheckFinalize, CloseWriter, Catch, Crash,
       Other, Finished
<1>4. ASSUME NEW file, KeptBy(file, n) PROVE KeptBy(file, m)
  <2>1. Written(file, Self) => Len(file.frames) \in Nat
    BY LenProperties DEF Written, File!Capture
  <2> QED  BY <1>2, <1>3, <1>4, <2>1 DEF KeptBy
<1>5. KeptBy(partial[Self], n) /\ (final # NoFile /\ final.owner = Self => KeptBy(final, n))
  BY DEF OrderInv
<1> SUFFICES /\ KeptBy(partial'[Self], m)
             /\ final' # NoFile /\ final'.owner = Self => KeptBy(final', m)
  BY DEF OrderInv, KeptBy, Written
<1> HIDE DEF n, m
<1>6. CASE UNCHANGED fileVars
  BY <1>4, <1>5, <1>6 DEF fileVars
<1>7. CASE \/ File!Open(Self) \/ File!OpenRefused(Self) \/ File!OpenFails(Self)
           \/ File!AppendFails(Self) \/ File!CloseStep(Self) \/ File!Crash(Self)
  <2>1. KeptBy(partial'[Self], n) /\ final' \in {final, partial[Self]}
    BY <1>1, <1>2, <1>5, <1>7, SelfFile
  <2> QED  BY <1>4, <1>5, <2>1
<1>8. CASE wpc = "append" /\ File!append(Self, delivered[Len(delivered)]) /\ wpc' = "pop"
  <2>1. phase'[Self] = "open" /\ UNCHANGED final
    BY <1>8 DEF File!append
  <2>2. Written(partial'[Self], Self) /\ m = Len(partial'[Self].frames)
    <3>1. Written(partial'[Self], Self)
      BY <1>1, <2>1 DEF FileInv, Written
    <3>2. Len(partial'[Self].frames) \in Nat
      BY <3>1, LenProperties DEF Written, File!Capture
    <3> QED  BY <1>1, <1>8, <2>1, <3>1, <3>2 DEF QueueInv, m
  <2> QED  BY <1>2, <1>4, <1>5, <2>1, <2>2 DEF KeptBy
<1>9. ASSUME NEW w \in Others, Other(w)
      PROVE  /\ KeptBy(partial'[Self], m)
             /\ final' # NoFile /\ final'.owner = Self => KeptBy(final', m)
  BY <1>1, <1>4, <1>5, <1>9, OtherFinal, OtherLeaves DEF Other
<1>10. CASE Client
  BY <1>6, <1>7, <1>10, Zenon DEF Client, Construct, ConstructFails, RecordCheck, RecordRefused,
     RecordPush, RecordRejected, SocketWrite, SocketRead, Consume, ClientThrows, CloseFinalize,
     CloseProducer, CloseJoin, SocketClose, Abort, AbortJoin
<1>11. CASE Worker
  BY <1>6, <1>7, <1>8, <1>11 DEF Worker, Pop, PopEmpty, WorkerAppend, CheckClosed,
     CheckFinalize, CloseWriter, Catch
<1>12. CASE Crash  BY <1>6, <1>7, <1>12 DEF Crash
<1>13. CASE UNCHANGED vars  BY <1>6, <1>13 DEF vars
<1> QED  BY <1>9, <1>10, <1>11, <1>12, <1>13 DEF Next, Finished

(* Every file of this session, whole or left over from a failure or a      *)
(* kill, holds a prefix of the accepted frames, in the order of record().  *)
THEOREM OrderedRecording == Spec => []RecordedInOrder
<1>1. Init => OrderInv
  BY WritersFacts DEF Init, File!Init, OrderInv, KeptBy, Writers
<1>2. RecorderInv /\ OrderInv => RecordedInOrder
  <2> SUFFICES ASSUME RecorderInv, OrderInv PROVE RecordedInOrder
    OBVIOUS
  <2>1. /\ delivered \in Seq(Nat) /\ queue \in Seq(Nat)
        /\ Len(delivered) \in Nat /\ Len(queue) \in Nat
        /\ \A i \in 1 .. Len(delivered) : delivered[i] = i - 1
        /\ \A i \in 1 .. Len(queue) : queue[i] = Len(delivered) + i - 1
    BY LenProperties DEF RecorderInv, QueueInv
  <2>2. Accepted \in Seq(Nat) /\ Len(Accepted) = Len(delivered) + Len(queue)
    BY <2>1, ConcatProperties DEF Accepted
  <2>3. \A i \in 1 .. Len(Accepted) : Accepted[i] = i - 1
    BY <2>1, <2>2, ConcatNumbered DEF Accepted
  <2>4. File!Contiguous(Accepted)
    BY <2>2, <2>3, LenProperties DEF File!Contiguous
  <2>5. ASSUME NEW file, Written(file, Self), Len(file.frames) <= Len(delivered)
        PROVE  \E n \in 0 .. Len(Accepted) : file.frames = SubSeq(Accepted, 1, n)
    <3> DEFINE k == Len(file.frames)
    <3>1. file.frames \in Seq(Nat) /\ k \in Nat /\ k <= Len(Accepted)
          /\ \A i \in 1 .. k : file.frames[i] = i - 1
      <4>1. file.frames \in Seq(Nat)  BY <2>5 DEF Written, File!Capture
      <4>2. k \in Nat /\ DOMAIN file.frames = 1 .. k  BY <4>1, LenProperties
      <4>3. k <= Len(Accepted)  BY <2>1, <2>2, <2>5, <4>2
      <4>4. \A i \in 1 .. k : file.frames[i] = i - 1
        BY <2>5, <4>2 DEF Written, File!Contiguous
      <4> QED  BY <4>1, <4>2, <4>3, <4>4
    <3>2. /\ SubSeq(Accepted, 1, k) \in Seq(Nat) /\ Len(SubSeq(Accepted, 1, k)) = k
          /\ \A i \in 1 .. k : SubSeq(Accepted, 1, k)[i] = Accepted[i]
      <4>1. k \in 0 .. Len(Accepted)  BY <2>2, <3>1
      <4> QED  BY <2>2, <4>1, Prefix
    <3>3. \A i \in 1 .. k : file.frames[i] = SubSeq(Accepted, 1, k)[i]
      BY <2>1, <2>2, <2>3, <3>1, <3>2
    <3>4. file.frames = SubSeq(Accepted, 1, k)
      BY <3>1, <3>2, <3>3, SeqEqual
    <3>5. k \in 0 .. Len(Accepted)  BY <2>1, <2>2, <3>1
    <3> QED  BY <3>4, <3>5
  <2> QED  BY <2>4, <2>5 DEF RecordedInOrder, OrderInv, KeptBy
<1>3. RecorderInv /\ RecorderInv' /\ OrderInv /\ [Next]_vars => OrderInv'
  BY OrderSteps
<1> QED  BY <1>1, <1>2, <1>3, RecorderInvariance, PTL DEF Spec
-----------------------------------------------------------------------------
(* The control points, and the counters at each of them: record() takes    *)
(* the subscription and then each inbound frame before the book does.      *)
ControlInv ==
    /\ index \in 0 .. MaxInbound + 1 /\ received \in 0 .. MaxInbound
    /\ outcome \in {"running", "ok", "failed"}
    /\ mpc \in Receiving \cup {"close", "join", "hangup", "destroy", "abort_join", "exit", "crashed"}
    /\ wpc \in {"unstarted", "pop", "append", "check", "finalize", "close", "catch", "done", "crashed"}
    /\ mpc = "construct" => index = 0 /\ received = 0
    /\ mpc \in {"record", "push"} => \/ index = 0 /\ received = 0
                                     \/ index = received + 1 /\ received < MaxInbound
    /\ mpc = "subscribe" => index = 1 /\ received = 0
    /\ mpc = "receive" => index = received + 1
    /\ mpc = "consume" => index = received + 2 /\ received < MaxInbound

(* Every step of the client, of the worker and of others keeps them.       *)
LEMMA ControlSteps ==
    ASSUME ControlInv, [Next]_vars
    PROVE  ControlInv'
<1> USE RecorderAssumption DEF ControlInv, Receiving
<1>1. CASE Client
  <2>1. CASE Construct \/ ConstructFails  BY <2>1 DEF Construct, ConstructFails
  <2>2. CASE RecordCheck \/ RecordRefused \/ RecordPush \/ RecordRejected
    BY <2>2 DEF RecordCheck, RecordRefused, RecordPush, RecordRejected, Throw
  <2>3. CASE SocketWrite \/ SocketRead \/ Consume \/ ClientThrows
    BY <2>3 DEF SocketWrite, SocketRead, Consume, ClientThrows, Throw
  <2>4. CASE CloseFinalize \/ CloseProducer \/ CloseJoin \/ SocketClose \/ Abort \/ AbortJoin
    BY <2>4 DEF CloseFinalize, CloseProducer, CloseJoin, SocketClose, Abort, AbortJoin, Throw
  <2> QED  BY <1>1, <2>1, <2>2, <2>3, <2>4 DEF Client
<1>2. CASE Worker
  BY <1>2 DEF Worker, Pop, PopEmpty, WorkerAppend, CheckClosed, CheckFinalize, CloseWriter, Catch,
     clientVars
<1>3. CASE Crash  BY <1>3 DEF Crash
<1>4. CASE \E w \in Others : Other(w)  BY <1>4 DEF Other, clientVars
<1>5. CASE UNCHANGED vars  BY <1>5 DEF vars, clientVars
<1> QED  BY <1>1, <1>2, <1>3, <1>4, <1>5 DEF Next, Finished

(* The variables of a session keep their types, and live() records no more *)
(* than the subscription and the frames it was asked for.                  *)
THEOREM TypeCorrect == Spec => []TypeOK
<1>1. Init => ControlInv  BY RecorderAssumption DEF Init, ControlInv, Receiving
<1>2. ControlInv /\ [Next]_vars => ControlInv'  BY ControlSteps
<1>3. RecorderInv /\ ControlInv => TypeOK
  <2> SUFFICES ASSUME RecorderInv, ControlInv PROVE TypeOK  OBVIOUS
  <2>1. File!TypeOK  BY DEF RecorderInv, FileInv, Written, File!TypeOK, Writers
  <2> QED  BY <2>1 DEF RecorderInv, QueueInv, SessionInv, ControlInv, Receiving, TypeOK
<1> QED  BY <1>1, <1>2, <1>3, RecorderInvariance, PTL DEF Spec
=============================================================================
