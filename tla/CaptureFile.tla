---------------------------- MODULE CaptureFile ----------------------------
(***************************************************************************)
(* LLFR v2 capture files: RawFrameCaptureWriter publishes a recording by   *)
(* renaming a finished .partial file, RawFrameCaptureReader accepts only   *)
(* files that end in the completion marker (raw_frame_capture.hpp).        *)
(* Several processes may record to one path; each has a partial file of    *)
(* its own.  A process may fail or be killed at any step; what the stream  *)
(* had not flushed by then is lost.                                        *)
(***************************************************************************)
EXTENDS Naturals, Sequences

CONSTANTS Writers,   \* the recording processes
          MaxFrames, \* bound: frames one of them records
          NoFile     \* no file at this path

VARIABLES partial,   \* partial[w]: the file at partial_path_ of w
          final,     \* the file at final_path_
          phase      \* how far w's writer got

fileVars == <<partial, final, phase>>

Phases == {"new", "open", "flushed", "checked", "closed", "failed", "crashed"}

Capture == [owner : Writers, frames : Seq(Nat), trailer : BOOLEAN]

Init == /\ partial = [w \in Writers |-> NoFile]
        /\ final = NoFile
        /\ phase = [w \in Writers |-> "new"]

-----------------------------------------------------------------------------
(* The files that a failed or killed writer can leave behind: some of the  *)
(* records, perhaps with half a record behind them.                        *)
Remains(file) ==
    {[file EXCEPT !.frames = SubSeq(file.frames, 1, n)] : n \in 0 .. Len(file.frames)}

Empty(w) == [owner |-> w, frames |-> << >>, trailer |-> FALSE]

(* The constructor refuses a path that already holds a capture.            *)
Open(w) == /\ phase[w] = "new"
           /\ final = NoFile
           /\ partial' = [partial EXCEPT ![w] = Empty(w)]
           /\ phase' = [phase EXCEPT ![w] = "open"]
           /\ UNCHANGED final

OpenRefused(w) == /\ phase[w] = "new"
                  /\ final # NoFile
                  /\ phase' = [phase EXCEPT ![w] = "failed"]
                  /\ UNCHANGED <<partial, final>>

(* The partial file cannot be created, or its header not be written.       *)
OpenFails(w) == /\ phase[w] = "new"
                /\ final = NoFile
                /\ \E file \in {NoFile, Empty(w)} : partial' = [partial EXCEPT ![w] = file]
                /\ phase' = [phase EXCEPT ![w] = "failed"]
                /\ UNCHANGED final

append(w, index) == /\ phase[w] = "open"
                    /\ partial' = [partial EXCEPT ![w].frames = Append(@, index)]
                    /\ UNCHANGED <<final, phase>>

AppendFails(w) == /\ phase[w] = "open"
                  /\ \E file \in Remains(partial[w]) : partial' = [partial EXCEPT ![w] = file]
                  /\ phase' = [phase EXCEPT ![w] = "failed"]
                  /\ UNCHANGED final

(* close(): the marker is written and the stream flushed and closed ...    *)
WriteTrailer(w) == /\ phase[w] = "open"
                   /\ partial' = [partial EXCEPT ![w].trailer = TRUE]
                   /\ phase' = [phase EXCEPT ![w] = "flushed"]
                   /\ UNCHANGED final

(* Mutant: the stream is not checked after close().                        *)
TrailerFails_Unchecked(w) ==
    /\ phase[w] = "open"
    /\ \E file \in Remains(partial[w]) : partial' = [partial EXCEPT ![w] = file]
    /\ phase' = [phase EXCEPT ![w] = "flushed"]
    /\ UNCHANGED final

TrailerFails(w) == /\ phase[w] = "open"
                   /\ \E file \in Remains(partial[w]) \cup {[partial[w] EXCEPT !.trailer = TRUE]} :
                          partial' = [partial EXCEPT ![w] = file]
                   /\ phase' = [phase EXCEPT ![w] = "failed"]
                   /\ UNCHANGED final

(* ... then the final path is looked up ...                                *)
FinalAbsent(w) == /\ phase[w] = "flushed"
                  /\ final = NoFile
                  /\ phase' = [phase EXCEPT ![w] = "checked"]
                  /\ UNCHANGED <<partial, final>>

FinalAppeared(w) == /\ phase[w] = "flushed"
                    /\ final # NoFile
                    /\ phase' = [phase EXCEPT ![w] = "failed"]
                    /\ UNCHANGED <<partial, final>>

(* ... and the partial file renamed, whatever is there by now.             *)
Rename(w) == /\ phase[w] = "checked"
             /\ final' = partial[w]
             /\ partial' = [partial EXCEPT ![w] = NoFile]
             /\ phase' = [phase EXCEPT ![w] = "closed"]

RenameFails(w) == /\ phase[w] = "checked"
                  /\ phase' = [phase EXCEPT ![w] = "failed"]
                  /\ UNCHANGED <<partial, final>>

(* The steps of one call of close().                                       *)
CloseStep(w) == \/ WriteTrailer(w)
                \/ TrailerFails(w)
                \/ FinalAbsent(w)
                \/ FinalAppeared(w)
                \/ Rename(w)
                \/ RenameFails(w)

(* The process is killed.                                                  *)
Crash(w) == /\ phase[w] \notin {"closed", "failed", "crashed"}
            /\ phase' = [phase EXCEPT ![w] = "crashed"]
            /\ IF phase[w] = "open"
               THEN \E file \in Remains(partial[w]) : partial' = [partial EXCEPT ![w] = file]
               ELSE UNCHANGED partial
            /\ UNCHANGED final

-----------------------------------------------------------------------------
(* The reader's constructor looks for the completion marker, and next()    *)
(* throws at the first record whose capture index is not the expected one. *)
Opens(file) == file # NoFile /\ file.trailer

Contiguous(frames) == \A i \in DOMAIN frames : frames[i] = i - 1

Replays(file) == Opens(file) /\ Contiguous(file.frames)

-----------------------------------------------------------------------------
(* The frames come numbered from 0, as live() numbers them.                *)
Record(w) == /\ phase[w] = "open"
             /\ Len(partial[w].frames) < MaxFrames
             /\ append(w, Len(partial[w].frames))

Finished == /\ \A w \in Writers : phase[w] \in {"closed", "failed", "crashed"}
            /\ UNCHANGED fileVars

(* Everything a process does to its file.                                  *)
Process(w) == \/ Open(w) \/ OpenRefused(w) \/ OpenFails(w)
              \/ Record(w) \/ AppendFails(w)
              \/ CloseStep(w)
              \/ Crash(w)

Next == (\E w \in Writers : Process(w)) \/ Finished

Spec == Init /\ [][Next]_fileVars

-----------------------------------------------------------------------------
(* Every path holds nothing or a capture, every writer is in a phase of    *)
(* its constructor, append or close.                                       *)
TypeOK == /\ partial \in [Writers -> Capture \cup {NoFile}]
          /\ final \in Capture \cup {NoFile}
          /\ phase \in [Writers -> Phases]

(* Atomic publication: at every moment, whatever has failed or been killed *)
(* and whoever else is recording to the path, the file at the final path   *)
(* is complete, replays to its end, and comes from a close() that returned *)
(* normally.                                                               *)
PublishedComplete ==
    final # NoFile => Replays(final) /\ phase[final.owner] = "closed"

(* raw_frame_capture.cpp (test) "completed capture overwrite accepted": a  *)
(* capture that was published is never replaced by another recording.      *)
CompletedNotReplaced == [][final # NoFile => final' = final]_fileVars
=============================================================================
