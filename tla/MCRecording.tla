----------------------------- MODULE MCRecording -----------------------------
(***************************************************************************)
(* The way of a recording: the keyboard's reports into the Pico's ring     *)
(* (KeyboardHost), the recorded ones into a session of the Zero            *)
(* (RecordingLink), their times into deltas and back (Timeline), and the   *)
(* recording into its file (RecordingStore).  Each part reads what the one *)
(* before it has finished with, and none of its variables; so in each      *)
(* behaviour one of them moves.                                            *)
(***************************************************************************)
EXTENDS KeyboardHost, RecordingLink, Timeline, RecordingStore

VARIABLE part    \* the part that moves

recordingVars == <<part, hostVars, linkVars, timelineVars, storeVars>>

RecordingInit ==
    /\ HostInit /\ LinkInit /\ TimelineInit /\ StoreInit
    /\ part \in {"host", "link", "timeline", "store"}

RecordingNext ==
    \/ part = "host" /\ HostNext
          /\ UNCHANGED <<part, linkVars, timelineVars, storeVars>>
    \/ part = "link" /\ LinkNext
          /\ UNCHANGED <<part, hostVars, timelineVars, storeVars>>
    \/ part = "timeline" /\ TimelineNext
          /\ UNCHANGED <<part, hostVars, linkVars, storeVars>>
    \/ part = "store" /\ StoreNext
          /\ UNCHANGED <<part, hostVars, linkVars, timelineVars>>

RecordingSpec == RecordingInit /\ [][RecordingNext]_recordingVars

=============================================================================
