----------------------------- MODULE MCPlayback -----------------------------
(***************************************************************************)
(* What PlaybackStream leaves to other models: when an event is sent       *)
(* (TimedScheduler) and what is told of it afterwards (LatenessMetrics),   *)
(* the two halves of playback_scheduler.c; and the life of a session       *)
(* around the streaming (PlaybackSession).  None reads the others' state,  *)
(* so in each behaviour one of them moves.  The gaps include stalls and    *)
(* offsets beyond int32_t on both sides.                                   *)
(***************************************************************************)
EXTENDS TimedScheduler, LatenessMetrics, PlaybackSession

VARIABLE part    \* the part that moves

playbackVars == <<part, timedVars, metricsVars, sessionVars>>

EarlyToStalled == {-6, -1, 0, 2, 5}

PlaybackInit ==
    /\ TimedInit /\ MetricsInit /\ SessionInit
    /\ part \in {"timing", "metrics", "session"}

PlaybackNext ==
    \/ part = "timing" /\ TimedNext /\ UNCHANGED <<part, metricsVars, sessionVars>>
    \/ part = "metrics" /\ MetricsNext /\ UNCHANGED <<part, timedVars, sessionVars>>
    \/ part = "session" /\ SessionNext /\ UNCHANGED <<part, timedVars, metricsVars>>

PlaybackSpec ==
    PlaybackInit /\ [][PlaybackNext]_playbackVars /\ TimedFairness /\ SessionFairness

=============================================================================
