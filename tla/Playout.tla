------------------------------ MODULE Playout ------------------------------
(***************************************************************************)
(* What the playback scheduler promises (docs/realtime-design.md): against *)
(* one epoch, sampled when the run starts, the events of the script are    *)
(* given to the PC in order, each once, none before epoch + offset, and a  *)
(* due event is given as long as the PC takes reports.  Alarms, polling    *)
(* and retries are no part of the promise.                                 *)
(***************************************************************************)
EXTENDS Naturals, Sequences

CONSTANT Offsets     \* the offsets an event may carry, in clock units

VARIABLES clock, epoch, script, playing

playoutVars == <<clock, epoch, script, playing>>

Init ==
    /\ clock = 0
    /\ epoch = 0
    /\ script = <<>>
    /\ playing = FALSE

Tick ==
    /\ clock' = clock + 1
    /\ UNCHANGED <<epoch, script, playing>>

Load ==
    /\ \E offset \in Offsets : script' = Append(script, offset)
    /\ UNCHANGED <<clock, epoch, playing>>

Start ==
    /\ ~playing
    /\ playing' = TRUE
    /\ epoch' = clock
    /\ UNCHANGED <<clock, script>>

Due == playing /\ script # <<>> /\ clock >= epoch + Head(script)

Play ==
    /\ Due
    /\ script' = Tail(script)
    /\ UNCHANGED <<clock, epoch, playing>>

\* The run drains or is cut short, or a script that is not playing is cleared.
Discard ==
    /\ script' = <<>>
    /\ playing' = FALSE
    /\ UNCHANGED <<clock, epoch>>

Next == Tick \/ Load \/ Start \/ Play \/ Discard

Spec == Init /\ [][Next]_playoutVars

\* No event stays due for ever: it is played, or its run is cut short.
Punctual == WF_playoutVars(Play)

=============================================================================
