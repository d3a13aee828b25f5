----------------------------- MODULE SafeOutput -----------------------------
(***************************************************************************)
(* What the firmware promises the PC it is plugged into, whatever the Pi   *)
(* Zero and the UART do: modes change along a fixed graph, every change    *)
(* that discards input owes the PC an all-keys-released report, nothing    *)
(* else reaches the PC until that report did, and a report comes only from *)
(* the source its mode allows (docs/protocol.md, "Mode semantics and       *)
(* payloads"; AGENT.md, "Safety").  PicoFirmware is shown to implement     *)
(* this.                                                                   *)
(***************************************************************************)
EXTENDS Naturals

CONSTANTS Reports, NoKeys

VARIABLES mode, releasePending, output

gateVars == <<mode, releasePending, output>>

Released == [keys |-> NoKeys, from |-> "release"]

\* The modes each mode may give way to.  ERROR is left only for PASS; ARMED
\* to ARMED is an abort while armed, or a run that ends as it starts.
Successors ==
    [PASS    |-> {"RECORD", "ARMED"},
     RECORD  |-> {"PASS", "ERROR"},
     ARMED   |-> {"PASS", "ARMED", "PLAYING", "ERROR"},
     PLAYING |-> {"PASS", "ARMED", "ERROR"},
     ERROR   |-> {"PASS"}]

Init ==
    /\ mode = "PASS"
    /\ releasePending = FALSE
    /\ output = Released

ChangeMode ==
    /\ mode' \in Successors[mode]
    /\ releasePending' = TRUE
    /\ UNCHANGED output

SendRelease ==
    /\ releasePending
    /\ output' = Released
    /\ releasePending' = FALSE
    /\ UNCHANGED mode

ForwardPhysical ==
    /\ ~releasePending
    /\ mode \in {"PASS", "RECORD"}
    /\ \E report \in Reports : output' = [keys |-> report, from |-> "physical"]
    /\ UNCHANGED <<mode, releasePending>>

\* The last event of a run leaves for the PC in the step that ends the run.
PlayEvent ==
    /\ ~releasePending
    /\ mode = "PLAYING"
    /\ \E report \in Reports : output' = [keys |-> report, from |-> "playback"]
    /\ \/ UNCHANGED <<mode, releasePending>>
       \/ mode' = "ARMED" /\ releasePending' = TRUE

Next == ChangeMode \/ SendRelease \/ ForwardPhysical \/ PlayEvent

Spec == Init /\ [][Next]_gateVars

(***************************************************************************)
(* Once the release a mode change owes has been sent, a mode that blocks   *)
(* input leaves no key held at the PC, and in the other modes what the PC  *)
(* holds was put there by that mode's own source.                          *)
(***************************************************************************)
HeldKeysBelongToMode ==
    \/ releasePending
    \/ output = Released
    \/ mode \in {"PASS", "RECORD"} /\ output.from = "physical"
    \/ mode = "PLAYING" /\ output.from = "playback"

=============================================================================
