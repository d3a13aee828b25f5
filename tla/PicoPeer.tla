------------------------------ MODULE PicoPeer ------------------------------
(***************************************************************************)
(* The Pico as the Zero's sessions know it: a mode, and the MODE_CHANGED   *)
(* and RECORD_EVENT frames that a step of the firmware sends about it      *)
(* (docs/protocol.md, "Mode semantics and payloads").  A full TX ring may  *)
(* drop any frame.  PicoFirmware is shown to implement this; RecordingLink *)
(* puts it behind a byte stream.                                           *)
(***************************************************************************)
EXTENDS UartProtocol, Sequences

VARIABLES mode, sent

peerVars == <<mode, sent>>

\* Frames leave in order; once the ring is full the rest of the step's do not.
Sends(frames) == \E n \in 0..Len(frames) : sent' = SubSeq(frames, 1, n)

Answer(state, reason) ==
    /\ mode' = state
    /\ Sends(<<ModeChanged(state, reason)>>)

\* PASS is entered from anywhere, everything else from PASS only; asking for
\* the current mode again is answered and changes nothing.
ModeSet(target) ==
    IF target \in {mode, "PASS"} \/ mode = "PASS"
    THEN Answer(target, "OK")
    ELSE Answer(mode, "INVALID_TRANSITION")

Reject == \E reason \in {"INVALID_TARGET", "INVALID_TRANSITION"} : Answer(mode, reason)

\* A fault costs every mode but PASS, which only reports it.
Fault(reason) == Answer(IF mode = "PASS" THEN "PASS" ELSE "ERROR", reason)

Capture(report) ==
    /\ mode = "RECORD"
    /\ mode' = mode
    /\ Sends(<<RecordEvent(report)>>)

\* A run starts, ends, or ends as it starts; an abort while ARMED is answered.
Play ==
    \/ mode = "ARMED" /\ Answer("PLAYING", "OK")
    \/ mode \in {"ARMED", "PLAYING"} /\ Answer("ARMED", "ABORTED")
    \/ mode = "PLAYING" /\ Answer("ARMED", "FINISHED")
    \/ /\ mode = "ARMED"
       /\ mode' = "ARMED"
       /\ Sends(<<ModeChanged("PLAYING", "OK"), ModeChanged("ARMED", "FINISHED")>>)

Silent == sent' = <<>> /\ mode' = mode

Init == mode = "PASS" /\ sent = <<>>

Next ==
    \/ \E target \in SettableModes : ModeSet(target)
    \/ \E reason \in {"PROTOCOL_ERROR", "UART_FAULT", "UNDERRUN"} : Fault(reason)
    \/ \E report \in Reports : Capture(report)
    \/ Reject \/ Play \/ Silent

Spec == Init /\ [][Next]_peerVars

=============================================================================
