---------------------------- MODULE RecordingLink ----------------------------
(***************************************************************************)
(* Consecutive recording sessions of the Zero (zero/app/service.py) over   *)
(* one PicoTransport (zero/app/transport.py) and one byte stream to a Pico *)
(* that behaves like PicoPeer: the MODE_SET exchange with its retry; the   *)
(* frames read in chunks, deferred, kept and drained; abort, the web       *)
(* service's safe_stop, and a restart of the process.                      *)
(*                                                                         *)
(* The n-th key event ever captured is the report n.                       *)
(***************************************************************************)
EXTENDS PicoPeer, FiniteSets

CONSTANTS
    Retries,      \* set_mode's retries
    MaxKeys,      \* bound: key events in a behaviour
    MaxSessions,  \* bound: sessions and safe_stops begun
    MaxTrouble,   \* bound: kinds of trouble in a behaviour
    MaxLate       \* bound: waits that end before their answer came

ASSUME LinkAssumption ==
    /\ {Retries, MaxKeys, MaxSessions, MaxTrouble, MaxLate} \subseteq Nat
    /\ Reports = 1..MaxKeys

VARIABLES
    toPico,     \* targets of the MODE_SETs written and not yet handled
    fromPico,   \* frames sent and not yet read
    pending,    \* transport._pending
    deferred,   \* frames the current wait has passed over
    stage,      \* the exchange the Zero is in, "record", or "idle"
    attempt,    \* of the exchange
    events,     \* the builder: reports recorded so far
    shown,      \* the state the controller shows
    failure,    \* why the last session failed, or "none"
    sessions, captured, firstOwn,  \* counters; the session's first report
    trouble,    \* history: the kinds of trouble met
    late        \* history: how many waits ended too early

wire == <<toPico, fromPico>>
buffers == <<pending, deferred>>
session == <<stage, attempt, events, shown, failure>>
counters == <<sessions, captured, firstOwn>>
linkVars == <<peerVars, wire, buffers, session, counters, trouble, late>>

Troubles == {"fault", "request", "damage", "drop", "restart", "interrupt"}

Meet(kind) ==
    /\ kind \notin trouble
    /\ Cardinality(trouble) < MaxTrouble
    /\ trouble' = trouble \cup {kind}

\* The exchanges, and the mode each asks for.
Target == [start |-> "RECORD", stop |-> "PASS", abort |-> "PASS"]
Exchanging == stage \in DOMAIN Target

\* Fault: the request is written twice, in case the first one is lost.
AskTwice(next) ==
    /\ stage' = next
    /\ attempt' = 0
    /\ toPico' = toPico \o <<Target[next], Target[next]>>

\* set_mode(Target[next]) writes its first request.
Ask(next) ==
    /\ stage' = next
    /\ attempt' = 0
    /\ toPico' = Append(toPico, Target[next])

-----------------------------------------------------------------------------
(* The Pico, and what happens to the frames on the way. *)

Emit ==
    /\ fromPico' = fromPico \o sent'
    /\ IF sent' = <<>> THEN Meet("drop") ELSE UNCHANGED trouble

HandleRequest ==
    /\ toPico # <<>>
    /\ ModeSet(Head(toPico))
    /\ toPico' = Tail(toPico)
    /\ Emit
    /\ UNCHANGED <<buffers, session, counters, late>>

KeyCaptured ==
    /\ captured < MaxKeys
    /\ captured' = captured + 1
    /\ Capture(captured')
    /\ Emit
    /\ UNCHANGED <<toPico, buffers, session, sessions, firstOwn, late>>

\* A fault of the UART; one that damages a request also loses it.
LinkFault ==
    /\ \/ Meet("fault") /\ UNCHANGED toPico
       \/ Meet("request") /\ toPico # <<>> /\ toPico' = Tail(toPico)
    /\ Fault("UART_FAULT")
    /\ sent' # <<>>
    /\ fromPico' = fromPico \o sent'
    /\ UNCHANGED <<buffers, session, counters, late>>

-----------------------------------------------------------------------------
(* The transport. *)

Reading == (Exchanging \/ stage = "record") /\ pending = <<>>

\* One read returns any number of the frames on the wire.
ReadChunk ==
    /\ Reading
    /\ \E n \in 1..Len(fromPico) :
          /\ pending' = SubSeq(fromPico, 1, n)
          /\ fromPico' = SubSeq(fromPico, n + 1, Len(fromPico))
    /\ UNCHANGED <<peerVars, toPico, deferred, session, counters, trouble, late>>

HeadIs(type) == pending # <<>> /\ Head(pending).type = type

Defer ==
    /\ Exchanging
    /\ HeadIs("RECORD_EVENT")
    /\ deferred' = Append(deferred, Head(pending))
    /\ pending' = Tail(pending)
    /\ UNCHANGED <<peerVars, wire, session, counters, trouble, late>>

\* Fault: what a wait passed over goes behind what is still unread.
BehindTheRest(rest) == rest \o deferred

\* What a wait passed over goes in front of what is still unread.
Kept(rest) == deferred \o rest

PutBack(rest) == pending' = Kept(rest) /\ deferred' = <<>>

-----------------------------------------------------------------------------
(* RecordingSession, and what the controller does when it raises. *)

\* Fault: a start that failed is not followed by a return to PASS.
QuietStart == [start |-> "idle", record |-> "abort", stop |-> "idle", abort |-> "idle"]

\* stop() marks the session finished before it raises, so that abort() does
\* nothing after it.
Cleanup == [start |-> "abort", record |-> "abort", stop |-> "idle", abort |-> "idle"]

GiveUp(why) ==
    /\ failure' = IF failure = "none" THEN why ELSE failure
    /\ shown' = CASE stage = "abort" -> "ERROR" [] stage = "stop" -> "PASS" [] OTHER -> shown
    /\ IF Cleanup[stage] = "abort"
       THEN Ask("abort")
       ELSE stage' = "idle" /\ UNCHANGED <<attempt, toPico>>
    /\ UNCHANGED events

StartSession ==
    /\ stage = "idle"
    /\ sessions < MaxSessions
    /\ sessions' = sessions + 1
    /\ firstOwn' = captured + 1
    /\ events' = <<>>
    /\ failure' = "none"
    /\ shown' = "RECORD"
    /\ Ask("start")
    /\ UNCHANGED <<peerVars, fromPico, buffers, captured, trouble, late>>

StopRequested ==
    /\ stage = "record"
    /\ Ask("stop")
    /\ UNCHANGED <<peerVars, fromPico, buffers, events, shown, failure, counters, trouble, late>>

\* Ctrl-C in `record' raises KeyboardInterrupt wherever the loop is: inside
\* stream.read, what that read had already taken from the wire is gone.
CtrlC ==
    /\ stage = "record"
    /\ Meet("interrupt")
    /\ IF pending = <<>>
       THEN \E n \in 1..Len(fromPico) : fromPico' = SubSeq(fromPico, n + 1, Len(fromPico))
       ELSE UNCHANGED fromPico
    /\ Ask("stop")
    /\ UNCHANGED <<peerVars, buffers, events, shown, failure, counters, late>>

SafeStop ==
    /\ stage = "idle"
    /\ sessions < MaxSessions
    /\ sessions' = sessions + 1
    /\ failure' = "none"
    /\ Ask("abort")
    /\ UNCHANGED <<peerVars, fromPico, buffers, events, shown, captured, firstOwn, trouble, late>>

\* The process dies; the next one opens the port, which discards the input,
\* and reconciles to PASS.
Restart ==
    /\ Meet("restart")
    /\ fromPico' = <<>> /\ pending' = <<>> /\ deferred' = <<>> /\ events' = <<>>
    /\ failure' = "none"
    /\ shown' = "PASS"
    /\ Ask("abort")
    /\ UNCHANGED <<peerVars, counters, late>>

\* Fault: what was kept while the acknowledgement was awaited is not saved.
NoReports(frames) == <<>>

ReportsOf(frames) ==
    LET reports[n \in 0..Len(frames)] ==
            IF n = 0 THEN <<>>
            ELSE IF frames[n].type = "RECORD_EVENT" THEN Append(reports[n - 1], frames[n].report)
            ELSE reports[n - 1]
    IN  reports[Len(frames)]

\* receive_and_consume: a RECORD_EVENT is added, a mode change is an error.
ConsumeEvent ==
    /\ stage = "record"
    /\ HeadIs("RECORD_EVENT")
    /\ events' = Append(events, Head(pending).report)
    /\ pending' = Tail(pending)
    /\ UNCHANGED <<peerVars, wire, deferred, stage, attempt, shown, failure, counters, trouble, late>>

ModeChangedWhileRecording ==
    /\ stage = "record"
    /\ HeadIs("MODE_CHANGED")
    /\ pending' = Tail(pending)
    /\ GiveUp(IF Head(pending).state = "ERROR" THEN "error" ELSE "unexpected")
    /\ UNCHANGED <<peerVars, fromPico, deferred, counters, trouble, late>>

Acknowledged == Exchanging /\ HeadIs("MODE_CHANGED")
                  /\ Head(pending) = ModeChanged(Target[stage], "OK")

\* The handshake is confirmed, or the safety net is.
Confirmed ==
    /\ Acknowledged
    /\ \/ stage = "start" /\ stage' = "record" /\ UNCHANGED shown
       \/ stage = "abort" /\ stage' = "idle" /\ shown' = "PASS"
    /\ PutBack(Tail(pending))
    /\ UNCHANGED <<peerVars, wire, attempt, events, failure, counters, trouble, late>>

\* stop() drains what came before, or with, the acknowledgement, and saves.
Stopped ==
    LET drained == Kept(Tail(pending))
        spoilt == \E i \in DOMAIN drained : drained[i].type = "MODE_CHANGED"
    IN  /\ stage = "stop"
        /\ Acknowledged
        /\ pending' = <<>> /\ deferred' = <<>>
        /\ stage' = "idle"
        /\ shown' = "PASS"
        /\ IF spoilt THEN failure' = "unexpected" /\ UNCHANGED events
                     ELSE events' = events \o ReportsOf(drained) /\ UNCHANGED failure
        /\ UNCHANGED <<peerVars, wire, attempt, counters, trouble, late>>

\* ModeRejected, or PicoError for an answer that says ERROR.
Refused ==
    /\ Exchanging
    /\ HeadIs("MODE_CHANGED")
    /\ ~Acknowledged
    /\ PutBack(Tail(pending))
    /\ GiveUp(IF Head(pending).state = "ERROR" THEN "error" ELSE "rejected")
    /\ UNCHANGED <<peerVars, fromPico, counters, trouble, late>>

\* A chunk with a damaged frame: the good frames of the chunk go with it.
DamagedRead ==
    /\ Reading
    /\ Meet("damage")
    /\ \E n \in 1..Len(fromPico) : fromPico' = SubSeq(fromPico, n + 1, Len(fromPico))
    /\ PutBack(<<>>)
    /\ GiveUp("damaged")
    /\ UNCHANGED <<peerVars, counters, late>>

CanRetry == attempt < Retries

\* The wait ends without an answer: the request is repeated, or given up.
TimesOut ==
    /\ Exchanging
    /\ late < MaxLate
    /\ late' = late + 1
    /\ PutBack(pending)
    /\ IF CanRetry
       THEN /\ attempt' = attempt + 1
            /\ toPico' = Append(toPico, Target[stage])
            /\ UNCHANGED <<stage, events, shown, failure>>
       ELSE GiveUp("timeout")
    /\ UNCHANGED <<peerVars, fromPico, counters, trouble>>

-----------------------------------------------------------------------------
LinkInit ==
    /\ Init
    /\ toPico = <<>> /\ fromPico = <<>> /\ pending = <<>> /\ deferred = <<>>
    /\ stage = "idle" /\ attempt = 0 /\ events = <<>>
    /\ shown = "PASS" /\ failure = "none"
    /\ sessions = 0 /\ captured = 0 /\ firstOwn = 1
    /\ trouble = {} /\ late = 0

LinkNext ==
    \/ HandleRequest \/ KeyCaptured \/ LinkFault
    \/ ReadChunk \/ Defer \/ DamagedRead \/ TimesOut
    \/ StartSession \/ StopRequested \/ CtrlC \/ SafeStop \/ Restart
    \/ ConsumeEvent \/ ModeChangedWhileRecording \/ Confirmed \/ Stopped \/ Refused

LinkSpec == LinkInit /\ [][LinkNext]_linkVars

-----------------------------------------------------------------------------
(* Properties. *)

LinkTypeOK ==
    /\ stage \in DOMAIN Target \cup {"record", "idle"}
    /\ attempt \in 0..Retries
    /\ events \in Seq(Reports)
    /\ shown \in {"PASS", "RECORD", "ERROR"}
    /\ deferred # <<>> => Exchanging
    /\ trouble \subseteq Troubles

\* However frames are deferred, put back, lost or left over, the builder is
\* given reports in the order they were captured and none twice: its check
\* "Pico timestamp moved backwards" (recording.py) never fires.
InCaptureOrder == \A i, j \in DOMAIN events : i < j => events[i] < events[j]

\* What the builder holds is in order, and the exchange in its stage.
RecordedInOrder == LinkTypeOK /\ InCaptureOrder

\* A session over a link without trouble and late answers never fails, in any
\* interleaving of key events, reads and acknowledgements.
HealthyLinkNeverFails == trouble = {} /\ late = 0 => failure = "none"

\* A recording is saved over such a link with the Pico back in PASS, and holds
\* every event captured since the session began and no other one.
Saves == stage = "stop" /\ stage' = "idle" /\ failure' = "none"

Whole == mode = "PASS" /\ events' = [i \in 1..(captured + 1 - firstOwn) |-> firstOwn + i - 1]

WholeRecording == [][Saves /\ trouble = {} /\ late = 0 => Whole]_linkVars

\* Whatever fails, and wherever the process dies: once the requests of a
\* session that ended have arrived, the Pico is in PASS and the keyboard works
\* (service.py, "always attempts a safe return to PASS"), unless a request
\* itself was damaged.
LeftInPass == stage = "idle" /\ toPico = <<>> /\ "request" \notin trouble => mode = "PASS"

=============================================================================
