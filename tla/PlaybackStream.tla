--------------------------- MODULE PlaybackStream ---------------------------
(***************************************************************************)
(* One playback run: the Zero's PlaybackSession.start() and finish()       *)
(* (zero/app/playback.py), over PicoTransport's deferring receive loop     *)
(* (zero/app/transport.py), feeding the firmware of PicoFirmware through   *)
(* two FIFO byte streams.  The recording is the events 1..TotalEvents, so  *)
(* that a report is its own position in the recording.                     *)
(*                                                                         *)
(* The physical keyboard is idle (ARMED and PLAYING block it) and the UART *)
(* neither loses nor damages bytes.  Zero's own deadlines are left out: a  *)
(* wait that no frame ends is a wait forever, so that a deadlock shows.    *)
(* Zero stops in "failed" where the code raises; the cleanup that follows  *)
(* belongs to the session lifecycle, not to the stream.                    *)
(***************************************************************************)
EXTENDS PicoFirmware, FiniteSets

CONSTANTS
    TotalEvents,      \* len(self.events)
    PipelineWindow    \* PIPELINE_WINDOW

ASSUME StreamAssumption ==
    /\ TotalEvents \in Nat \ {0}
    /\ PipelineWindow \in Nat \ {0} /\ PipelineWindow =< CommandCapacity
    /\ Reports = 0..TotalEvents
    /\ NoKeys = 0

VARIABLES
    toPico,       \* commands written by Zero, not yet parsed and dispatched
    fromPico,     \* frames sent by Pico, not yet read by Zero
    pending,      \* transport._pending: frames read and kept for later
    deferred,     \* frames the current wait has passed over
    stage,        \* what Zero is about to do, or waiting for
    streaming,    \* finish() is running: PLAYING is the expected state
    prebuffer,    \* self._prebuffer_count(): set by the recording's offsets
    nextEvent,    \* self._next_event
    credit,       \* self._free_capacity
    batch,        \* batch_count of the batch in flight
    acksDue,      \* its acknowledgements still to consume
    staleCredit,  \* history: a deferred PLAY_UNDERRUN was taken as credit
    played        \* history: events the PC has been given

link == <<toPico, fromPico>>
progress == <<streaming, prebuffer, nextEvent, credit, batch, acksDue,
              staleCredit>>
feeder == <<pending, deferred, stage, progress>>
streamVars == <<vars, link, feeder, played>>

\* The frame type each awaiting stage is blocked on in await_frame.
Awaited ==
    [arming    |-> "MODE_CHANGED",  clearing  |-> "BUFFER_STATUS",
     acks      |-> "BUFFER_STATUS", ready     |-> "PLAY_READY",
     endAck    |-> "BUFFER_STATUS", accepted  |-> "MODE_CHANGED",
     epoch     |-> "PLAY_STARTED",  outcome   |-> "PLAY_FINISHED",
     metrics   |-> "PLAY_METRICS",  finished  |-> "MODE_CHANGED",
     returning |-> "MODE_CHANGED"]

Stages == DOMAIN Awaited \cup {"begin", "feed", "credit", "done", "failed"}

ExpectedState == IF streaming THEN "PLAYING" ELSE "ARMED"
StopAt == IF streaming THEN TotalEvents ELSE prebuffer

-----------------------------------------------------------------------------
(* Reading: pending frames first, then the wire. *)

CanRead == pending \o fromPico # <<>>
NextFrame == Head(pending \o fromPico)

\* The frame leaves the buffer it was in; `kept' goes in front of the rest.
Consume(kept) ==
    IF pending = <<>>
    THEN pending' = kept /\ fromPico' = Tail(fromPico)
    ELSE pending' = kept \o Tail(pending) /\ UNCHANGED fromPico

IsError(frame) == frame.type = "MODE_CHANGED" /\ frame.state = "ERROR"

Waiting == stage \in DOMAIN Awaited \cup {"credit"}

\* What a wait is for: _await_credit looks at two types, await_frame at one.
Wanted(frame) ==
    IF stage = "credit" THEN frame.type \in {"BUFFER_STATUS", "PLAY_UNDERRUN"}
                        ELSE frame.type = Awaited[stage]

\* The wait passes over a frame it is not for.
DeferFrame ==
    /\ Waiting /\ CanRead
    /\ ~IsError(NextFrame) /\ ~Wanted(NextFrame)
    /\ deferred' = Append(deferred, NextFrame)
    /\ Consume(<<>>)
    /\ UNCHANGED <<toPico, stage, progress>>

\* The wait of stage `from' returns the frame it is for; those it passed over
\* are put back in front, in wire order.
Await(from) ==
    /\ stage = from
    /\ CanRead
    /\ ~IsError(NextFrame) /\ Wanted(NextFrame)
    /\ Consume(deferred)
    /\ deferred' = <<>>

Fail ==
    /\ stage' = "failed"
    /\ UNCHANGED <<toPico, progress>>

\* require_not_error raises out of any wait that reads a MODE_CHANGED(ERROR).
ErrorSeen ==
    /\ Waiting /\ CanRead
    /\ IsError(NextFrame)
    /\ Consume(deferred)
    /\ deferred' = <<>>
    /\ Fail

\* Zero writes some commands and goes on to the next stage.
Proceed(next, commands) ==
    /\ stage' = next
    /\ toPico' = toPico \o commands

-----------------------------------------------------------------------------
(* start(): handshake, prebuffer, PLAY_START *)

Begin ==
    /\ stage = "begin"
    /\ Proceed("arming", <<[type |-> "MODE_SET", target |-> "ARMED"]>>)
    /\ UNCHANGED <<fromPico, pending, deferred, progress>>

Armed ==
    /\ Await("arming")
    /\ IF NextFrame = ModeChanged("ARMED", "OK")
       THEN /\ Proceed("clearing", <<Plain("QUEUE_CLEAR")>>)
            /\ UNCHANGED progress
       ELSE Fail

Cleared ==
    /\ Await("clearing")
    /\ IF NextFrame.state = "ARMED" /\ prebuffer =< NextFrame.free
       THEN /\ Proceed("feed", <<>>)
            /\ credit' = NextFrame.free
            /\ UNCHANGED <<streaming, prebuffer, nextEvent, batch, acksDue, staleCredit>>
       ELSE Fail

\* A prebuffer that is the whole recording also closes the sequence.
Prebuffered ==
    /\ stage = "feed"
    /\ ~streaming
    /\ nextEvent = prebuffer
    /\ IF nextEvent = TotalEvents
       THEN Proceed("ready", <<Plain("QUEUE_END")>>)
       ELSE Proceed("accepted", <<Plain("PLAY_START")>>)
    /\ UNCHANGED <<fromPico, pending, deferred, progress>>

Ready ==
    /\ Await("ready")
    /\ Proceed("endAck", <<>>)
    /\ UNCHANGED progress

EndAcknowledged ==
    /\ Await("endAck")
    /\ IF NextFrame.state = "ARMED"
       THEN /\ Proceed("accepted", <<Plain("PLAY_START")>>)
            /\ credit' = NextFrame.free
            /\ UNCHANGED <<streaming, prebuffer, nextEvent, batch, acksDue, staleCredit>>
       ELSE Fail

Accepted ==
    /\ Await("accepted")
    /\ IF NextFrame = ModeChanged("PLAYING", "OK")
       THEN Proceed("epoch", <<>>) /\ UNCHANGED progress
       ELSE Fail

\* PLAY_STARTED ends start(); finish() feeds what is left.
EpochKnown ==
    /\ Await("epoch")
    /\ Proceed(IF nextEvent < TotalEvents THEN "feed" ELSE "outcome", <<>>)
    /\ streaming' = TRUE
    /\ UNCHANGED <<prebuffer, nextEvent, credit, batch, acksDue, staleCredit>>

-----------------------------------------------------------------------------
(* _send_through and _await_credit *)

Least(a, b) == IF a < b THEN a ELSE b

\* Fault: a batch is limited by the window only.
BatchIgnoringCredit == Least(PipelineWindow, StopAt - nextEvent)

BatchCount == Least(PipelineWindow, Least(credit, StopAt - nextEvent))

\* Zero reads nothing while it writes a batch, so the writes are one step.
SendBatch ==
    /\ stage = "feed"
    /\ nextEvent < StopAt
    /\ credit > 0
    /\ Proceed("acks", [i \in 1..BatchCount |->
                           [type |-> "QUEUE_EVENT", report |-> nextEvent + i]])
    /\ batch' = BatchCount
    /\ acksDue' = BatchCount
    /\ UNCHANGED <<fromPico, pending, deferred, streaming, prebuffer, nextEvent,
                   credit, staleCredit>>

Acknowledged ==
    /\ Await("acks")
    /\ IF NextFrame.state = ExpectedState
       THEN /\ credit' = NextFrame.free
            /\ acksDue' = acksDue - 1
            /\ IF acksDue > 1
               THEN Proceed("acks", <<>>) /\ UNCHANGED nextEvent
               ELSE Proceed("feed", <<>>) /\ nextEvent' = nextEvent + batch
            /\ UNCHANGED <<streaming, prebuffer, batch, staleCredit>>
       ELSE Fail

OutOfCredit ==
    /\ stage = "feed"
    /\ nextEvent < StopAt
    /\ credit = 0
    /\ Proceed("credit", <<>>)
    /\ UNCHANGED <<fromPico, pending, deferred, progress>>

\* A status in the wrong state raises; a notice of no space is read past,
\* and `deferred' keeps what the wait has passed over so far.
CreditNotice ==
    /\ stage = "credit"
    /\ CanRead
    /\ Wanted(NextFrame)
    /\ IF NextFrame.type = "BUFFER_STATUS" /\ NextFrame.state # ExpectedState
       THEN Consume(deferred) /\ deferred' = <<>> /\ Fail
       ELSE IF NextFrame.free = 0
       THEN /\ Consume(<<>>)
            /\ UNCHANGED <<toPico, deferred, stage, progress>>
       ELSE /\ Consume(deferred)
            /\ deferred' = <<>>
            /\ Proceed("feed", <<>>)
            /\ credit' = NextFrame.free
            /\ staleCredit' =
                  (staleCredit
                     \/ (NextFrame.type = "PLAY_UNDERRUN" /\ pending # <<>>))
            /\ UNCHANGED <<streaming, prebuffer, nextEvent, batch, acksDue>>

-----------------------------------------------------------------------------
(* finish(): close the sequence, await the outcome, return to PASS *)

\* Fault: the sequence is closed one event early.
AllButOneSent ==
    /\ stage = "feed"
    /\ streaming
    /\ nextEvent >= TotalEvents - 1
    /\ Proceed("outcome", <<Plain("QUEUE_END")>>)
    /\ UNCHANGED <<fromPico, pending, deferred, progress>>

AllSent ==
    /\ stage = "feed"
    /\ streaming
    /\ nextEvent = TotalEvents
    /\ Proceed("outcome", <<Plain("QUEUE_END")>>)
    /\ UNCHANGED <<fromPico, pending, deferred, progress>>

Outcome ==
    /\ Await("outcome")
    /\ Proceed("metrics", <<>>)
    /\ UNCHANGED progress

Metrics ==
    /\ Await("metrics")
    /\ Proceed("finished", <<>>)
    /\ UNCHANGED progress

\* _collect_diagnostics empties the pending frames before MODE_SET(PASS).
Finished ==
    /\ stage = "finished"
    /\ CanRead
    /\ ~IsError(NextFrame) /\ Wanted(NextFrame)
    /\ pending' = <<>>
    /\ deferred' = <<>>
    /\ fromPico' = IF pending = <<>> THEN Tail(fromPico) ELSE fromPico
    /\ IF NextFrame = ModeChanged("ARMED", "FINISHED")
       THEN /\ Proceed("returning", <<[type |-> "MODE_SET", target |-> "PASS"]>>)
            /\ UNCHANGED progress
       ELSE Fail

Returned ==
    /\ Await("returning")
    /\ IF NextFrame = ModeChanged("PASS", "OK")
       THEN Proceed("done", <<>>) /\ UNCHANGED progress
       ELSE Fail

-----------------------------------------------------------------------------
(* The two machines and the link between them. *)

ZeroStep ==
    /\ \/ DeferFrame \/ ErrorSeen
       \/ Begin \/ Armed \/ Cleared \/ Prebuffered \/ Ready \/ EndAcknowledged
       \/ Accepted \/ EpochKnown
       \/ SendBatch \/ Acknowledged \/ OutOfCredit \/ CreditNotice
       \/ AllSent \/ Outcome \/ Metrics \/ Finished \/ Returned
    /\ UNCHANGED <<vars, played>>

\* Any number of the commands on the wire has arrived; what the command ring
\* cannot hold is lost and latches a fault (enqueue_command).
StreamPoll(n) ==
    LET kept == Least(n, CommandCapacity)
    IN  /\ UartPoll
        /\ backlog' = kept
        /\ uartFault' = (uartFault \/ n > kept)
        /\ toPico' = SubSeq(toPico, 1, kept) \o SubSeq(toPico, n + 1, Len(toPico))

DispatchNext ==
    /\ backlog > 0
    /\ DispatchCommand(Head(toPico))
    /\ toPico' = Tail(toPico)

PlayNext ==
    /\ SchedulerDispatch
    /\ played' = played + 1
    /\ UNCHANGED toPico

PicoStep ==
    /\ \/ LoopBody /\ UNCHANGED <<toPico, played>>
       \/ PlayNext
       \/ \E n \in 0..Len(toPico) : StreamPoll(n) /\ UNCHANGED played
       \/ DispatchNext /\ UNCHANGED played
    /\ fromPico' = fromPico \o tx'.sent
    /\ UNCHANGED feeder

StreamInit ==
    /\ Init
    /\ toPico = <<>>
    /\ fromPico = <<>>
    /\ pending = <<>>
    /\ deferred = <<>>
    /\ stage = "begin"
    /\ streaming = FALSE
    /\ prebuffer \in 1..TotalEvents
    /\ nextEvent = 0
    /\ credit = 0
    /\ batch = 0
    /\ acksDue = 0
    /\ staleCredit = FALSE
    /\ played = 0

StreamNext == ZeroStep \/ PicoStep

StreamSpec == StreamInit /\ [][StreamNext]_streamVars

-----------------------------------------------------------------------------
(* Fairness: both programs run, the wire delivers, the PC polls the endpoint *)
(* and deadlines pass.  The watchdog is given none: a run must not need it.  *)

StreamFairness ==
    /\ WF_streamVars(ZeroStep)
    /\ WF_streamVars(PicoStep)
    /\ SF_streamVars(TudTask /\ hidReady' /\ PicoStep)
    /\ SF_streamVars(PlayNext /\ PicoStep)
    /\ SF_streamVars(StreamPoll(Len(toPico)) /\ toPico # <<>> /\ PicoStep)

StreamFairSpec == StreamSpec /\ StreamFairness

-----------------------------------------------------------------------------
(* Properties. *)

\* Type invariant of the feeder; the firmware's own is PicoFirmware's TypeOK.
StreamTypeOK ==
    /\ TypeOK
    /\ stage \in Stages
    /\ streaming \in BOOLEAN
    /\ prebuffer \in 1..TotalEvents
    /\ nextEvent \in 0..TotalEvents
    /\ credit \in 0..QueueCapacity
    /\ batch \in 0..PipelineWindow
    /\ acksDue \in 0..batch
    /\ staleCredit \in BOOLEAN
    /\ played \in 0..TotalEvents

EventsOnWire == Cardinality({i \in DOMAIN toPico : toPico[i].type = "QUEUE_EVENT"})

\* Zero stays within the advertised free_capacity: no event it has written
\* can find the playback queue full (docs/protocol.md, QUEUE_EVENT).
WithinAdvertisedCapacity == Len(queue) + EventsOnWire =< QueueCapacity

\* Zero never gives up on a healthy Pico: acknowledgements, notices and mode
\* changes are never attributed to the wrong command, so a session that fails
\* does so because Pico really entered ERROR, or because the recording needs
\* a longer prebuffer than the Pico can hold.
FailsOnlyOnPicoError ==
    stage = "failed" => mode = "ERROR" \/ prebuffer > QueueCapacity

\* The pipeline never outruns the Pico's command ring.
PipelineFitsCommandRing == ~uartFault

\* A session that ends well has played the whole recording and left the Pico
\* in PASS: QUEUE_END never overtakes an event, no run is cut short.
DoneMeansPlayed == stage = "done" => played = TotalEvents /\ mode = "PASS"

\* The feeder outruns neither the Pico's queue nor its command ring, whatever
\* the batches, the window, late acknowledgements and full-to-free notices, in
\* every run in which no PLAY_UNDERRUN that was kept from an earlier wait has
\* been read as if it were fresh.  (Once one has been, a notice can be taken for
\* the acknowledgement of an event that is still on the wire.)
WithinLimits ==
    /\ StreamTypeOK
    /\ staleCredit \/ (WithinAdvertisedCapacity /\ PipelineFitsCommandRing)

\* How a session ends is what happened: success means played to the last
\* event and left in PASS, failure that the Pico could not play it.
EndIsTrue == DoneMeansPlayed /\ FailsOnlyOnPicoError

\* The PC is given the events in recording order, each once.
PlayedInOrder ==
    [][output' # output /\ output'.from = "playback"
          => output'.keys = played + 1]_streamVars

\* Feeder and firmware never wait for each other for ever: the session ends,
\* even when Zero has no credit and Pico has nothing to acknowledge.
StreamEnds == <>(stage \in {"done", "failed"})

=============================================================================
