---------------------------- MODULE PicoFirmware ----------------------------
(***************************************************************************)
(* The Pico firmware's main loop (pico/src/main.c) with the components it  *)
(* drives: mode state machine, safety release, keyboard capture, physical  *)
(* report dispatch, playback queue, playback scheduler and TX ring, facing *)
(* an arbitrary sequence of well-formed UART commands, transport faults,   *)
(* physical key reports and HID endpoint states.                           *)
(*                                                                         *)
(* One action is one call the loop makes, or one pass through the body of  *)
(* a C loop inside such a call; `loop' names the call that comes next.     *)
(* The firmware is single threaded, so a handler and every callback it     *)
(* makes are one step.  The UART receive interrupt is the one asynchronous *)
(* action.  A definition introduced as a "Fault" is no part of the         *)
(* firmware: it is the definition that follows it with a plausible bug,    *)
(* kept to show that the properties notice.                                *)
(*                                                                         *)
(* Time is abstracted: whether the head event's deadline has passed and    *)
(* whether the two-second watchdog has run out are nondeterministic.       *)
(***************************************************************************)
EXTENDS UartProtocol, Sequences, Functions

CONSTANTS
    NoKeys,            \* the all-keys-released report
    CaptureCapacity,   \* PICO_KEYBOARD_CAPTURE_CAPACITY, in reports
    QueueCapacity,     \* PICO_PLAYBACK_QUEUE_CAPACITY, in events
    CommandCapacity,   \* PICO_UART_COMMAND_CAPACITY, in commands
    TxCapacity,        \* PICO_UART_TX_RING_CAPACITY, in bytes
    TxDrains           \* how many bytes the UART may accept in one tx_task

ASSUME ReportsAssumption == NoKeys \in Reports

ASSUME CapacityAssumption ==
    /\ CaptureCapacity \in Nat \ {0}
    /\ QueueCapacity \in Nat \ {0}
    /\ CommandCapacity \in Nat \ {0}
    /\ TxCapacity \in Nat
    /\ TxDrains \subseteq Nat

VARIABLES
    loop,            \* the main-loop call that runs next
    hidReady,        \* tud_hid_ready(): the IN endpoint accepts a report
    output,          \* the last report handed to the PC and where it came from
    releasePending,  \* safety_release.pending
    outputReady,     \* release_result == PICO_SAFETY_RELEASE_READY
    mode,            \* mode_state.state
    capture,         \* keyboard_capture FIFO; `events' is a history count of
                     \* the RECORD_EVENTs produced for the entry
    headRecorded,    \* keyboard_capture.head_recorded
    uartFault,       \* uart_transport.fault_pending
    backlog,         \* parsed commands waiting in the command ring
    queue,           \* playback_queue FIFO
    running,         \* playback_scheduler.running
    ended,           \* playback_scheduler.sequence_ended
    waiting,         \* playback_scheduler.waiting_for_event
    underrun,        \* playback_scheduler.underrun_active
    flowFault,       \* playback_flow_control_fault
    tx               \* TX ring: bytes used, and the frames this step put in it

usb == <<hidReady, output>>
capturing == <<capture, headRecorded>>
playback == <<queue, running, ended, waiting, underrun, flowFault>>
\* Everything the command handlers and fault entries may change, but for tx.
core == <<mode, releasePending, capturing, playback>>
vars == <<loop, usb, outputReady, uartFault, backlog, core, tx>>

LoopPhases == {"device", "host", "poll", "fault", "dispatch", "release",
               "physical", "scheduler", "flow", "watchdog", "transmit"}

Released == [keys |-> NoKeys, from |-> "release"]

-----------------------------------------------------------------------------
(* The TX ring: a frame that does not fit is dropped whole. *)

Quiet == [used |-> tx.used, sent |-> <<>>]

Fits(ring, type) == ring.used + FrameBytes(type) =< TxCapacity

QueueFrame(ring, frame) ==
    IF Fits(ring, frame.type)
    THEN [used |-> ring.used + FrameBytes(frame.type),
          sent |-> Append(ring.sent, frame)]
    ELSE ring

\* The callback playback_complete reports the outcome, then the metrics.
CompleteRun(ring, outcome) ==
    QueueFrame(QueueFrame(ring, Plain(outcome)), Plain("PLAY_METRICS"))

\* pico_playback_scheduler_stop: nothing to report unless a run is active.
StopRun(ring) == IF running THEN CompleteRun(ring, "PLAY_ABORTED") ELSE ring

-----------------------------------------------------------------------------
(* The mode state machine and its callbacks. *)

\* Fault: clearing the capture FIFO keeps the mark of its old head.
ClearKeepingMark ==
    /\ capture' = <<>>
    /\ releasePending' = TRUE
    /\ UNCHANGED headRecorded

\* Fault: captured input is dropped, but what the PC holds stays held.
ClearWithoutRelease ==
    /\ capture' = <<>>
    /\ headRecorded' = FALSE
    /\ UNCHANGED releasePending

\* clear_and_release: drop captured input, ask for an all-keys-released report.
ClearAndRelease ==
    /\ capture' = <<>>
    /\ headRecorded' = FALSE
    /\ releasePending' = TRUE

\* Fault: the sequence is reset before the run is stopped, so not at all.
ClearWithoutReset ==
    /\ ClearAndRelease
    /\ queue' = <<>>
    /\ running' = FALSE
    /\ flowFault' = FALSE
    /\ waiting' = (waiting /\ running)
    /\ underrun' = (underrun /\ running)
    /\ ended' = (ended /\ running)

\* clear_release_and_queue, with mode_clear_queue's stop, clear and reset.
ClearReleaseAndQueue ==
    /\ ClearAndRelease
    /\ queue' = <<>>
    /\ running' = FALSE
    /\ ended' = FALSE
    /\ waiting' = FALSE
    /\ underrun' = FALSE
    /\ flowFault' = FALSE

\* A transition through clear_release_and_queue; a live run is aborted first.
EnterMode(state, reason, ring) ==
    /\ mode' = state
    /\ ClearReleaseAndQueue
    /\ tx' = QueueFrame(StopRun(ring), ModeChanged(state, reason))

Notify(reason, ring) ==
    /\ tx' = QueueFrame(ring, ModeChanged(mode, reason))
    /\ UNCHANGED core

\* Fault: an error blocks the keyboard in PASS, too.
EnterErrorFromPass(reason, ring) ==
    IF mode = "ERROR" THEN Notify(reason, ring)
                      ELSE EnterMode("ERROR", reason, ring)

EnterError(reason, ring) ==
    IF mode \in {"PASS", "ERROR"}
    THEN Notify(reason, ring)
    ELSE EnterMode("ERROR", reason, ring)

ModeSet(target) ==
    \/ /\ target \notin SettableModes
       /\ Notify("INVALID_TARGET", Quiet)
    \/ /\ target \in SettableModes
       /\ target = mode
       /\ Notify("OK", Quiet)
    \/ /\ target \in SettableModes \ {mode}
       /\ target = "PASS" \/ mode = "PASS"
       /\ EnterMode(target, "OK", Quiet)
    \/ /\ target \in SettableModes \ {mode, "PASS"}
       /\ mode # "PASS"
       /\ Notify("INVALID_TRANSITION", Quiet)

PlayAbort ==
    IF mode \in {"ARMED", "PLAYING"}
    THEN EnterMode("ARMED", "ABORTED", Quiet)
    ELSE Notify("INVALID_TRANSITION", Quiet)

-----------------------------------------------------------------------------
\* Fault: the mode change is announced before the outcome it follows from.
FinishRunModeFirst(ring) ==
    /\ mode' = "ARMED"
    /\ ClearReleaseAndQueue
    /\ tx' = CompleteRun(QueueFrame(ring, ModeChanged("ARMED", "FINISHED")),
                         "PLAY_FINISHED")

(***************************************************************************)
(* The scheduler's run.  finish(FINISHED) is only reached while a run is   *)
(* active, hence in PLAYING (RunMatchesMode), so play_finish accepts it.   *)
(***************************************************************************)
FinishRun(ring) ==
    /\ mode' = "ARMED"
    /\ ClearReleaseAndQueue
    /\ tx' = QueueFrame(CompleteRun(ring, "PLAY_FINISHED"),
                        ModeChanged("ARMED", "FINISHED"))

Drained(events) == events = <<>> /\ ended

(***************************************************************************)
(* arm_next on a run that does not finish: either the next event is armed, *)
(* or an underrun begins, reported once until an event ends it.  `lost'    *)
(* says that a flow-control frame was already dropped.                     *)
(***************************************************************************)
ContinueRun(events, starving, lost, ring) ==
    LET starved == events = <<>>
        notice == starved /\ ~starving
    IN  /\ mode' = "PLAYING"
        /\ queue' = events
        /\ running' = TRUE
        /\ waiting' = starved
        /\ underrun' = starved
        /\ flowFault' = (lost \/ (notice /\ ~Fits(ring, "PLAY_UNDERRUN")))
        /\ tx' = IF notice THEN QueueFrame(ring, PlayUnderrun(QueueCapacity))
                           ELSE ring
        /\ UNCHANGED ended

PlayStart ==
    LET ring == QueueFrame(QueueFrame(Quiet, ModeChanged("PLAYING", "OK")),
                           Plain("PLAY_STARTED"))
    IN  \/ /\ mode # "ARMED"
           /\ Notify("INVALID_TRANSITION", Quiet)
        \/ /\ mode = "ARMED"
           /\ Drained(queue)
           /\ FinishRun(ring)
        \/ /\ mode = "ARMED"
           /\ ~Drained(queue)
           /\ ClearAndRelease
           /\ ContinueRun(queue, FALSE, flowFault, ring)

-----------------------------------------------------------------------------
(* Queue commands: an acknowledgement that cannot be sent forces ERROR. *)

QueueClear ==
    IF Fits(Quiet, "BUFFER_STATUS")
    THEN /\ queue' = <<>>
         /\ ended' = (running /\ ended)
         /\ waiting' = (running /\ waiting)
         /\ underrun' = (running /\ underrun)
         /\ tx' = QueueFrame(Quiet, BufferStatus(mode, QueueCapacity))
         /\ UNCHANGED <<mode, releasePending, capturing, running, flowFault>>
    ELSE EnterError("PROTOCOL_ERROR", Quiet)

QueueEvent(report) ==
    IF Len(queue) < QueueCapacity /\ Fits(Quiet, "BUFFER_STATUS")
    THEN /\ queue' = Append(queue, report)
         /\ tx' = QueueFrame(Quiet,
                      BufferStatus(mode, QueueCapacity - Len(queue) - 1))
         /\ UNCHANGED <<mode, releasePending, capturing, running, ended,
                        waiting, underrun, flowFault>>
    ELSE EnterError("PROTOCOL_ERROR", Quiet)

\* Fault: a run that has already drained does not hear of its end.
QueueEndNotWhileWaiting ==
    LET ring == IF mode = "ARMED" THEN QueueFrame(Quiet, Plain("PLAY_READY"))
                                  ELSE Quiet
    IN  IF Fits(ring, "BUFFER_STATUS")
        THEN /\ ended' = ~waiting
             /\ tx' = QueueFrame(ring,
                          BufferStatus(mode, QueueCapacity - Len(queue)))
             /\ UNCHANGED <<mode, releasePending, capturing, queue, running,
                            waiting, underrun, flowFault>>
        ELSE EnterError("PROTOCOL_ERROR", ring)

QueueEnd ==
    LET ring == IF mode = "ARMED" THEN QueueFrame(Quiet, Plain("PLAY_READY"))
                                  ELSE Quiet
    IN  IF Fits(ring, "BUFFER_STATUS")
        THEN /\ ended' = TRUE
             /\ tx' = QueueFrame(ring,
                          BufferStatus(mode, QueueCapacity - Len(queue)))
             /\ UNCHANGED <<mode, releasePending, capturing, queue, running,
                            waiting, underrun, flowFault>>
        ELSE EnterError("PROTOCOL_ERROR", ring)

QueueCommand(command) ==
    \/ /\ ~QueueCommandAllowed(command.type, mode)
       /\ EnterError("PROTOCOL_ERROR", Quiet)
    \/ /\ QueueCommandAllowed(command.type, mode)
       /\ \/ command.type = "QUEUE_CLEAR" /\ QueueClear
          \/ command.type = "QUEUE_EVENT" /\ QueueEvent(command.report)
          \/ command.type = "QUEUE_END" /\ QueueEnd

Reply(frame) ==
    /\ tx' = QueueFrame(Quiet, frame)
    /\ UNCHANGED core

Dispatch(command) ==
    \/ command.type = "MODE_SET" /\ ModeSet(command.target)
    \/ command.type = "PLAY_START" /\ PlayStart
    \/ command.type = "PLAY_ABORT" /\ PlayAbort
    \/ command.type = "PING" /\ Reply(Plain("PONG"))
    \/ command.type = "STATUS_REQUEST" /\ Reply(PicoStatus(mode))
    \/ command.type \in QueueCommands /\ QueueCommand(command)

-----------------------------------------------------------------------------
(* The main loop, call by call. *)

Goto(from, to) == loop = from /\ loop' = to

Send(report, source) ==
    /\ hidReady
    /\ hidReady' = FALSE
    /\ output' = [keys |-> report, from |-> source]

(***************************************************************************)
(* tud_task: completes or starts no report of its own, but it is where the *)
(* endpoint becomes free again, or stops being ready (suspend, unplug).    *)
(***************************************************************************)
TudTask ==
    /\ Goto("device", "host")
    /\ hidReady' \in BOOLEAN
    /\ tx' = Quiet
    /\ UNCHANGED <<output, outputReady, uartFault, backlog, core>>

\* tuh_hid_report_received_cb, called from tuh_task: a report that finds the
\* capture FIFO full, or input blocked by the mode, is discarded.
ReportReceived(report) ==
    /\ Goto("host", "host")
    /\ mode \in {"PASS", "RECORD"}
    /\ Len(capture) < CaptureCapacity
    /\ capture' = Append(capture, [report |-> report, events |-> 0])
    /\ tx' = Quiet
    /\ UNCHANGED <<usb, outputReady, uartFault, backlog, mode, releasePending,
                   headRecorded, playback>>

TuhTaskDone ==
    /\ Goto("host", "poll")
    /\ tx' = Quiet
    /\ UNCHANGED <<usb, outputReady, uartFault, backlog, core>>

\* pico_uart_transport_poll: parses the received bytes into commands, and
\* latches a fault for whatever it rejects.
UartPoll ==
    /\ Goto("poll", "fault")
    /\ backlog' \in 0..CommandCapacity
    /\ uartFault' \in {uartFault, TRUE}
    /\ tx' = Quiet
    /\ UNCHANGED <<usb, outputReady, core>>

\* The UART interrupt: a hardware error or a full RX ring latches the fault.
UartInterruptFault ==
    /\ uartFault' = TRUE
    /\ tx' = Quiet
    /\ UNCHANGED <<loop, usb, outputReady, backlog, core>>

TakeFault ==
    /\ Goto("fault", "dispatch")
    /\ IF uartFault THEN EnterError("UART_FAULT", Quiet)
                    ELSE UNCHANGED core /\ tx' = Quiet
    /\ uartFault' = FALSE
    /\ UNCHANGED <<usb, outputReady, backlog>>

DispatchCommand(command) ==
    /\ Goto("dispatch", "dispatch")
    /\ backlog > 0
    /\ backlog' = backlog - 1
    /\ Dispatch(command)
    /\ UNCHANGED <<usb, outputReady, uartFault>>

DispatchDone ==
    /\ Goto("dispatch", "release")
    /\ backlog = 0
    /\ tx' = Quiet
    /\ UNCHANGED <<usb, outputReady, uartFault, backlog, core>>

\* Fault: ERROR is taken to have nothing left to make safe.
ReleaseServiceNotInError ==
    /\ Goto("release", "physical")
    /\ outputReady' = ~releasePending
    /\ IF releasePending /\ hidReady /\ mode # "ERROR"
       THEN Send(NoKeys, "release") /\ releasePending' = FALSE
       ELSE UNCHANGED <<usb, releasePending>>
    /\ tx' = Quiet
    /\ UNCHANGED <<uartFault, backlog, mode, capturing, playback>>

\* pico_safety_release_service: READY, SENT or BLOCKED.
ReleaseService ==
    /\ Goto("release", "physical")
    /\ outputReady' = ~releasePending
    /\ IF releasePending /\ hidReady
       THEN Send(NoKeys, "release") /\ releasePending' = FALSE
       ELSE UNCHANGED <<usb, releasePending>>
    /\ tx' = Quiet
    /\ UNCHANGED <<uartFault, backlog, mode, capturing, playback>>

-----------------------------------------------------------------------------
(* pico_physical_report_dispatch, one pass of its loop at a time. *)

\* Fault: what is captured in PASS is recorded, too.
RecordAnyHead == capture # <<>> /\ ~headRecorded

MustRecordHead == mode = "RECORD" /\ capture # <<>> /\ ~headRecorded

MayForwardHead ==
    /\ mode \in {"PASS", "RECORD"}
    /\ capture # <<>>
    /\ ~MustRecordHead
    /\ outputReady

RecordHead ==
    /\ Goto("physical", "physical")
    /\ MustRecordHead
    /\ headRecorded' = TRUE
    /\ capture' = [capture EXCEPT ![1].events = @ + 1]
    /\ tx' = QueueFrame(Quiet, RecordEvent(capture[1].report))
    /\ UNCHANGED <<usb, outputReady, uartFault, backlog, mode, releasePending,
                   playback>>

ForwardHead ==
    /\ Goto("physical", "physical")
    /\ MayForwardHead
    /\ Send(capture[1].report, "physical")
    /\ capture' = Tail(capture)
    /\ headRecorded' = FALSE
    /\ tx' = Quiet
    /\ UNCHANGED <<outputReady, uartFault, backlog, mode, releasePending,
                   playback>>

PhysicalDone ==
    /\ Goto("physical", "scheduler")
    /\ ~MustRecordHead
    /\ ~(MayForwardHead /\ hidReady)
    /\ outputReady' = FALSE
    /\ tx' = Quiet
    /\ UNCHANGED <<usb, uartFault, backlog, core>>

-----------------------------------------------------------------------------
(* pico_playback_scheduler_task, one pass of its loop at a time. *)

\* The wait for an event is over, or the run turns out to be drained.
SchedulerResume ==
    /\ Goto("scheduler", "scheduler")
    /\ running
    /\ waiting \/ queue = <<>>
    /\ \/ Drained(queue) /\ FinishRun(Quiet)
       \/ /\ queue # <<>> \/ (~ended /\ ~underrun)
          /\ ContinueRun(queue, underrun, flowFault, Quiet)
          /\ UNCHANGED <<releasePending, capturing>>
    /\ UNCHANGED <<usb, outputReady, uartFault, backlog>>

QueueWasFull == Len(queue) = QueueCapacity

(***************************************************************************)
(* The head event is due and the endpoint takes it.  Leaving a full, open  *)
(* queue tells Zero that there is space again; if that frame is dropped    *)
(* the loop turns it into an error right after the task.                   *)
(***************************************************************************)
SchedulerDispatch ==
    LET rest == Tail(queue)
        edge == QueueWasFull /\ ~ended
        ring == IF edge
                THEN QueueFrame(Quiet,
                         BufferStatus(mode, QueueCapacity - Len(rest)))
                ELSE Quiet
        lost == flowFault \/ (edge /\ ~Fits(Quiet, "BUFFER_STATUS"))
    IN  /\ Goto("scheduler", "scheduler")
        /\ running
        /\ ~waiting
        /\ queue # <<>>
        /\ Send(queue[1], "playback")
        /\ \/ Drained(rest) /\ FinishRun(ring)
           \/ /\ ~Drained(rest)
              /\ ContinueRun(rest, underrun, lost, ring)
              /\ UNCHANGED <<releasePending, capturing>>
        /\ UNCHANGED <<outputReady, uartFault, backlog>>

\* Fault: the head event is taken from the queue before the endpoint took it.
SchedulerDoneLosingEvent ==
    /\ Goto("scheduler", "flow")
    /\ \/ ~running
       \/ queue = <<>> /\ ~ended /\ underrun
       \/ queue # <<>> /\ ~waiting
    /\ queue' = IF running /\ ~waiting /\ ~hidReady /\ Len(queue) > 1
                THEN Tail(queue) ELSE queue
    /\ tx' = Quiet
    /\ UNCHANGED <<usb, outputReady, uartFault, backlog, mode, releasePending,
                   capturing, running, ended, waiting, underrun, flowFault>>

\* No run, nothing to play yet, the head is not due, or the endpoint is busy.
SchedulerDone ==
    /\ Goto("scheduler", "flow")
    /\ \/ ~running
       \/ queue = <<>> /\ ~ended /\ underrun
       \/ queue # <<>> /\ ~waiting
    /\ tx' = Quiet
    /\ UNCHANGED <<usb, outputReady, uartFault, backlog, core>>

-----------------------------------------------------------------------------
(* The checks after the scheduler, and the transmitter. *)

\* flowFault implies PLAYING (FlowFaultIsLive), so EnterError discards it.
FlowCheck ==
    /\ Goto("flow", "watchdog")
    /\ IF flowFault THEN EnterError("PROTOCOL_ERROR", Quiet)
                    ELSE UNCHANGED core /\ tx' = Quiet
    /\ UNCHANGED <<usb, outputReady, uartFault, backlog>>

\* Fault: the watchdog is keyed to UART traffic instead of the queue.
WatchdogNeedsTraffic ==
    /\ Goto("watchdog", "transmit")
    /\ mode = "PLAYING"
    /\ underrun
    /\ backlog > 0
    /\ EnterError("UNDERRUN", Quiet)
    /\ UNCHANGED <<usb, outputReady, uartFault, backlog>>

WatchdogExpires ==
    /\ Goto("watchdog", "transmit")
    /\ mode = "PLAYING"
    /\ underrun
    /\ EnterError("UNDERRUN", Quiet)
    /\ UNCHANGED <<usb, outputReady, uartFault, backlog>>

WatchdogQuiet ==
    /\ Goto("watchdog", "transmit")
    /\ tx' = Quiet
    /\ UNCHANGED <<usb, outputReady, uartFault, backlog, core>>

TxTask ==
    /\ Goto("transmit", "device")
    /\ \E n \in TxDrains :
          tx' = [used |-> IF n < tx.used THEN tx.used - n ELSE 0, sent |-> <<>>]
    /\ UNCHANGED <<usb, outputReady, uartFault, backlog, core>>

-----------------------------------------------------------------------------
Init ==
    /\ loop = "device"
    /\ hidReady = FALSE
    /\ output = Released
    /\ releasePending = FALSE
    /\ outputReady = FALSE
    /\ mode = "PASS"
    /\ capture = <<>>
    /\ headRecorded = FALSE
    /\ uartFault = FALSE
    /\ backlog = 0
    /\ queue = <<>>
    /\ running = FALSE
    /\ ended = FALSE
    /\ waiting = FALSE
    /\ underrun = FALSE
    /\ flowFault = FALSE
    /\ tx = [used |-> 0, sent |-> <<>>]

\* The steps of the main loop that neither take a command nor play an event.
LoopBody ==
    \/ TudTask \/ TuhTaskDone \/ TakeFault \/ DispatchDone \/ ReleaseService
    \/ RecordHead \/ ForwardHead \/ PhysicalDone
    \/ SchedulerResume \/ SchedulerDone
    \/ FlowCheck \/ WatchdogExpires \/ WatchdogQuiet \/ TxTask

MainLoop ==
    \/ LoopBody
    \/ SchedulerDispatch
    \/ UartPoll
    \/ \E report \in Reports : ReportReceived(report)
    \/ \E command \in Commands : DispatchCommand(command)

Next == MainLoop \/ UartInterruptFault

Spec == Init /\ [][Next]_vars

-----------------------------------------------------------------------------
(* Fairness. *)

(***************************************************************************)
(* The main loop never stops.  The PC keeps polling the endpoint, so a     *)
(* busy endpoint becomes ready again and again; time passes, so the head   *)
(* deadline and the watchdog period both run out while the loop turns.     *)
(***************************************************************************)
Fairness ==
    /\ WF_vars(MainLoop)
    /\ SF_vars(TudTask /\ hidReady')
    /\ SF_vars(SchedulerDispatch)
    /\ SF_vars(WatchdogExpires)

FairSpec == Spec /\ Fairness

-----------------------------------------------------------------------------
(* Properties. *)

Entries == [report : Reports, events : Nat]

\* Type invariant: every variable of the firmware state stays in its range,
\* in particular the bounded FIFOs and the TX ring stay within capacity.
TypeOK ==
    /\ loop \in LoopPhases
    /\ hidReady \in BOOLEAN
    /\ output \in [keys : Reports, from : {"release", "physical", "playback"}]
    /\ releasePending \in BOOLEAN
    /\ outputReady \in BOOLEAN
    /\ mode \in Modes
    /\ capture \in Seq(Entries) /\ Len(capture) =< CaptureCapacity
    /\ headRecorded \in BOOLEAN
    /\ uartFault \in BOOLEAN
    /\ backlog \in 0..CommandCapacity
    /\ queue \in Seq(Reports) /\ Len(queue) =< QueueCapacity
    /\ running \in BOOLEAN
    /\ ended \in BOOLEAN
    /\ waiting \in BOOLEAN
    /\ underrun \in BOOLEAN
    /\ flowFault \in BOOLEAN
    /\ tx.used \in 0..TxCapacity

\* A scheduler run is active exactly in PLAYING, whichever way it began or
\* ended (playback_complete defers play_finish, stop is called from
\* mode_clear_queue, start may finish synchronously).
RunMatchesMode == running <=> mode = "PLAYING"

\* The scheduler never idles on an event it holds, and never believes in an
\* underrun after refill: it waits exactly while an open queue is empty.
\* (The watchdog reads underrun_active; a stale one would kill a live run.)
WaitMatchesQueue ==
    /\ waiting = underrun
    /\ running /\ queue = <<>> => waiting
    /\ waiting => running
    /\ running /\ loop \notin {"dispatch", "release", "physical", "scheduler"}
          => (waiting <=> queue = <<>>)

\* Between the release service and the end of the scheduler's task no report
\* can overtake a release that is still owed: an endpoint that refused the
\* release stays busy for the scheduler, which does not look at the pending
\* flag itself, and physical input sees a READY result only.
ReleaseGoesFirst ==
    /\ outputReady => loop = "physical" /\ ~releasePending
    /\ releasePending /\ loop = "physical" => ~hidReady
    /\ releasePending /\ loop = "scheduler" /\ running => ~hidReady

\* A flow-control fault is pending only while the run it is about is live, so
\* the main loop never charges it to a later run or mode.
FlowFaultIsLive == flowFault => mode = "PLAYING"

\* Nothing survives a mode change that discards it: captured input exists
\* only where physical input is accepted, queued events and the end marker
\* only where a sequence may be loaded or played (clear_release_and_queue).
NothingLeftBehind ==
    /\ mode \notin {"PASS", "RECORD"} => capture = <<>>
    /\ mode \notin {"ARMED", "PLAYING"} => queue = <<>> /\ ~ended

\* The modules of the firmware agree about the state they share, at every point
\* of the main loop: mode and run, queue and wait, owed release and endpoint,
\* flow fault and live run, mode and what is queued.
Consistent ==
    /\ TypeOK
    /\ RunMatchesMode
    /\ WaitMatchesQueue
    /\ ReleaseGoesFirst
    /\ FlowFaultIsLive
    /\ NothingLeftBehind

\* In RECORD every report is recorded exactly once before it leaves for the
\* PC, and a report retried against a busy endpoint is not recorded again;
\* in PASS none is (physical_report_dispatch.c, head_recorded).
RecordedOnce ==
    /\ capture # <<>> => capture[1].events = IF headRecorded THEN 1 ELSE 0
    /\ \A i \in 2..Len(capture) : capture[i].events = 0
    /\ headRecorded => mode = "RECORD" /\ capture # <<>>

\* However a run ends, Zero is told once and in one order: the outcome, the
\* metrics, the mode change (docs/protocol.md).  Only a full TX ring may lose
\* frames.  A run that ends as it starts has its PLAY_STARTED in the step.
LastFrames(frames, n) == SubSeq(frames, Len(frames) - n + 1, Len(frames))

RunEndBytes == FrameBytes("PLAY_FINISHED") + FrameBytes("PLAY_METRICS")
                 + FrameBytes("MODE_CHANGED")

RunStartBytes == FrameBytes("MODE_CHANGED") + FrameBytes("PLAY_STARTED")

RunEnds ==
    /\ mode = "PLAYING" \/ Plain("PLAY_STARTED") \in Range(tx'.sent)
    /\ mode' # "PLAYING"

EndIsTold ==
    IF RunEnds
    THEN \E outcome \in {"PLAY_FINISHED", "PLAY_ABORTED"}, reason \in Reasons :
            /\ LastFrames(tx'.sent, 3) =
                  <<Plain(outcome), Plain("PLAY_METRICS"), ModeChanged(mode', reason)>>
            /\ outcome = "PLAY_FINISHED" <=> reason = "FINISHED"
    ELSE \A outcome \in {"PLAY_FINISHED", "PLAY_ABORTED"} :
            Plain(outcome) \notin Range(tx'.sent)

RoomForRun == tx.used + RunStartBytes + RunEndBytes =< TxCapacity

RunEndReported == [][RoomForRun => EndIsTold]_vars

\* The promise made to the PC (module SafeOutput) is kept by this firmware.
Gate == INSTANCE SafeOutput WITH output <- output

SafeOutputKept == Gate!Spec

HeldKeysBelongToMode == Gate!HeldKeysBelongToMode

IsModeNews(frame) == frame.type \in {"MODE_CHANGED", "RECORD_EVENT"}

\* The frames of a step that are about modes, in their order.
News(frames) ==
    LET kept[n \in 0..Len(frames)] ==
            IF n = 0 THEN <<>>
            ELSE IF IsModeNews(frames[n]) THEN Append(kept[n - 1], frames[n])
            ELSE kept[n - 1]
    IN  kept[Len(frames)]

\* The Zero's view of the Pico (module PicoPeer) is this firmware's: every mode
\* change is announced with the mode it leads to, nothing is recorded outside
\* RECORD, and only a full TX ring keeps a frame from the wire.
Peer == INSTANCE PicoPeer
    WITH mode <- mode, sent <- News(tx.sent)

PeerKept == Peer!Spec

\* Once Zero sends no more commands, a run ends: it drains, or the watchdog
\* stops the wait for events that never come.
SilenceEndsRun == <>[](backlog = 0) => []<>(mode # "PLAYING")

\* A release owed to the PC is sent, whatever the endpoint does meanwhile.
ReleaseIsSent == []<>~releasePending

=============================================================================
