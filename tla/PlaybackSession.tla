--------------------------- MODULE PlaybackSession ---------------------------
(***************************************************************************)
(* The life of a playback session (zero/app/playback.py): start(),         *)
(* finish() and abort() as the waits they consist of, each of which may    *)
(* fail or, once a stop is requested, be cancelled; and the sessions that  *)
(* follow over the same PicoTransport.  One event stands for every batch:  *)
(* PlaybackStream has the streaming itself.  The Pico answers as           *)
(* PicoFirmware does; its commands are handled in order.                   *)
(***************************************************************************)
EXTENDS UartProtocol, Sequences, FiniteSets

CONSTANTS
    Retries,      \* set_mode's retries
    MaxSessions,  \* bound: sessions and safe_stops begun
    MaxStops,     \* bound: stop requests
    MaxTrouble,   \* bound: kinds of trouble in a behaviour
    MaxLate       \* bound: waits that end although their frame would come

ASSUME SessionAssumption == {Retries, MaxSessions, MaxStops, MaxTrouble, MaxLate} \subseteq Nat

VARIABLES
    mode, closed, runs,  \* the Pico: mode, QUEUE_END seen, runs started
    toPico, fromPico,    \* the wire
    pending,             \* transport._pending
    stage, attempt,      \* the wait the session is in, and set_mode's attempt
    long,                \* the recording is longer than the prebuffer
    cancel,              \* transport.cancel_event is set
    raised,              \* abort() has an error to raise
    shown,               \* the state the controller shows
    failure,             \* the first wait of the session that failed, or "none"
    heard,               \* runs whose outcome or metrics the session has read
    before,              \* history: runs started before the session
    sessions, stops, trouble, late,
    cancelled            \* history: the waits that a stop request has ended

pico == <<mode, closed, runs>>
link == <<toPico, fromPico, pending>>
control == <<stage, attempt, long, cancel, raised, shown, failure, heard, before, sessions>>
counts == <<stops, trouble, late, cancelled>>
sessionVars == <<pico, link, control, counts>>

-----------------------------------------------------------------------------
(* The Pico. *)

OfRun(type) == [type |-> type, run |-> runs]

RunOf(frame) == IF "run" \in DOMAIN frame THEN {frame.run} ELSE {}

EndOfRun(type) == <<OfRun(type), OfRun("PLAY_METRICS")>>

\* Entering a mode from PLAYING ends the run, before the mode is reported.
Enter(state, reason) ==
    /\ mode' = state
    /\ closed' = FALSE
    /\ fromPico' = fromPico \o (IF mode = "PLAYING" THEN EndOfRun("PLAY_ABORTED") ELSE <<>>)
                            \o <<ModeChanged(state, reason)>>
    /\ UNCHANGED runs

Answers(frames) == fromPico' = fromPico \o frames /\ UNCHANGED <<mode, closed, runs>>

ModeSet(target) ==
    IF target = mode THEN Answers(<<ModeChanged(mode, "OK")>>)
    ELSE IF target = "PASS" \/ mode = "PASS" THEN Enter(target, "OK")
    ELSE Answers(<<ModeChanged(mode, "INVALID_TRANSITION")>>)

Fault(reason) ==
    IF mode \in {"PASS", "ERROR"} THEN Answers(<<ModeChanged(mode, reason)>>) ELSE Enter("ERROR", reason)

Queue(type) ==
    LET notices == IF type = "QUEUE_END" /\ mode = "ARMED" THEN <<Plain("PLAY_READY")>> ELSE <<>>
    IN  IF QueueCommandAllowed(type, mode)
        THEN /\ closed' = (type = "QUEUE_END" \/ (type = "QUEUE_EVENT" /\ closed))
             /\ fromPico' = fromPico \o Append(notices, BufferStatus(mode, 1))
             /\ UNCHANGED <<mode, runs>>
        ELSE Fault("PROTOCOL_ERROR")

PlayStart ==
    IF mode = "ARMED"
    THEN /\ mode' = "PLAYING"
         /\ runs' = runs + 1
         /\ fromPico' = fromPico \o <<ModeChanged("PLAYING", "OK"), Plain("PLAY_STARTED")>>
         /\ UNCHANGED closed
    ELSE Answers(<<ModeChanged(mode, "INVALID_TRANSITION")>>)

PlayAbort ==
    IF mode \in {"ARMED", "PLAYING"} THEN Enter("ARMED", "ABORTED")
    ELSE Answers(<<ModeChanged(mode, "INVALID_TRANSITION")>>)

HandleCommand ==
    /\ toPico # <<>>
    /\ toPico' = Tail(toPico)
    /\ LET command == Head(toPico)
       IN  CASE command.type = "MODE_SET" -> ModeSet(command.target)
             [] command.type = "PLAY_START" -> PlayStart
             [] command.type = "PLAY_ABORT" -> PlayAbort
             [] OTHER -> Queue(command.type)
    /\ UNCHANGED <<pending, control, counts>>

\* The last event of a closed sequence has been sent.
RunEnds ==
    /\ mode = "PLAYING" /\ closed
    /\ mode' = "ARMED" /\ closed' = FALSE
    /\ fromPico' = fromPico \o Append(EndOfRun("PLAY_FINISHED"), ModeChanged("ARMED", "FINISHED"))
    /\ UNCHANGED <<runs, toPico, pending, control, counts>>

Meet(kind) ==
    /\ kind \notin trouble
    /\ Cardinality(trouble) < MaxTrouble
    /\ trouble' = trouble \cup {kind}

\* A fault of the UART, or the end of the scheduler's patience; one that
\* damages a command also loses it.
LinkFault ==
    /\ \/ Meet("fault") /\ UNCHANGED toPico
       \/ Meet("command") /\ toPico # <<>> /\ toPico' = Tail(toPico)
    /\ Fault("UART_FAULT")
    /\ UNCHANGED <<pending, control, stops, late, cancelled>>

-----------------------------------------------------------------------------
(* A session as the list of its waits: what is written before each, and    *)
(* the frame it needs.  Plain(type) stands for any frame of the type.      *)

SetMode(target) == [type |-> "MODE_SET", target |-> target]

Awaits ==
    [arm     |-> ModeChanged("ARMED", "OK"),      clear    |-> BufferStatus("ARMED", 1),
     feed    |-> BufferStatus("ARMED", 1),        ready    |-> Plain("PLAY_READY"),
     closing |-> BufferStatus("ARMED", 1),        start    |-> ModeChanged("PLAYING", "OK"),
     started |-> Plain("PLAY_STARTED"),           stream   |-> BufferStatus("PLAYING", 1),
     outcome |-> Plain("PLAY_FINISHED"),          metrics  |-> Plain("PLAY_METRICS"),
     ended   |-> ModeChanged("ARMED", "FINISHED"), pass    |-> ModeChanged("PASS", "OK"),
     abort   |-> Plain("PLAY_ABORTED"),           partial  |-> Plain("PLAY_METRICS"),
     aborted |-> ModeChanged("ARMED", "ABORTED"), cleanup  |-> ModeChanged("PASS", "OK")]

Waiting == stage \in DOMAIN Awaits

Requests(next) ==
    CASE next = "arm" -> <<SetMode("ARMED")>>
      [] next = "clear" -> <<Plain("QUEUE_CLEAR")>>
      [] next \in {"feed", "stream"} -> <<Plain("QUEUE_EVENT")>>
      [] next = "ready" -> <<Plain("QUEUE_END")>>
      [] next = "start" -> <<Plain("PLAY_START")>>
      [] next = "outcome" /\ long -> <<Plain("QUEUE_END")>>
      [] next = "abort" -> <<Plain("PLAY_ABORT")>>
      [] next \in {"pass", "cleanup"} -> <<SetMode("PASS")>>
      [] OTHER -> <<>>

Following ==
    [arm |-> "clear", clear |-> "feed", feed |-> IF long THEN "start" ELSE "ready",
     ready |-> "closing", closing |-> "start", start |-> "started",
     started |-> IF long THEN "stream" ELSE "outcome", stream |-> "outcome",
     outcome |-> "metrics", metrics |-> "ended", ended |-> "pass", pass |-> "idle",
     abort |-> "partial", partial |-> "aborted", aborted |-> "cleanup", cleanup |-> "idle"]

Streaming == {"stream", "outcome", "metrics", "ended"}
Aborting == {"abort", "partial", "aborted"}
Exchanges == {"arm", "pass", "cleanup"}

Proceed(next) ==
    /\ stage' = next
    /\ attempt' = 0
    /\ toPico' = toPico \o Requests(next)

-----------------------------------------------------------------------------
(* The transport. *)

IsError(frame) == frame.type = "MODE_CHANGED" /\ frame.state = "ERROR"

\* Places of the frames that end the wait; the others are passed over.
Answering ==
    {i \in DOMAIN pending : pending[i].type = Awaits[stage].type \/ IsError(pending[i])}

First(places) == CHOOSE i \in places : \A j \in places : i =< j

Without(i) == SubSeq(pending, 1, i - 1) \o SubSeq(pending, i + 1, Len(pending))

ReadChunk ==
    /\ Waiting /\ Answering = {}
    /\ ~cancel
    /\ \E n \in 1..Len(fromPico) :
          /\ pending' = pending \o SubSeq(fromPico, 1, n)
          /\ fromPico' = SubSeq(fromPico, n + 1, Len(fromPico))
    /\ UNCHANGED <<pico, toPico, control, counts>>

-----------------------------------------------------------------------------
(* What the session makes of a wait that fails. *)

\* Fault: an abort that fails is tried again.
CleanupRepeats(failed) ==
    IF failed \in Streaming \cup Aborting THEN "abort"
    ELSE IF failed \in {"arm", "cleanup"} THEN "idle"
    ELSE "cleanup"

\* Fault: MODE_SET(PASS) ends the run by itself, so nothing else is sent.
PassWithoutAbort(failed) == IF failed \in {"arm", "cleanup"} THEN "idle" ELSE "cleanup"

\* Fault: a session that fails before PLAY_STARTED does not go back to PASS.
CleanupOnceStarted(failed) ==
    IF failed \in Streaming THEN "abort"
    ELSE IF failed \in Aborting \cup {"pass"} THEN "cleanup"
    ELSE "idle"

\* abort(): PLAY_ABORT if `playing', MODE_SET(PASS) if `_armed'.
Cleanup(failed) ==
    IF failed \in Streaming THEN "abort"
    ELSE IF failed \in {"arm", "cleanup"} THEN "idle"
    ELSE "cleanup"

\* What was read and not used is dropped before the PASS that follows a failed
\* abort, and kept otherwise.
Leftover(failed, rest) == IF failed \in Aborting THEN <<>> ELSE rest

Fail(rest) ==
    /\ pending' = Leftover(stage, rest)
    /\ raised' = (raised \/ stage \in Aborting \cup {"cleanup"})
    /\ failure' = IF failure = "none" THEN stage ELSE failure
    /\ shown' = IF Cleanup(stage) # "idle" THEN shown ELSE IF raised' THEN "ERROR" ELSE "PASS"
    /\ cancel' = FALSE
    /\ Proceed(Cleanup(stage))
    /\ UNCHANGED <<long, heard, before, sessions>>

\* Fault: the diagnostics are collected before the metrics are read.
CollectsEarly == stage \in {"outcome", "aborted"}

\* _collect_diagnostics, at the end of a run, reads what is left and fails on
\* an error in it.
Collects == stage \in {"ended", "aborted"}

Accepts(frame) == Awaits[stage] \in {Plain(frame.type), frame}

Answered ==
    /\ Waiting /\ Answering # {}
    /\ LET i == First(Answering)
           rest == Without(i)
           spoilt == Collects /\ \E j \in DOMAIN rest : IsError(rest[j])
       IN  IF IsError(pending[i]) \/ ~Accepts(pending[i]) \/ spoilt
           THEN Fail(IF spoilt THEN <<>> ELSE rest)
           ELSE /\ Proceed(Following[stage])
                /\ pending' = IF Collects THEN <<>> ELSE rest
                /\ heard' = heard \cup RunOf(pending[i])
                /\ shown' = CASE Following[stage] # "idle" -> shown
                              [] raised -> "ERROR"
                              [] OTHER -> "PASS"
                /\ cancel' = (cancel /\ Following[stage] # "idle")
                /\ UNCHANGED <<long, raised, failure, before, sessions>>
    /\ UNCHANGED <<pico, fromPico, counts>>

\* A wait that nothing under way can end.
Starved == toPico = <<>> /\ fromPico = <<>> /\ ~(mode = "PLAYING" /\ closed)

CanRetry == stage \in Exchanges /\ attempt < Retries

GivesUp ==
    /\ Waiting /\ Answering = {}
    /\ IF CanRetry
       THEN /\ attempt' = attempt + 1
            /\ toPico' = toPico \o Requests(stage)
            /\ UNCHANGED <<pending, stage, long, cancel, raised, shown, failure, heard, before, sessions>>
       ELSE Fail(pending)
    /\ UNCHANGED <<pico, fromPico, stops, trouble>>

TimesOut == Starved /\ GivesUp /\ UNCHANGED <<late, cancelled>>

TimesOutEarly ==
    /\ ~Starved
    /\ late < MaxLate
    /\ late' = late + 1
    /\ GivesUp
    /\ UNCHANGED cancelled

Cancelled ==
    /\ cancel
    /\ cancelled' = cancelled \cup {stage}
    /\ GivesUp
    /\ UNCHANGED late

\* A chunk with a damaged frame goes as a whole.
DamagedRead ==
    /\ Waiting /\ Answering = {} /\ ~cancel
    /\ Meet("damage")
    /\ \E n \in 1..Len(fromPico) : fromPico' = SubSeq(fromPico, n + 1, Len(fromPico))
    /\ Fail(pending)
    /\ UNCHANGED <<pico, stops, late, cancelled>>

-----------------------------------------------------------------------------
(* The controller. *)

StopRequested ==
    /\ stage \in Streaming \cup {"pass"} /\ ~cancel
    /\ stops < MaxStops
    /\ stops' = stops + 1
    /\ cancel' = TRUE
    /\ UNCHANGED <<pico, link, stage, attempt, long, raised, shown, failure, heard, before, sessions, trouble, late, cancelled>>

Begin(first) ==
    /\ stage = "idle"
    /\ sessions < MaxSessions
    /\ sessions' = sessions + 1
    /\ before' = runs
    /\ heard' = {} /\ failure' = "none" /\ raised' = FALSE
    /\ Proceed(first)
    /\ UNCHANGED <<pico, fromPico, pending, cancel, counts>>

StartSession == Begin("arm") /\ shown' = "ARMED" /\ long' \in BOOLEAN

SafeStop == Begin("cleanup") /\ UNCHANGED <<shown, long>>

SessionInit ==
    /\ mode = "PASS" /\ closed = FALSE /\ runs = 0
    /\ toPico = <<>> /\ fromPico = <<>> /\ pending = <<>>
    /\ stage = "idle" /\ attempt = 0 /\ long = FALSE /\ cancel = FALSE
    /\ raised = FALSE /\ shown = "PASS" /\ failure = "none" /\ heard = {} /\ before = 0
    /\ sessions = 0 /\ stops = 0 /\ trouble = {} /\ late = 0 /\ cancelled = {}

SessionNext ==
    \/ HandleCommand \/ RunEnds \/ LinkFault
    \/ ReadChunk \/ Answered \/ TimesOut \/ TimesOutEarly \/ Cancelled \/ DamagedRead
    \/ StopRequested \/ StartSession \/ SafeStop

SessionSpec == SessionInit /\ [][SessionNext]_sessionVars

\* The Pico's loop runs on, and so does the thread of the session: it reads
\* what has come, and its waits are bounded.
SessionFairness ==
    /\ WF_sessionVars(HandleCommand) /\ WF_sessionVars(RunEnds)
    /\ WF_sessionVars(ReadChunk) /\ WF_sessionVars(Answered)
    /\ WF_sessionVars(TimesOut) /\ WF_sessionVars(Cancelled)

FairSessionSpec == SessionSpec /\ SessionFairness

-----------------------------------------------------------------------------
(* Properties. *)

Quiet == trouble = {} /\ late = 0

SessionTypeOK ==
    /\ stage \in DOMAIN Awaits \cup {"idle"}
    /\ attempt \in 0..Retries
    /\ cancel => stage \in Streaming \cup {"pass"}
    /\ heard \subseteq 1..runs

\* Wherever a session fails or is stopped, it leaves the Pico in PASS once its
\* requests have arrived: not in ARMED or PLAYING, with the keyboard blocked.
\* (Not so where ARMED itself was not confirmed: see ArmedIsLeft.)
SessionLeavesPass ==
    stage = "idle" /\ toPico = <<>> /\ failure # "arm" /\ "command" \notin trouble => mode = "PASS"

\* The session is where its exchange says, and leaves the Pico as it should.
SessionIsLeft == SessionTypeOK /\ SessionLeavesPass

\* Over a link without trouble and lateness, a session that nobody stops
\* plays to the end, whatever was read in one chunk with what.
UndisturbedSessionSucceeds == Quiet /\ stops = 0 => failure = "none"

\* A session reads the outcome and metrics of its own run, also after sessions
\* that were stopped at any moment -- unless a stop request ended the wait for
\* a session's PASS: the surplus answers of its repeats meet later sessions.
HeardIsOwn == Quiet /\ "pass" \notin cancelled => \A run \in heard : run > before

\* A session comes to its end.
SessionEnds == Waiting ~> stage = "idle"

=============================================================================
