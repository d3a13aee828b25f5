------------------------ MODULE PlaybackSessionProofs ------------------------
(***************************************************************************)
(* What the runs on PlaybackSession check for a few sessions, stops and    *)
(* kinds of trouble, for any number of them and of set_mode's retries.     *)
(*                                                                         *)
(* The Pico is left in PASS because the last request of a session that     *)
(* leaves is MODE_SET(PASS), and the Pico handles requests in order: it is *)
(* there already, or the request is the last on the wire (PassComes).      *)
(*                                                                         *)
(* An undisturbed session succeeds because each wait begins with the Pico  *)
(* where the wait before left it.  OnTrack is the table of the waits: what *)
(* the Pico was asked, or what it has said that the session has not used   *)
(* (Way), however much of it was read in one chunk.  The frame a wait      *)
(* needs is then the first that can end it (IsAnswer), and is still to     *)
(* come as long as the wait lasts (FrameIsComing).                         *)
(***************************************************************************)
EXTENDS PlaybackSession, SequenceLemmas

Stages == DOMAIN Awaits \cup {"idle"}

Request ==
    [type : {"MODE_SET"}, target : {"ARMED", "PASS"}]
        \cup [type : {"QUEUE_CLEAR", "QUEUE_EVENT", "QUEUE_END", "PLAY_START", "PLAY_ABORT"}]

\* What the Pico says while it knows of n runs.
Answer(n) ==
    [type : {"MODE_CHANGED"}, state : Modes, reason : Reasons]
        \cup [type : {"BUFFER_STATUS"}, state : Modes, free : {1}]
        \cup [type : {"PLAY_READY", "PLAY_STARTED"}]
        \cup [type : {"PLAY_FINISHED", "PLAY_ABORTED", "PLAY_METRICS"}, run : 1..n]

PicoTypes == mode \in Modes /\ runs \in Nat /\ (mode = "PLAYING" => runs > 0)

LinkTypes ==
    /\ toPico \in Seq(Request)
    /\ fromPico \in Seq(Answer(runs)) /\ pending \in Seq(Answer(runs))

ControlTypes ==
    /\ stage \in Stages /\ attempt \in 0..Retries /\ long \in BOOLEAN
    /\ cancel => stage \in Streaming \cup {"pass"}
    /\ heard \subseteq 1..runs
    /\ stage = "arm" => failure = "none"

\* The last request is MODE_SET(PASS), or has been handled.
PassComes ==
    \/ "command" \in trouble
    \/ toPico = <<>> /\ mode = "PASS"
    \/ toPico # <<>> /\ toPico[Len(toPico)] = SetMode("PASS")

Leaving == stage \in {"pass", "cleanup"} \/ (stage = "idle" /\ failure # "arm")

SessionInv == PicoTypes /\ LinkTypes /\ ControlTypes /\ (Leaving => PassComes)

-----------------------------------------------------------------------------
(* The frames. *)

LEMMA StageNames ==
    DOMAIN Awaits = {"arm", "clear", "feed", "ready", "closing", "start", "started", "stream",
                     "outcome", "metrics", "ended", "pass", "abort", "partial", "aborted", "cleanup"}
  BY DEF Awaits

LEMMA RunOfAnswer ==
    ASSUME NEW n \in Nat, NEW frame \in Answer(n)
    PROVE  RunOf(frame) \subseteq 1..n
  BY DEF Answer, RunOf

LEMMA AnswersStay ==
    ASSUME NEW n \in Nat, NEW m \in Nat, n =< m, NEW s \in Seq(Answer(n))
    PROVE  s \in Seq(Answer(m))
<1> DEFINE S == Answer(n)
           T == Answer(m)
<1>1. S \subseteq T
  BY DEF Answer
<1> HIDE DEF S, T
<1>2. s \in Seq(S)
  BY DEF S
<1>3. s \in Seq(T)
  BY <1>1, <1>2, SeqMonotonic, Zenon
<1> QED
  BY <1>3 DEF T

LEMMA RequestsAre ==
    ASSUME NEW next
    PROVE  Requests(next) \in Seq(Request)
<1>1. /\ SetMode("ARMED") \in Request /\ SetMode("PASS") \in Request
      /\ \A type \in {"QUEUE_CLEAR", "QUEUE_EVENT", "QUEUE_END", "PLAY_START", "PLAY_ABORT"} :
            Plain(type) \in Request
  BY DEF SetMode, Plain, Request
<1>2. \A x \in Request : <<x>> \in Seq(Request)
  <2> DEFINE S == Request
  <2> HIDE DEF S
  <2>1. \A x \in S : <<x>> \in Seq(S)
    OBVIOUS
  <2> QED
    BY <2>1 DEF S
<1>3. <<>> \in Seq(Request)
  OBVIOUS
<1> QED
  BY <1>1, <1>2, <1>3 DEF Requests

-----------------------------------------------------------------------------
(* The Pico. *)

\* What a handler of the Pico does to what the session can see.
PicoSteps ==
    /\ mode' \in Modes /\ runs' \in Nat /\ runs =< runs' /\ (mode' = "PLAYING" => runs' > 0)
    /\ \E frames \in Seq(Answer(runs')) : fromPico' = fromPico \o frames

LEMMA OneAnswer ==
    ASSUME NEW n, NEW a \in Answer(n)
    PROVE  <<a>> \in Seq(Answer(n))
<1> DEFINE S == Answer(n)
<1> HIDE DEF S
<1>1. a \in S
  BY DEF S
<1>2. <<a>> \in Seq(S)
  BY <1>1
<1> QED
  BY <1>2 DEF S

LEMMA TwoAnswers ==
    ASSUME NEW n, NEW a \in Answer(n), NEW b \in Answer(n)
    PROVE  <<a, b>> \in Seq(Answer(n))
<1> DEFINE S == Answer(n)
<1> HIDE DEF S
<1>1. a \in S /\ b \in S
  BY DEF S
<1>2. <<a, b>> \in Seq(S)
  BY <1>1
<1> QED
  BY <1>2 DEF S

LEMMA AnswersJoin ==
    ASSUME NEW n, NEW s \in Seq(Answer(n)), NEW t \in Seq(Answer(n))
    PROVE  s \o t \in Seq(Answer(n))
<1> DEFINE S == Answer(n)
<1> HIDE DEF S
<1>1. s \in Seq(S) /\ t \in Seq(S)
  BY DEF S
<1>2. s \o t \in Seq(S)
  BY <1>1
<1> QED
  BY <1>2 DEF S

LEMMA FramesAre ==
    ASSUME NEW n \in Nat
    PROVE  /\ \A m \in Modes, r \in Reasons : ModeChanged(m, r) \in Answer(n)
           /\ \A m \in Modes : BufferStatus(m, 1) \in Answer(n)
           /\ Plain("PLAY_READY") \in Answer(n) /\ Plain("PLAY_STARTED") \in Answer(n)
  BY DEF ModeChanged, BufferStatus, Plain, Answer

LEMMA RunFramesAre ==
    ASSUME runs \in Nat, runs > 0,
           NEW type \in {"PLAY_FINISHED", "PLAY_ABORTED"}
    PROVE  EndOfRun(type) \in Seq(Answer(runs))
<1>1. OfRun(type) \in Answer(runs) /\ OfRun("PLAY_METRICS") \in Answer(runs)
  BY DEF OfRun, Answer
<1> QED
  BY <1>1, TwoAnswers DEF EndOfRun

LEMMA Said ==
    ASSUME PicoTypes, NEW frames \in Seq(Answer(runs)), Answers(frames)
    PROVE  PicoSteps
  BY DEF PicoTypes, Answers, PicoSteps

LEMMA Entered ==
    ASSUME PicoTypes, LinkTypes, NEW state \in {"PASS", "ARMED", "ERROR"}, NEW reason \in Reasons,
           Enter(state, reason)
    PROVE  PicoSteps
<1> DEFINE ends == IF mode = "PLAYING" THEN EndOfRun("PLAY_ABORTED") ELSE <<>>
           said == <<ModeChanged(state, reason)>>
<1>1. runs' = runs /\ runs \in Nat /\ mode' = state /\ state \in Modes
      /\ fromPico' = (fromPico \o ends) \o said
  BY DEF PicoTypes, Enter, Modes
<1>2. ends \in Seq(Answer(runs))
  <2>1. <<>> \in Seq(Answer(runs))
    OBVIOUS
  <2> QED
    BY <2>1, RunFramesAre DEF PicoTypes
<1>3. said \in Seq(Answer(runs))
  BY <1>1, FramesAre, OneAnswer
<1> HIDE DEF ends, said
<1>4. (fromPico \o ends) \o said = fromPico \o (ends \o said) /\ ends \o said \in Seq(Answer(runs))
  <2> DEFINE S == Answer(runs)
  <2>1. fromPico \in Seq(S) /\ ends \in Seq(S) /\ said \in Seq(S)
    BY <1>2, <1>3 DEF LinkTypes
  <2> HIDE DEF S
  <2>2. (fromPico \o ends) \o said = fromPico \o (ends \o said) /\ ends \o said \in Seq(S)
    BY <2>1
  <2> QED
    BY <2>2 DEF S
<1>5. mode' # "PLAYING"
  BY <1>1
<1>6. \E frames \in Seq(Answer(runs')) : fromPico' = fromPico \o frames
  <2> DEFINE frames == ends \o said
  <2>1. frames \in Seq(Answer(runs')) /\ fromPico' = fromPico \o frames
    BY <1>1, <1>4
  <2> HIDE DEF frames
  <2> QED
    BY <2>1
<1> QED
  BY <1>1, <1>5, <1>6 DEF PicoSteps

LEMMA ModeSetSteps ==
    ASSUME PicoTypes, LinkTypes, NEW target \in {"ARMED", "PASS"}, ModeSet(target)
    PROVE  PicoSteps /\ (target = "PASS" => mode' = "PASS")
<1>1. \A r \in {"OK", "INVALID_TRANSITION"} : <<ModeChanged(mode, r)>> \in Seq(Answer(runs))
  BY FramesAre, OneAnswer DEF PicoTypes, Reasons
<1>2. CASE Answers(<<ModeChanged(mode, "OK")>>) /\ target = mode
  BY <1>1, <1>2, Said DEF Answers
<1>3. CASE Enter(target, "OK")
  BY <1>3, Entered DEF Enter, Reasons
<1>4. CASE Answers(<<ModeChanged(mode, "INVALID_TRANSITION")>>) /\ target # "PASS"
  BY <1>1, <1>4, Said
<1> QED
  BY <1>2, <1>3, <1>4 DEF ModeSet

LEMMA FaultSteps ==
    ASSUME PicoTypes, LinkTypes, NEW reason \in Reasons, Fault(reason)
    PROVE  PicoSteps /\ (mode = "PASS" => mode' = "PASS")
<1>1. <<ModeChanged(mode, reason)>> \in Seq(Answer(runs))
  BY FramesAre, OneAnswer DEF PicoTypes
<1>2. CASE Answers(<<ModeChanged(mode, reason)>>)
  BY <1>1, <1>2, Said DEF Answers
<1>3. CASE Enter("ERROR", reason) /\ mode # "PASS"
  BY <1>3, Entered
<1> QED
  BY <1>2, <1>3 DEF Fault

LEMMA QueueSteps ==
    ASSUME PicoTypes, LinkTypes, NEW type, Queue(type)
    PROVE  PicoSteps
<1> DEFINE notices == IF type = "QUEUE_END" /\ mode = "ARMED" THEN <<Plain("PLAY_READY")>> ELSE <<>>
           frames == Append(notices, BufferStatus(mode, 1))
<1>1. CASE fromPico' = fromPico \o frames /\ UNCHANGED <<mode, runs>>
  <2>1. notices \in Seq(Answer(runs)) /\ BufferStatus(mode, 1) \in Answer(runs)
    <3>1. <<>> \in Seq(Answer(runs))
      OBVIOUS
    <3> QED
      BY <3>1, FramesAre, OneAnswer DEF PicoTypes
  <2> HIDE DEF notices
  <2>2. frames \in Seq(Answer(runs))
    BY <2>1, AppendProperties
  <2> HIDE DEF frames
  <2> QED
    BY <1>1, <2>2 DEF PicoTypes, PicoSteps
<1>2. CASE Fault("PROTOCOL_ERROR")
  BY <1>2, FaultSteps DEF Reasons
<1> HIDE DEF notices
<1> QED
  BY <1>1, <1>2 DEF Queue, notices

LEMMA PlayStartSteps ==
    ASSUME PicoTypes, LinkTypes, PlayStart
    PROVE  PicoSteps
<1>1. CASE mode = "ARMED"
  <2> DEFINE frames == <<ModeChanged("PLAYING", "OK"), Plain("PLAY_STARTED")>>
  <2>1. mode' = "PLAYING" /\ runs' = runs + 1 /\ fromPico' = fromPico \o frames /\ runs \in Nat
    BY <1>1 DEF PlayStart, PicoTypes
  <2>2. frames \in Seq(Answer(runs'))
    BY <2>1, FramesAre, TwoAnswers DEF Modes, Reasons
  <2>3. runs' \in Nat /\ runs =< runs' /\ runs' > 0 /\ mode' \in Modes
    BY <2>1 DEF Modes
  <2> HIDE DEF frames
  <2> QED
    BY <2>1, <2>2, <2>3 DEF PicoSteps
<1>2. CASE mode # "ARMED"
  <2>1. <<ModeChanged(mode, "INVALID_TRANSITION")>> \in Seq(Answer(runs))
    BY FramesAre, OneAnswer DEF PicoTypes, Reasons
  <2> QED
    BY <1>2, <2>1, Said DEF PlayStart
<1> QED
  BY <1>1, <1>2

LEMMA PlayAbortSteps ==
    ASSUME PicoTypes, LinkTypes, PlayAbort
    PROVE  PicoSteps
<1>1. <<ModeChanged(mode, "INVALID_TRANSITION")>> \in Seq(Answer(runs))
  BY FramesAre, OneAnswer DEF PicoTypes, Reasons
<1> QED
  BY <1>1, Said, Entered DEF PlayAbort, Reasons

LEMMA RunEndSteps ==
    ASSUME PicoTypes, LinkTypes, RunEnds
    PROVE  PicoSteps
<1> DEFINE frames == Append(EndOfRun("PLAY_FINISHED"), ModeChanged("ARMED", "FINISHED"))
<1>1. runs' = runs /\ runs > 0 /\ runs \in Nat /\ mode' = "ARMED" /\ fromPico' = fromPico \o frames
  BY DEF RunEnds, PicoTypes
<1>2. frames \in Seq(Answer(runs))
  <2>1. EndOfRun("PLAY_FINISHED") \in Seq(Answer(runs))
    BY <1>1, RunFramesAre
  <2>2. ModeChanged("ARMED", "FINISHED") \in Answer(runs)
    BY <1>1, FramesAre DEF Modes, Reasons
  <2> QED
    BY <2>1, <2>2, AppendProperties
<1> HIDE DEF frames
<1>3. mode' \in Modes /\ mode' # "PLAYING" /\ runs' \in Nat /\ runs =< runs'
  BY <1>1 DEF Modes
<1>4. \E said \in Seq(Answer(runs')) : fromPico' = fromPico \o said
  BY <1>1, <1>2
<1> QED
  BY <1>3, <1>4 DEF PicoSteps

\* The session is not moved by a step of the Pico.
LEMMA PicoMoves ==
    ASSUME SessionInv, PicoSteps, toPico' \in Seq(Request), UNCHANGED <<pending, control>>
    PROVE  PicoTypes' /\ LinkTypes' /\ ControlTypes'
<1>1. runs \in Nat /\ runs' \in Nat /\ runs =< runs' /\ PicoTypes'
  BY DEF PicoSteps, SessionInv, PicoTypes
<1>2. PICK frames \in Seq(Answer(runs')) : fromPico' = fromPico \o frames
  BY DEF PicoSteps
<1>3. fromPico \in Seq(Answer(runs')) /\ pending \in Seq(Answer(runs'))
  BY <1>1, AnswersStay DEF SessionInv, LinkTypes
<1>4. LinkTypes'
  BY <1>2, <1>3, AnswersJoin DEF LinkTypes
<1>5. ControlTypes'
  BY <1>1 DEF SessionInv, ControlTypes, control
<1> QED
  BY <1>1, <1>4, <1>5

LEMMA CommandKeeps ==
    ASSUME SessionInv, HandleCommand
    PROVE  SessionInv'
<1> DEFINE command == Head(toPico)
<1>1. /\ toPico \in Seq(Request) /\ toPico # <<>> /\ command \in Request
      /\ toPico' = Tail(toPico) /\ Tail(toPico) \in Seq(Request)
  BY HeadTailProperties DEF SessionInv, LinkTypes, HandleCommand
<1>2. PicoTypes /\ LinkTypes /\ UNCHANGED <<pending, control, counts>>
  BY DEF SessionInv, HandleCommand
<1>3. PicoSteps /\ (command = SetMode("PASS") => mode' = "PASS")
  <2>1. \/ command.type = "MODE_SET" /\ command.target \in {"ARMED", "PASS"} /\ ModeSet(command.target)
        \/ command.type = "PLAY_START" /\ PlayStart
        \/ command.type = "PLAY_ABORT" /\ PlayAbort
        \/ command.type \notin {"MODE_SET", "PLAY_START", "PLAY_ABORT"} /\ Queue(command.type)
    BY <1>1 DEF HandleCommand, Request
  <2> HIDE DEF command
  <2> QED
    BY <1>2, <2>1, ModeSetSteps, PlayStartSteps, PlayAbortSteps, QueueSteps DEF SetMode
<1>4. PicoTypes' /\ LinkTypes' /\ ControlTypes'
  BY <1>1, <1>2, <1>3, PicoMoves
<1>5. (Leaving => PassComes)'
  <2> SUFFICES ASSUME Leaving, "command" \notin trouble PROVE PassComes'
    BY <1>2 DEF Leaving, PassComes, control, counts
  <2>1. toPico[Len(toPico)] = SetMode("PASS")
    BY <1>1 DEF SessionInv, PassComes
  <2>2. CASE Len(toPico) = 1
    <3>1. command = SetMode("PASS") /\ Tail(toPico) = <<>>
      <4> DEFINE S == Request
      <4>1. toPico \in Seq(S) /\ toPico # <<>>
        BY <1>1
      <4> HIDE DEF S
      <4>2. Tail(toPico) \in Seq(S) /\ Len(Tail(toPico)) = 0
        BY <2>2, <4>1, HeadTailProperties
      <4>3. Tail(toPico) = <<>>
        BY <4>2, EmptySeq
      <4>4. Head(toPico) = toPico[1]
        BY <4>1
      <4> QED
        BY <2>1, <2>2, <4>3, <4>4
    <3> QED
      BY <1>1, <1>3, <3>1 DEF PassComes
  <2>3. CASE Len(toPico) # 1
    <3>1. Tail(toPico) # <<>> /\ Tail(toPico)[Len(Tail(toPico))] = toPico[Len(toPico)]
      BY <1>1, <2>3, LastStays, Zenon
    <3> QED
      BY <1>1, <2>1, <3>1 DEF PassComes
  <2> QED
    BY <2>2, <2>3
<1> QED
  BY <1>4, <1>5 DEF SessionInv

LEMMA RunEndKeeps ==
    ASSUME SessionInv, RunEnds
    PROVE  SessionInv'
<1>1. PicoTypes /\ LinkTypes /\ UNCHANGED <<toPico, pending, control, counts>> /\ mode = "PLAYING"
  BY DEF SessionInv, RunEnds
<1>2. PicoTypes' /\ LinkTypes' /\ ControlTypes'
  BY <1>1, RunEndSteps, PicoMoves DEF LinkTypes
<1>3. (Leaving => PassComes)'
  BY <1>1 DEF SessionInv, Leaving, PassComes, control, counts
<1> QED
  BY <1>2, <1>3 DEF SessionInv

LEMMA LinkFaultKeeps ==
    ASSUME SessionInv, LinkFault
    PROVE  SessionInv'
<1>1. PicoTypes /\ LinkTypes /\ UNCHANGED <<pending, control>> /\ Fault("UART_FAULT")
  BY DEF SessionInv, LinkFault
<1>2. PicoSteps /\ (mode = "PASS" => mode' = "PASS")
  BY <1>1, FaultSteps DEF Reasons
<1>3. toPico' \in Seq(Request)
  BY HeadTailProperties DEF LinkFault, LinkTypes, SessionInv
<1>4. PicoTypes' /\ LinkTypes' /\ ControlTypes'
  BY <1>1, <1>2, <1>3, PicoMoves
<1>5. "command" \in trouble' \/ (toPico' = toPico /\ trouble \subseteq trouble')
  BY DEF LinkFault, Meet
<1>6. (Leaving => PassComes)'
  BY <1>1, <1>2, <1>5 DEF SessionInv, Leaving, PassComes, control
<1> QED
  BY <1>4, <1>6 DEF SessionInv

-----------------------------------------------------------------------------
(* The session. *)

LEMMA WithoutAnswers ==
    ASSUME LinkTypes, NEW i \in DOMAIN pending
    PROVE  Without(i) \in Seq(Answer(runs)) /\ pending[i] \in Answer(runs)
<1> DEFINE S == Answer(runs)
<1>1. pending \in Seq(S)
  BY DEF LinkTypes
<1> HIDE DEF S
<1>2. i \in 1..Len(pending) /\ Len(pending) \in Nat
  BY <1>1
<1>3. SubSeq(pending, 1, i - 1) \in Seq(S) /\ SubSeq(pending, i + 1, Len(pending)) \in Seq(S)
      /\ pending[i] \in S
  BY <1>1, <1>2
<1>4. SubSeq(pending, 1, i - 1) \o SubSeq(pending, i + 1, Len(pending)) \in Seq(S)
  BY <1>3, ConcatProperties
<1> QED
  BY <1>3, <1>4 DEF Without, S

LEMMA ChunkAnswers ==
    ASSUME LinkTypes, NEW n \in 1..Len(fromPico)
    PROVE  /\ pending \o SubSeq(fromPico, 1, n) \in Seq(Answer(runs))
           /\ SubSeq(fromPico, n + 1, Len(fromPico)) \in Seq(Answer(runs))
<1> DEFINE S == Answer(runs)
<1>1. pending \in Seq(S) /\ fromPico \in Seq(S)
  BY DEF LinkTypes
<1> HIDE DEF S
<1>2. SubSeq(fromPico, 1, n) \in Seq(S) /\ SubSeq(fromPico, n + 1, Len(fromPico)) \in Seq(S)
  BY <1>1
<1>3. pending \o SubSeq(fromPico, 1, n) \in Seq(S)
  BY <1>1, <1>2, ConcatProperties
<1> QED
  BY <1>2, <1>3 DEF S

\* After its request is written, or with nothing more to write, the session
\* still leaves in PASS.
LEMMA RequestLeaves ==
    ASSUME SessionInv, NEW next,
           toPico' = toPico \o Requests(next), UNCHANGED mode, trouble \subseteq trouble',
           \/ next \in {"pass", "cleanup"}
           \/ next = "idle" /\ Leaving
    PROVE  PassComes'
<1> DEFINE S == Request
<1>1. toPico \in Seq(S)
  BY DEF SessionInv, LinkTypes
<1>2. SetMode("PASS") \in S
  BY DEF SetMode, Request
<1> HIDE DEF S
<1>3. CASE next \in {"pass", "cleanup"}
  <2> DEFINE x == SetMode("PASS")
  <2>1. toPico' = toPico \o <<x>>
    BY <1>3 DEF Requests
  <2>2. x \in S
    BY <1>2
  <2> HIDE DEF x
  <2>3. toPico' = Append(toPico, x)
    BY <1>1, <2>1, <2>2
  <2>4. toPico' # <<>> /\ toPico'[Len(toPico')] = x
    BY <1>1, <2>2, <2>3
  <2> QED
    BY <2>4 DEF PassComes, x
<1>4. CASE next = "idle" /\ Leaving
  <2>1. toPico' = toPico
    BY <1>1, <1>4 DEF Requests
  <2> QED
    BY <1>4, <2>1 DEF SessionInv, PassComes
<1> QED
  BY <1>3, <1>4

LEMMA RequestsGoOut ==
    ASSUME LinkTypes, NEW next, toPico' = toPico \o Requests(next)
    PROVE  toPico' \in Seq(Request)
<1> DEFINE S == Request
<1>1. toPico \in Seq(S) /\ Requests(next) \in Seq(S)
  BY RequestsAre DEF LinkTypes
<1> HIDE DEF S
<1>2. toPico \o Requests(next) \in Seq(S)
  BY <1>1, ConcatProperties
<1> QED
  BY <1>2 DEF S

LEMMA FailKeeps ==
    ASSUME SessionInv, Waiting, NEW rest \in Seq(Answer(runs)), Fail(rest),
           fromPico' \in Seq(Answer(runs)), UNCHANGED <<mode, runs>>, trouble \subseteq trouble'
    PROVE  SessionInv'
<1>1. /\ stage' = Cleanup(stage) /\ attempt' = 0 /\ cancel' = FALSE
      /\ toPico' = toPico \o Requests(Cleanup(stage)) /\ pending' = Leftover(stage, rest)
      /\ failure' = IF failure = "none" THEN stage ELSE failure
      /\ UNCHANGED <<long, heard>>
  BY DEF Fail, Proceed
<1>2. PicoTypes'
  BY DEF SessionInv, PicoTypes
<1>3. LinkTypes'
  <2>1. pending' \in Seq(Answer(runs))
    <3>1. <<>> \in Seq(Answer(runs))
      OBVIOUS
    <3> QED
      BY <1>1, <3>1 DEF Leftover
  <2> QED
    BY <1>1, <2>1, RequestsGoOut DEF SessionInv, LinkTypes
<1>4. ControlTypes'
  <2>1. Cleanup(stage) \in {"abort", "idle", "cleanup"}
    BY DEF Cleanup
  <2>2. 0 \in 0..Retries
    BY SessionAssumption
  <2> QED
    BY <1>1, <2>1, <2>2, StageNames DEF SessionInv, ControlTypes, Stages
<1>5. ASSUME Leaving' PROVE PassComes'
  <2>1. CASE Cleanup(stage) = "cleanup"
    BY <1>1, <2>1, RequestLeaves
  <2>2. CASE Cleanup(stage) = "idle"
    <3>1. stage \in {"arm", "cleanup"}
      BY <2>2 DEF Cleanup, Streaming
    <3>2. stage = "arm" => failure' = "arm"
      BY <1>1 DEF SessionInv, ControlTypes
    <3>3. Leaving
      BY <1>1, <1>5, <2>2, <3>1, <3>2 DEF Leaving
    <3> QED
      BY <1>1, <2>2, <3>3, RequestLeaves
  <2>3. CASE Cleanup(stage) = "abort"
    BY <1>1, <1>5, <2>3 DEF Leaving
  <2> QED
    BY <2>1, <2>2, <2>3 DEF Cleanup
<1> QED
  BY <1>2, <1>3, <1>4, <1>5 DEF SessionInv

LEMMA AnsweredKeeps ==
    ASSUME SessionInv, Answered
    PROVE  SessionInv'
<1> DEFINE i == First(Answering)
           rest == Without(i)
           spoilt == Collects /\ \E j \in DOMAIN rest : IsError(rest[j])
<1>1. Waiting /\ UNCHANGED <<mode, closed, runs, fromPico, stops, trouble, late>>
  BY DEF Answered, pico, counts
<1>2. i \in DOMAIN pending
  <2>1. \E k \in Answering : \A j \in Answering : k =< j
    <3>1. Answering # {} /\ Answering \subseteq Nat
      BY DEF Answered, Answering, SessionInv, LinkTypes
    <3> QED
      BY <3>1, LeastElement
  <2>2. i \in Answering
    BY <2>1 DEF First
  <2> QED
    BY <2>2 DEF Answering
<1>3. rest \in Seq(Answer(runs)) /\ pending[i] \in Answer(runs)
  BY <1>2, WithoutAnswers DEF SessionInv
<1>4. <<>> \in Seq(Answer(runs))
  OBVIOUS
<1> HIDE DEF i, rest
<1>5. CASE Fail(IF spoilt THEN <<>> ELSE rest)
  <2> DEFINE kept == IF spoilt THEN <<>> ELSE rest
  <2>1. kept \in Seq(Answer(runs)) /\ Fail(kept)
    BY <1>3, <1>4, <1>5
  <2> HIDE DEF kept
  <2> QED
    BY <1>1, <2>1, FailKeeps DEF SessionInv, LinkTypes
<1>6. CASE /\ Proceed(Following[stage])
           /\ pending' = (IF Collects THEN <<>> ELSE rest)
           /\ heard' = heard \cup RunOf(pending[i])
           /\ cancel' = (cancel /\ Following[stage] # "idle")
           /\ UNCHANGED <<long, raised, failure, before, sessions>>
  <2> DEFINE next == Following[stage]
  <2>1. /\ stage' = next /\ attempt' = 0 /\ toPico' = toPico \o Requests(next)
        /\ pending' \in Seq(Answer(runs)) /\ runs \in Nat /\ long \in BOOLEAN
    BY <1>3, <1>4, <1>6 DEF Proceed, SessionInv, PicoTypes, ControlTypes
  <2>2. LinkTypes'
    BY <1>1, <2>1, RequestsGoOut DEF SessionInv, LinkTypes
  <2>3. /\ next \in Stages /\ next # "arm"
        /\ stage \in Streaming \cup {"pass"} => next \in Streaming \cup {"pass", "idle"}
        /\ next = "idle" => stage \in {"pass", "cleanup"}
    BY <1>1, <2>1, StageNames DEF Following, Waiting, Streaming, Stages
  <2>4. ControlTypes'
    <3>1. heard' \subseteq 1..runs
      BY <1>3, <1>6, <2>1, RunOfAnswer DEF SessionInv, ControlTypes
    <3>2. 0 \in 0..Retries
      BY SessionAssumption
    <3>3. cancel' => next \in Streaming \cup {"pass"}
      BY <1>6, <2>3 DEF SessionInv, ControlTypes
    <3> QED
      BY <1>1, <1>6, <2>1, <2>3, <3>1, <3>2, <3>3 DEF ControlTypes
  <2>5. ASSUME Leaving' PROVE PassComes'
    <3>1. next \in {"pass", "cleanup"} \/ (next = "idle" /\ Leaving)
      BY <2>1, <2>3, <2>5 DEF Leaving
    <3> HIDE DEF next
    <3> QED
      BY <1>1, <2>1, <3>1, RequestLeaves
  <2> QED
    BY <1>1, <2>2, <2>4, <2>5 DEF SessionInv, PicoTypes
<1> QED
  BY <1>5, <1>6 DEF Answered, i, rest

LEMMA GivesUpKeeps ==
    ASSUME SessionInv, GivesUp
    PROVE  SessionInv'
<1>1. Waiting /\ UNCHANGED <<mode, closed, runs, fromPico, stops, trouble>>
  BY DEF GivesUp, pico
<1>2. CASE Fail(pending)
  BY <1>1, <1>2, FailKeeps DEF SessionInv, LinkTypes
<1>3. CASE /\ CanRetry /\ attempt' = attempt + 1
           /\ toPico' = toPico \o Requests(stage)
           /\ UNCHANGED <<pending, stage, long, cancel, heard, failure>>
  <2>1. LinkTypes'
    BY <1>1, <1>3, RequestsGoOut DEF SessionInv, LinkTypes
  <2>2. attempt' \in 0..Retries
    BY <1>3, SessionAssumption DEF CanRetry, SessionInv, ControlTypes
  <2>3. ControlTypes'
    BY <1>1, <1>3, <2>2 DEF SessionInv, ControlTypes
  <2>4. ASSUME Leaving' PROVE PassComes'
    <3>1. stage \in {"pass", "cleanup"}
      BY <1>3, <2>4 DEF Leaving, CanRetry, Exchanges
    <3> QED
      BY <1>1, <1>3, <3>1, RequestLeaves
  <2> QED
    BY <1>1, <2>1, <2>3, <2>4 DEF SessionInv, PicoTypes
<1> QED
  BY <1>2, <1>3 DEF GivesUp

LEMMA ReadKeeps ==
    ASSUME SessionInv, ReadChunk
    PROVE  SessionInv'
<1>1. UNCHANGED <<pico, toPico, control, counts>>
      /\ fromPico' \in Seq(Answer(runs)) /\ pending' \in Seq(Answer(runs))
  BY ChunkAnswers DEF ReadChunk, SessionInv
<1> QED
  BY <1>1 DEF SessionInv, PicoTypes, LinkTypes, ControlTypes, Leaving, PassComes, pico, control, counts

LEMMA DamagedReadKeeps ==
    ASSUME SessionInv, DamagedRead
    PROVE  SessionInv'
<1>1. /\ Waiting /\ Fail(pending) /\ UNCHANGED <<mode, runs>> /\ trouble \subseteq trouble'
      /\ fromPico' \in Seq(Answer(runs)) /\ pending \in Seq(Answer(runs))
  BY ChunkAnswers DEF DamagedRead, Meet, SessionInv, LinkTypes, pico
<1> QED
  BY <1>1, FailKeeps

LEMMA BeginKeeps ==
    ASSUME SessionInv, StartSession \/ SafeStop
    PROVE  SessionInv'
<1>1. PICK next \in {"arm", "cleanup"} : Begin(next)
  BY DEF StartSession, SafeStop
<1>2. /\ stage = "idle" /\ stage' = next /\ attempt' = 0 /\ toPico' = toPico \o Requests(next)
      /\ UNCHANGED <<mode, runs, fromPico, pending, cancel, trouble>>
      /\ heard' = {} /\ failure' = "none"
  BY <1>1 DEF Begin, Proceed, pico, counts
<1>3. LinkTypes'
  BY <1>2, RequestsGoOut DEF SessionInv, LinkTypes
<1>4. ControlTypes'
  <2>1. 0 \in 0..Retries
    BY SessionAssumption
  <2>2. long' \in BOOLEAN
    BY DEF StartSession, SafeStop, SessionInv, ControlTypes
  <2>3. ~cancel
    BY <1>2 DEF SessionInv, ControlTypes, Streaming
  <2> QED
    BY <1>2, <2>1, <2>2, <2>3, StageNames DEF ControlTypes, Stages
<1>5. ASSUME Leaving' PROVE PassComes'
  <2>1. next = "cleanup"
    BY <1>2, <1>5 DEF Leaving
  <2> QED
    BY <1>2, <2>1, RequestLeaves
<1> QED
  BY <1>2, <1>3, <1>4, <1>5 DEF SessionInv, PicoTypes

LEMMA StopKeeps ==
    ASSUME SessionInv, StopRequested
    PROVE  SessionInv'
  BY DEF StopRequested, SessionInv, PicoTypes, LinkTypes, ControlTypes, Leaving, PassComes, pico, link

LEMMA SessionStep ==
    ASSUME SessionInv, [SessionNext]_sessionVars
    PROVE  SessionInv'
<1>1. CASE UNCHANGED sessionVars
  BY <1>1 DEF SessionInv, PicoTypes, LinkTypes, ControlTypes, Leaving, PassComes,
              sessionVars, pico, link, control, counts
<1>2. CASE TimesOut \/ TimesOutEarly \/ Cancelled
  BY <1>2, GivesUpKeeps DEF TimesOut, TimesOutEarly, Cancelled
<1> QED
  BY <1>1, <1>2, CommandKeeps, RunEndKeeps, LinkFaultKeeps, ReadKeeps, AnsweredKeeps,
     DamagedReadKeeps, StopKeeps, BeginKeeps
  DEF SessionNext

LEMMA SessionInitially ==
    ASSUME SessionInit
    PROVE  SessionInv
<1>1. <<>> \in Seq(Request) /\ \A n \in Nat : <<>> \in Seq(Answer(n))
  OBVIOUS
<1>2. 0 \in 0..Retries
  BY SessionAssumption
<1>3. PicoTypes /\ LinkTypes
  BY <1>1 DEF SessionInit, PicoTypes, LinkTypes, Modes
<1>4. ControlTypes
  BY <1>2 DEF SessionInit, ControlTypes, Stages
<1> QED
  BY <1>3, <1>4 DEF SessionInit, SessionInv, PassComes

\* In every reachable state the frames on the wire and in _pending are ones the
\* two sides send, the session is in a wait of start(), finish() or abort(), and
\* once it leaves, MODE_SET(PASS) is the last it asked.
THEOREM SessionInvariance == SessionSpec => []SessionInv
<1> QED
  BY SessionInitially, SessionStep, PTL DEF SessionSpec

\* Wherever start(), finish() or abort() fails or is stopped, the session leaves
\* the Pico in PASS once its requests have arrived.
THEOREM SessionIsLeftAlways == SessionSpec => []SessionIsLeft
<1>1. SessionInv => SessionIsLeft
  <2> SUFFICES ASSUME SessionInv PROVE SessionIsLeft
    OBVIOUS
  <2>1. SessionTypeOK
    BY DEF SessionInv, ControlTypes, SessionTypeOK, Stages
  <2>2. SessionLeavesPass
    BY DEF SessionInv, Leaving, PassComes, SessionLeavesPass
  <2> QED
    BY <2>1, <2>2 DEF SessionIsLeft
<1> QED
  BY <1>1, SessionInvariance, PTL

-----------------------------------------------------------------------------
(* A session that no trouble disturbs, stopped or not: at each wait, what   *)
(* the Pico was asked, and what it has said that the session has not used.  *)

Way == pending \o fromPico

\* The sequence w is these frames and no others.
Is0(w) == Len(w) = 0
Is1(w, a) == Len(w) = 1 /\ w[1] = a
Is2(w, a, b) == Len(w) = 2 /\ w[1] = a /\ w[2] = b
Is3(w, a, b, c) == Len(w) = 3 /\ w[1] = a /\ w[2] = b /\ w[3] = c
Is4(w, a, b, c, d) == Len(w) = 4 /\ w[1] = a /\ w[2] = b /\ w[3] = c /\ w[4] = d
Is5(w, a, b, c, d, e) ==
    Len(w) = 5 /\ w[1] = a /\ w[2] = b /\ w[3] = c /\ w[4] = d /\ w[5] = e

\* The Pico is here, and has the request to handle or has said it all.
Asked(state, over, request) ==
    mode = state /\ closed = over /\ Is1(toPico, request) /\ Is0(Way)

Resting(state, over) == mode = state /\ closed = over /\ Is0(toPico)

Room(state) == BufferStatus(state, 1)
Started == Plain("PLAY_STARTED")
Playing == ModeChanged("PLAYING", "OK")
Finished == OfRun("PLAY_FINISHED")
Metrics == OfRun("PLAY_METRICS")
Over == ModeChanged("ARMED", "FINISHED")
Passed == ModeChanged("PASS", "OK")
Ready == Plain("PLAY_READY")
Abort == Plain("PLAY_ABORT")
Cut == OfRun("PLAY_ABORTED")
Gone == ModeChanged("ARMED", "ABORTED")

Opening ==
    /\ stage = "idle" => Resting("PASS", FALSE) /\ Is0(Way)
    /\ stage = "arm" =>
          \/ Asked("PASS", FALSE, SetMode("ARMED"))
          \/ Resting("ARMED", FALSE) /\ Is1(Way, ModeChanged("ARMED", "OK"))
    /\ stage = "clear" =>
          \/ Asked("ARMED", FALSE, Plain("QUEUE_CLEAR"))
          \/ Resting("ARMED", FALSE) /\ Is1(Way, Room("ARMED"))
    /\ stage = "feed" =>
          \/ Asked("ARMED", FALSE, Plain("QUEUE_EVENT"))
          \/ Resting("ARMED", FALSE) /\ Is1(Way, Room("ARMED"))
    /\ stage = "ready" =>
          /\ ~long
          /\ \/ Asked("ARMED", FALSE, Plain("QUEUE_END"))
             \/ Resting("ARMED", TRUE) /\ Is2(Way, Ready, Room("ARMED"))
    /\ stage = "closing" => ~long /\ Resting("ARMED", TRUE) /\ Is1(Way, Room("ARMED"))

\* A recording that fits the prebuffer may be over before its start is read.
Running ==
    /\ stage = "start" =>
          \/ Asked("ARMED", ~long, Plain("PLAY_START"))
          \/ Resting("PLAYING", ~long) /\ Is2(Way, Playing, Started)
          \/ ~long /\ Resting("ARMED", FALSE) /\ Is5(Way, Playing, Started, Finished, Metrics, Over)
    /\ stage = "started" =>
          \/ Resting("PLAYING", ~long) /\ Is1(Way, Started)
          \/ ~long /\ Resting("ARMED", FALSE) /\ Is4(Way, Started, Finished, Metrics, Over)
    /\ stage = "stream" =>
          /\ long
          /\ \/ Asked("PLAYING", FALSE, Plain("QUEUE_EVENT"))
             \/ Resting("PLAYING", FALSE) /\ Is1(Way, Room("PLAYING"))
    /\ stage = "outcome" /\ ~long =>
          \/ Resting("PLAYING", TRUE) /\ Is0(Way)
          \/ Resting("ARMED", FALSE) /\ Is3(Way, Finished, Metrics, Over)
    /\ stage = "outcome" /\ long =>
          \/ Asked("PLAYING", FALSE, Plain("QUEUE_END"))
          \/ Resting("PLAYING", TRUE) /\ Is1(Way, Room("PLAYING"))
          \/ Resting("ARMED", FALSE) /\ Is4(Way, Room("PLAYING"), Finished, Metrics, Over)

Ending ==
    /\ stage = "metrics" =>
          /\ Resting("ARMED", FALSE)
          /\ ~long => Is2(Way, Metrics, Over)
          /\ long => Is3(Way, Room("PLAYING"), Metrics, Over)
    /\ stage = "ended" =>
          /\ Resting("ARMED", FALSE)
          /\ ~long => Is1(Way, Over)
          /\ long => Is2(Way, Room("PLAYING"), Over)
    /\ stage = "pass" =>
          \/ Asked("ARMED", FALSE, SetMode("PASS"))
          \/ Resting("PASS", FALSE) /\ Is1(Way, Passed)
    /\ stage = "cleanup" =>
          \/ Asked("PASS", FALSE, SetMode("PASS"))
          \/ Asked("ARMED", FALSE, SetMode("PASS"))
          \/ Resting("PASS", FALSE) /\ Is1(Way, Passed)

\* PLAY_ABORT will find the run, after what was asked before it, if that does
\* not end it first.
Cutting ==
    /\ mode = "PLAYING"
    /\ \/ /\ ~closed /\ Is0(Way)
          /\ \E type \in {"QUEUE_EVENT", "QUEUE_END"} : Is2(toPico, Plain(type), Abort)
       \/ Is1(toPico, Abort) /\ (Is0(Way) \/ Is1(Way, Room("PLAYING")))

\* The run was over: no frame on the way ends the wait of the abort.
Missed ==
    /\ mode = "ARMED" /\ ~closed
    /\ Is0(toPico) \/ Is1(toPico, Abort)
    /\ \A i \in 1..Len(Way) : Way[i].type # "PLAY_ABORTED" /\ ~IsError(Way[i])

Stopping ==
    /\ stage = "abort" =>
          \/ Cutting
          \/ Missed
          \/ /\ Resting("ARMED", FALSE)
             /\ Is3(Way, Cut, Metrics, Gone) \/ Is4(Way, Room("PLAYING"), Cut, Metrics, Gone)
    /\ stage = "partial" =>
          /\ Resting("ARMED", FALSE)
          /\ Is2(Way, Metrics, Gone) \/ Is3(Way, Room("PLAYING"), Metrics, Gone)
    /\ stage = "aborted" =>
          /\ Resting("ARMED", FALSE)
          /\ Is1(Way, Gone) \/ Is2(Way, Room("PLAYING"), Gone)

\* Only a stop request makes a session leave the way of start() and finish().
Steady ==
    /\ closed \in BOOLEAN
    /\ stops = 0 => failure = "none" /\ ~cancel /\ stage \notin Aborting

OnTrack == Steady /\ Opening /\ Running /\ Ending /\ Stopping

\* The session's own run has begun wherever it reads of a run.
OwnRun ==
    /\ before \in Nat /\ before =< runs
    /\ \A run \in heard : before < run
    /\ \/ stage \in {"started"} \cup Streaming \cup Aborting
       \/ stage = "start" /\ Is0(toPico)
       => before < runs

Calm == Quiet /\ "pass" \notin cancelled

CalmInv ==
    /\ stops \in Nat /\ late \in Nat
    /\ Calm => OnTrack /\ OwnRun
    /\ Quiet /\ stops = 0 => Calm

-----------------------------------------------------------------------------
(* The frames on the way, when one is added or taken. *)

LEMMA WayTypes ==
    ASSUME LinkTypes
    PROVE  /\ Way \in Seq(Answer(runs)) /\ Len(Way) \in Nat
           /\ Len(pending) \in Nat /\ Len(pending) =< Len(Way)
           /\ \A i \in 1..Len(pending) : Way[i] = pending[i]
<1> DEFINE S == Answer(runs)
<1>1. pending \in Seq(S) /\ fromPico \in Seq(S)
  BY DEF LinkTypes
<1> HIDE DEF S
<1>2. Way \in Seq(S) /\ Halves(Way, pending, fromPico)
  BY <1>1, ConcatProperties, ConcatHalves DEF Way
<1>3. Len(Way) \in Nat /\ Len(pending) \in Nat /\ Len(fromPico) \in Nat
  BY <1>1, <1>2, LenProperties
<1> QED
  BY <1>2, <1>3 DEF Halves, S

LEMMA MoreSaid ==
    ASSUME NEW S, pending \in Seq(S), fromPico \in Seq(S), NEW frames \in Seq(S),
           fromPico' = fromPico \o frames, pending' = pending
    PROVE  Halves(Way', Way, frames)
<1>1. Way' = (pending \o fromPico) \o frames
  BY DEF Way
<1>2. Way \in Seq(S) /\ Way' = Way \o frames
  BY <1>1 DEF Way
<1> QED
  BY <1>2, ConcatHalves

LEMMA ChunkMoves ==
    ASSUME NEW S, pending \in Seq(S), fromPico \in Seq(S), NEW n \in 1..Len(fromPico),
           pending' = pending \o SubSeq(fromPico, 1, n),
           fromPico' = SubSeq(fromPico, n + 1, Len(fromPico))
    PROVE  Way' = Way
<1>1. Way' = Through(pending, SubSeq(fromPico, 1, n), SubSeq(fromPico, n + 1, Len(fromPico)))
  BY DEF Way, Through
<1>2. pending \o <<>> = pending
  BY ConcatEmptySeq
<1> QED
  BY <1>1, <1>2, ThroughRead DEF Way, Through

LEMMA OneTaken ==
    ASSUME NEW v, NEW w, Removed(v, w, 1), Len(v) \in Nat
    PROVE  \A a, b, c, d, e :
              /\ Is1(w, a) => Is0(v)
              /\ Is2(w, a, b) => Is1(v, b)
              /\ Is3(w, a, b, c) => Is2(v, b, c)
              /\ Is4(w, a, b, c, d) => Is3(v, b, c, d)
              /\ Is5(w, a, b, c, d, e) => Is4(v, b, c, d, e)
  BY DEF Removed, Is0, Is1, Is2, Is3, Is4, Is5

LEMMA SecondTaken ==
    ASSUME NEW v, NEW w, Removed(v, w, 2), Len(v) \in Nat
    PROVE  \A a, b, c, d :
              /\ Is3(w, a, b, c) => Is2(v, a, c)
              /\ Is4(w, a, b, c, d) => Is3(v, a, c, d)
  BY DEF Removed, Is2, Is3, Is4

LEMMA SomeAdded ==
    ASSUME NEW w, NEW v, NEW f, Halves(v, w, f)
    PROVE  \A a, b, c, d, e :
              /\ Is0(w) /\ Is1(f, a) => Is1(v, a)
              /\ Is0(w) /\ Is2(f, a, b) => Is2(v, a, b)
              /\ Is0(w) /\ Is3(f, a, b, c) => Is3(v, a, b, c)
              /\ Is1(w, a) /\ Is3(f, b, c, d) => Is4(v, a, b, c, d)
              /\ Is2(w, a, b) /\ Is3(f, c, d, e) => Is5(v, a, b, c, d, e)
<1> TAKE a, b, c, d, e
<1>1. /\ Len(f) >= 1 /\ Len(f) \in Nat => v[Len(w) + 1] = f[1]
      /\ Len(f) >= 2 /\ Len(f) \in Nat => v[Len(w) + 2] = f[2]
      /\ Len(f) >= 3 /\ Len(f) \in Nat => v[Len(w) + 3] = f[3]
  BY DEF Halves
<1>2. /\ Len(w) >= 1 /\ Len(w) \in Nat => v[1] = w[1]
      /\ Len(w) >= 2 /\ Len(w) \in Nat => v[2] = w[2]
  BY DEF Halves
<1>3. Len(v) = Len(w) + Len(f)
  BY DEF Halves
<1>4. Is0(w) /\ Is1(f, a) => Is1(v, a)
  BY <1>1, <1>3 DEF Is0, Is1
<1>5. Is0(w) /\ Is2(f, a, b) => Is2(v, a, b)
  BY <1>1, <1>3 DEF Is0, Is2
<1>6. Is0(w) /\ Is3(f, a, b, c) => Is3(v, a, b, c)
  BY <1>1, <1>3 DEF Is0, Is3
<1>7. Is1(w, a) /\ Is3(f, b, c, d) => Is4(v, a, b, c, d)
  BY <1>1, <1>2, <1>3 DEF Is1, Is3, Is4
<1>8. Is2(w, a, b) /\ Is3(f, c, d, e) => Is5(v, a, b, c, d, e)
  BY <1>1, <1>2, <1>3 DEF Is2, Is3, Is5
<1> QED
  BY <1>4, <1>5, <1>6, <1>7, <1>8

-----------------------------------------------------------------------------
(* What a request makes the Pico say. *)

LEMMA SaysOne ==
    ASSUME LinkTypes, PicoTypes, Is0(Way), UNCHANGED pending, NEW a \in Answer(runs'), runs' \in Nat,
           runs =< runs', fromPico' = fromPico \o <<a>>
    PROVE  Is1(Way', a)
<1> DEFINE S == Answer(runs')
<1>1. pending \in Seq(S) /\ fromPico \in Seq(S)
  BY AnswersStay DEF LinkTypes, PicoTypes
<1>2. a \in S
  OBVIOUS
<1> HIDE DEF S
<1>3. <<a>> \in Seq(S) /\ Is1(<<a>>, a)
  BY <1>2 DEF Is1
<1>4. Halves(Way', Way, <<a>>)
  BY <1>1, <1>3, MoreSaid
<1> QED
  BY <1>3, <1>4, SomeAdded

LEMMA SaysTwo ==
    ASSUME LinkTypes, PicoTypes, Is0(Way), UNCHANGED pending, NEW f \in Seq(Answer(runs')),
           NEW a, NEW b, Is2(f, a, b), runs' \in Nat, runs =< runs', fromPico' = fromPico \o f
    PROVE  Is2(Way', a, b)
<1>1. pending \in Seq(Answer(runs')) /\ fromPico \in Seq(Answer(runs'))
  BY AnswersStay DEF LinkTypes, PicoTypes
<1>2. Halves(Way', Way, f)
  BY <1>1, MoreSaid
<1> QED
  BY <1>2, SomeAdded

\* The sequence t is s with one more item, x.
Longer(t, s, x) ==
    Len(t) = Len(s) + 1 /\ t[Len(s) + 1] = x /\ \A i \in 1..Len(s) : t[i] = s[i]

LEMMA AppendIsLonger ==
    ASSUME NEW S, NEW s \in Seq(S), NEW x \in S
    PROVE  Longer(Append(s, x), s, x)
  BY DEF Longer

LEMMA TwoInOrder ==
    ASSUME NEW a, NEW b
    PROVE  Is2(<<a, b>>, a, b) /\ Is2(Append(<<a>>, b), a, b)
<1>1. <<a, b>>[1] = a /\ <<a, b>>[2] = b /\ Len(<<a, b>>) = 2
  OBVIOUS
<1> DEFINE S == {a, b}
           s == <<a>>
<1>2. s \in Seq(S) /\ Len(s) = 1 /\ s[1] = a /\ b \in S
  OBVIOUS
<1> HIDE DEF s, S
<1>3. Longer(Append(s, b), s, b)
  BY <1>2, AppendIsLonger
<1>4. Is2(Append(s, b), a, b)
  BY <1>2, <1>3 DEF Longer, Is2
<1> QED
  BY <1>1, <1>4 DEF Is2, s

LEMMA ThreeInOrder ==
    ASSUME NEW a, NEW b, NEW c
    PROVE  Is3(Append(<<a, b>>, c), a, b, c)
<1> DEFINE S == {a, b, c}
           s == <<a, b>>
<1>1. s \in Seq(S) /\ Len(s) = 2 /\ s[1] = a /\ s[2] = b /\ c \in S
  OBVIOUS
<1> HIDE DEF s, S
<1>2. Longer(Append(s, c), s, c)
  BY <1>1, AppendIsLonger
<1>3. Is3(Append(s, c), a, b, c)
  BY <1>1, <1>2 DEF Longer, Is3
<1> QED
  BY <1>3 DEF s

LEMMA RequestTaken ==
    ASSUME SessionInv, HandleCommand, NEW state, NEW over, NEW request, Asked(state, over, request)
    PROVE  /\ Head(toPico) = request /\ Is0(toPico') /\ UNCHANGED <<pending, control, counts>>
           /\ mode = state /\ closed = over /\ Is0(Way)
<1> DEFINE S == Request
<1>1. toPico \in Seq(S) /\ toPico # <<>> /\ Len(toPico) = 1 /\ toPico[1] = request
  BY DEF SessionInv, LinkTypes, HandleCommand, Asked, Is1
<1> HIDE DEF S
<1>2. Head(toPico) = toPico[1] /\ Len(Tail(toPico)) = 0
  BY <1>1, HeadTailProperties
<1> QED
  BY <1>1, <1>2 DEF HandleCommand, Asked, Is0

LEMMA NothingAnd ==
    ASSUME NEW S, NEW s \in Seq(S), NEW t \in Seq(S)
    PROVE  (s \o <<>>) \o t = s \o t
  OBVIOUS

LEMMA ModeIsSet ==
    ASSUME SessionInv, HandleCommand, NEW state \in {"PASS", "ARMED"}, NEW target \in {"PASS", "ARMED"},
           state # target \/ target = "PASS", Asked(state, FALSE, SetMode(target))
    PROVE  /\ Resting(target, FALSE)' /\ Is1(Way', ModeChanged(target, "OK"))
           /\ UNCHANGED <<runs, control, counts>>
<1> DEFINE a == ModeChanged(target, "OK")
<1>1. /\ Head(toPico) = SetMode(target) /\ Is0(toPico') /\ UNCHANGED <<pending, control, counts>>
      /\ mode = state /\ closed = FALSE /\ Is0(Way)
  BY RequestTaken
<1>2. ModeSet(target)
  BY <1>1 DEF HandleCommand, SetMode
<1>3. PicoTypes /\ LinkTypes /\ a \in Answer(runs) /\ runs \in Nat
  BY FramesAre DEF SessionInv, PicoTypes, Modes, Reasons
<1>4. mode' = target /\ closed' = FALSE /\ runs' = runs /\ fromPico' = fromPico \o <<a>>
  <2>1. CASE state = target
    BY <1>1, <1>2, <2>1 DEF ModeSet, Answers
  <2>2. CASE state # target
    <3>1. Enter(target, "OK")
      BY <1>1, <1>2, <2>2 DEF ModeSet
    <3>2. fromPico' = (fromPico \o <<>>) \o <<a>>
      BY <1>1, <3>1 DEF Enter
    <3>3. fromPico' = fromPico \o <<a>>
      <4> DEFINE S == Answer(runs)
      <4>1. fromPico \in Seq(S) /\ a \in S
        BY <1>3 DEF LinkTypes
      <4> HIDE DEF S, a
      <4>2. <<a>> \in Seq(S)
        BY <4>1
      <4> QED
        BY <3>2, <4>1, <4>2, NothingAnd
    <3> QED
      BY <3>1, <3>3 DEF Enter
  <2> QED
    BY <2>1, <2>2
<1> HIDE DEF a
<1>5. Is1(Way', a)
  BY <1>1, <1>3, <1>4, SaysOne
<1> QED
  BY <1>1, <1>4, <1>5 DEF Resting, a

\* QUEUE_CLEAR, QUEUE_EVENT, and QUEUE_END while the run goes on.
LEMMA QueueSaid ==
    ASSUME SessionInv, HandleCommand, NEW state \in {"ARMED", "PLAYING"},
           NEW type \in QueueCommands, type = "QUEUE_CLEAR" => state = "ARMED",
           type = "QUEUE_END" => state = "PLAYING",
           Head(toPico) = Plain(type), mode = state, closed = FALSE, Is0(Way)
    PROVE  mode' = state /\ closed' = (type = "QUEUE_END") /\ Is1(Way', Room(state)) /\ UNCHANGED runs
<1>1. Queue(type) /\ UNCHANGED pending
  BY DEF HandleCommand, Plain, QueueCommands
<1>2. /\ closed' = (type = "QUEUE_END")
      /\ fromPico' = fromPico \o Append(<<>>, Room(state)) /\ UNCHANGED <<mode, runs>>
  BY <1>1 DEF Queue, QueueCommandAllowed, QueueCommands, Room
<1>3. Append(<<>>, Room(state)) = <<Room(state)>>
  OBVIOUS
<1>4. PicoTypes /\ LinkTypes /\ Room(state) \in Answer(runs) /\ runs \in Nat
  BY FramesAre DEF SessionInv, PicoTypes, Modes, Room
<1>5. Is1(Way', Room(state))
  BY <1>1, <1>2, <1>3, <1>4, SaysOne
<1> QED
  BY <1>2, <1>5

LEMMA QueueTold ==
    ASSUME SessionInv, HandleCommand, NEW state \in {"ARMED", "PLAYING"},
           NEW type \in QueueCommands, type = "QUEUE_CLEAR" => state = "ARMED",
           type = "QUEUE_END" => state = "PLAYING",
           Asked(state, FALSE, Plain(type))
    PROVE  /\ Resting(state, type = "QUEUE_END")' /\ Is1(Way', Room(state))
           /\ UNCHANGED <<runs, control, counts>>
<1>1. /\ Head(toPico) = Plain(type) /\ Is0(toPico') /\ UNCHANGED <<pending, control, counts>>
      /\ mode = state /\ closed = FALSE /\ Is0(Way)
  BY RequestTaken
<1>2. mode' = state /\ closed' = (type = "QUEUE_END") /\ Is1(Way', Room(state)) /\ UNCHANGED runs
  BY <1>1, QueueSaid
<1> QED
  BY <1>1, <1>2 DEF Resting

LEMMA QueueEndTold ==
    ASSUME SessionInv, HandleCommand, Asked("ARMED", FALSE, Plain("QUEUE_END"))
    PROVE  /\ Resting("ARMED", TRUE)' /\ Is2(Way', Ready, Room("ARMED"))
           /\ UNCHANGED <<runs, control, counts>>
<1>1. /\ Head(toPico) = Plain("QUEUE_END") /\ Is0(toPico') /\ UNCHANGED <<pending, control, counts>>
      /\ mode = "ARMED" /\ closed = FALSE /\ Is0(Way)
  BY RequestTaken
<1>2. Queue("QUEUE_END")
  BY <1>1 DEF HandleCommand, Plain
<1>3. /\ closed' = TRUE
      /\ fromPico' = fromPico \o Append(<<Ready>>, Room("ARMED")) /\ UNCHANGED <<mode, runs>>
  BY <1>1, <1>2 DEF Queue, QueueCommandAllowed, Room, Ready
<1>4. /\ PicoTypes /\ LinkTypes /\ Room("ARMED") \in Answer(runs) /\ Ready \in Answer(runs)
      /\ runs \in Nat
  BY FramesAre DEF SessionInv, PicoTypes, Modes, Room, Ready
<1> DEFINE f == Append(<<Ready>>, Room("ARMED"))
<1>5. f \in Seq(Answer(runs)) /\ Is2(f, Ready, Room("ARMED"))
  BY <1>4, OneAnswer, AppendProperties, TwoInOrder
<1>6. fromPico' = fromPico \o f /\ f \in Seq(Answer(runs')) /\ runs' \in Nat /\ runs =< runs'
  BY <1>3, <1>4, <1>5
<1> HIDE DEF f
<1>7. Is2(Way', Ready, Room("ARMED"))
  BY <1>1, <1>4, <1>5, <1>6, SaysTwo
<1> QED
  BY <1>1, <1>3, <1>7 DEF Resting

LEMMA StartTold ==
    ASSUME SessionInv, HandleCommand, NEW over, Asked("ARMED", over, Plain("PLAY_START"))
    PROVE  /\ Resting("PLAYING", over)' /\ Is2(Way', Playing, Started)
           /\ runs' = runs + 1 /\ UNCHANGED <<control, counts>>
<1>1. /\ Head(toPico) = Plain("PLAY_START") /\ Is0(toPico') /\ UNCHANGED <<pending, control, counts>>
      /\ mode = "ARMED" /\ closed = over /\ Is0(Way)
  BY RequestTaken
<1>2. PlayStart
  BY <1>1 DEF HandleCommand, Plain
<1>3. /\ mode' = "PLAYING" /\ closed' = closed /\ runs' = runs + 1
      /\ fromPico' = fromPico \o <<Playing, Started>>
  BY <1>1, <1>2 DEF PlayStart, Playing, Started
<1>4. PicoTypes /\ LinkTypes /\ runs' \in Nat /\ runs =< runs'
  BY <1>3 DEF SessionInv, PicoTypes
<1>5. Playing \in Answer(runs') /\ Started \in Answer(runs')
  BY <1>4, FramesAre DEF Modes, Reasons, Playing, Started
<1>6. <<Playing, Started>> \in Seq(Answer(runs')) /\ Is2(<<Playing, Started>>, Playing, Started)
  BY <1>5, TwoAnswers, TwoInOrder
<1>7. Is2(Way', Playing, Started)
  BY <1>1, <1>3, <1>4, <1>6, SaysTwo
<1> QED
  BY <1>1, <1>3, <1>7 DEF Resting

LEMMA EndTold ==
    ASSUME SessionInv, RunEnds
    PROVE  /\ mode = "PLAYING" /\ closed /\ mode' = "ARMED" /\ closed' = FALSE
           /\ UNCHANGED <<runs, toPico, control, counts>>
           /\ \E f : Is3(f, Finished, Metrics, Over) /\ Halves(Way', Way, f)
<1> DEFINE f == Append(EndOfRun("PLAY_FINISHED"), Over)
<1>1. /\ mode = "PLAYING" /\ closed /\ mode' = "ARMED" /\ closed' = FALSE
      /\ UNCHANGED <<runs, toPico, pending, control, counts>> /\ fromPico' = fromPico \o f
  BY DEF RunEnds, Over
<1>3. Is3(f, Finished, Metrics, Over)
  BY ThreeInOrder DEF EndOfRun, Finished, Metrics
<1>4. f \in Seq(Answer(runs))
  <2>1. runs \in Nat /\ runs > 0
    BY <1>1 DEF SessionInv, PicoTypes
  <2>2. EndOfRun("PLAY_FINISHED") \in Seq(Answer(runs)) /\ Over \in Answer(runs)
    BY <2>1, RunFramesAre, FramesAre DEF Over, Modes, Reasons
  <2> QED
    BY <2>2, AppendProperties
<1> HIDE DEF f
<1>5. Halves(Way', Way, f)
  BY <1>1, <1>4, MoreSaid DEF SessionInv, LinkTypes
<1> QED
  BY <1>1, <1>3, <1>5

LEMMA FirstOfTwo ==
    ASSUME SessionInv, HandleCommand, NEW x, NEW y, Is2(toPico, x, y)
    PROVE  Head(toPico) = x /\ Is1(toPico', y)
<1> DEFINE S == Request
<1>1. toPico \in Seq(S) /\ toPico # <<>> /\ toPico' = Tail(toPico)
  BY DEF SessionInv, LinkTypes, HandleCommand
<1> HIDE DEF S
<1>2. Head(toPico) = toPico[1] /\ Len(Tail(toPico)) = Len(toPico) - 1 /\ Len(toPico) = 2
  BY <1>1, HeadTailProperties DEF Is2
<1>3. Tail(toPico)[1] = toPico[2]
  BY <1>1, <1>2
<1> QED
  BY <1>1, <1>2, <1>3 DEF Is1, Is2

LEMMA LastOfOne ==
    ASSUME SessionInv, HandleCommand, NEW x, Is1(toPico, x)
    PROVE  Head(toPico) = x /\ Is0(toPico')
<1> DEFINE S == Request
<1>1. toPico \in Seq(S) /\ toPico # <<>> /\ toPico' = Tail(toPico)
  BY DEF SessionInv, LinkTypes, HandleCommand
<1> HIDE DEF S
<1>2. Head(toPico) = toPico[1] /\ Len(Tail(toPico)) = Len(toPico) - 1 /\ Len(toPico) = 1
  BY <1>1, HeadTailProperties DEF Is1
<1> QED
  BY <1>1, <1>2 DEF Is0, Is1

\* PLAY_ABORT ends the run, or finds none.
LEMMA AbortTold ==
    ASSUME SessionInv, HandleCommand, Head(toPico) = Abort, mode \in {"ARMED", "PLAYING"}
    PROVE  /\ mode' = "ARMED" /\ closed' = FALSE /\ UNCHANGED runs
           /\ \E f : /\ Halves(Way', Way, f)
                    /\ IF mode = "PLAYING" THEN Is3(f, Cut, Metrics, Gone) ELSE Is1(f, Gone)
<1> DEFINE ends == IF mode = "PLAYING" THEN EndOfRun("PLAY_ABORTED") ELSE <<>>
           f == ends \o <<Gone>>
           S == Answer(runs)
<1>1. Enter("ARMED", "ABORTED") /\ UNCHANGED pending
  BY DEF HandleCommand, Abort, Plain, PlayAbort
<1>2. /\ mode' = "ARMED" /\ closed' = FALSE /\ UNCHANGED runs
      /\ fromPico' = (fromPico \o ends) \o <<Gone>>
  BY <1>1 DEF Enter, Gone
<1>3. pending \in Seq(S) /\ fromPico \in Seq(S) /\ Gone \in S
  BY FramesAre DEF SessionInv, LinkTypes, PicoTypes, Gone, Modes, Reasons
<1>4. ends \in Seq(S)
  <2>1. CASE mode = "PLAYING"
    BY <2>1, RunFramesAre DEF SessionInv, PicoTypes
  <2>2. <<>> \in Seq(S)
    OBVIOUS
  <2> QED
    BY <2>1, <2>2
<1>5. IF mode = "PLAYING" THEN Is3(f, Cut, Metrics, Gone) ELSE Is1(f, Gone)
  <2>1. CASE mode = "PLAYING"
    <3>1. ends = <<Cut, Metrics>>
      BY <2>1 DEF EndOfRun, Cut, Metrics
    <3>2. <<Cut, Metrics>> \o <<Gone>> = Append(<<Cut, Metrics>>, Gone)
      OBVIOUS
    <3> QED
      BY <2>1, <3>1, <3>2, ThreeInOrder
  <2>2. CASE mode # "PLAYING"
    <3>1. ends = <<>> /\ <<>> \o <<Gone>> = <<Gone>>
      BY <2>2
    <3> QED
      BY <2>2, <3>1 DEF Is1
  <2> QED
    BY <2>1, <2>2
<1> HIDE DEF ends, S
<1>6. fromPico' = fromPico \o f /\ f \in Seq(S)
  <2> DEFINE g == <<Gone>>
  <2>1. g \in Seq(S)
    BY <1>3
  <2> HIDE DEF g
  <2>2. fromPico' = (fromPico \o ends) \o g
    BY <1>2 DEF g
  <2>3. fromPico \in Seq(S) /\ ends \in Seq(S)
    BY <1>3, <1>4
  <2>4. ends \o g \in Seq(S)
    BY <2>1, <2>3, ConcatProperties
  <2>5. (fromPico \o ends) \o g = fromPico \o (ends \o g)
    BY <2>1, <2>3
  <2> QED
    BY <2>2, <2>4, <2>5 DEF g
<1> HIDE DEF f
<1>7. Halves(Way', Way, f)
  BY <1>1, <1>3, <1>6, MoreSaid
<1> QED
  BY <1>2, <1>5, <1>7

-----------------------------------------------------------------------------
(* The frame that ends a wait. *)

Meets(frame) == frame.type = Awaits[stage].type \/ IsError(frame)

LEMMA SomeMeets ==
    ASSUME LinkTypes, Answering # {}
    PROVE  \E k \in 1..Len(Way) : Meets(Way[k])
<1>1. PICK k \in DOMAIN pending : pending[k].type = Awaits[stage].type \/ IsError(pending[k])
  BY DEF Answering
<1>2. k \in 1..Len(pending) /\ Len(pending) \in Nat
  <2> DEFINE S == Answer(runs)
  <2>1. pending \in Seq(S)
    BY DEF LinkTypes
  <2> HIDE DEF S
  <2> QED
    BY <1>1, <2>1
<1>3. k \in 1..Len(Way) /\ Way[k] = pending[k]
  BY <1>2, WayTypes
<1> QED
  BY <1>1, <1>3 DEF Meets

LEMMA FirstIs ==
    ASSUME LinkTypes, Answering # {}, NEW k \in 1..Len(Way), Meets(Way[k]),
           \A j \in 1..Len(Way) : Meets(Way[j]) => k =< j
    PROVE  /\ First(Answering) = k /\ k \in 1..Len(pending) /\ k \in DOMAIN pending
           /\ pending[k] = Way[k]
<1> DEFINE S == Answer(runs)
<1>1. pending \in Seq(S)
  BY DEF LinkTypes
<1> HIDE DEF S
<1>2. DOMAIN pending = 1..Len(pending) /\ Len(pending) \in Nat
  BY <1>1
<1>3. \A i \in Answering : i \in 1..Len(pending) /\ i \in 1..Len(Way) /\ Meets(Way[i])
  BY <1>2, WayTypes DEF Answering, Meets
<1>4. PICK i \in Answering : TRUE
  OBVIOUS
<1>5. k \in 1..Len(pending)
  BY <1>2, <1>3, <1>4
<1>6. pending[k] = Way[k]
  BY <1>5, WayTypes
<1>7. k \in Answering
  BY <1>2, <1>5, <1>6 DEF Answering, Meets
<1>8. \A j \in Answering : k =< j
  BY <1>3
<1>9. \A m \in Answering : (\A j \in Answering : m =< j) => m = k
  BY <1>3, <1>7, <1>8, <1>2
<1>10. First(Answering) = k
  BY <1>7, <1>8, <1>9 DEF First
<1> QED
  BY <1>2, <1>5, <1>6, <1>10

LEMMA WithoutRemoves ==
    ASSUME NEW S, pending \in Seq(S), NEW k \in 1..Len(pending)
    PROVE  Without(k) \in Seq(S) /\ Removed(Without(k), pending, k)
<1> DEFINE a == SubSeq(pending, 1, k - 1)
           b == SubSeq(pending, k + 1, Len(pending))
<1>1. /\ a \in Seq(S) /\ Len(a) = k - 1 /\ \A i \in 1..(k - 1) : a[i] = pending[i]
      /\ b \in Seq(S) /\ Len(b) = Len(pending) - k /\ \A i \in 1..(Len(pending) - k) : b[i] = pending[k + i]
  OBVIOUS
<1>2. Len(pending) \in Nat
  OBVIOUS
<1> HIDE DEF a, b
<1>3. a \o b \in Seq(S) /\ Halves(a \o b, a, b)
  BY <1>1, ConcatProperties, ConcatHalves
<1>4. Len(a \o b) = Len(pending) - 1
  BY <1>1, <1>2, <1>3 DEF Halves
<1>5. ASSUME NEW i \in 1..Len(a \o b)
      PROVE  (a \o b)[i] = IF i < k THEN pending[i] ELSE pending[i + 1]
  <2>1. CASE i < k
    BY <1>1, <1>2, <1>3, <1>4, <2>1 DEF Halves
  <2>2. CASE i >= k
    <3> DEFINE j == i - k + 1
    <3>1. j \in 1..Len(b) /\ j \in 1..(Len(pending) - k) /\ Len(a) + j = i /\ k + j = i + 1
      BY <1>1, <1>2, <1>4, <2>2
    <3>2. ~(i < k)
      BY <1>2, <1>4, <2>2
    <3> HIDE DEF j
    <3>3. (a \o b)[i] = b[j]
      BY <1>3, <3>1 DEF Halves
    <3>4. b[j] = pending[i + 1]
      BY <1>1, <3>1
    <3> QED
      BY <3>2, <3>3, <3>4
  <2> QED
    BY <1>2, <1>4, <2>1, <2>2
<1> QED
  BY <1>2, <1>3, <1>4, <1>5 DEF Without, Removed, a, b

LEMMA RemovedInFront ==
    ASSUME NEW S, NEW s \in Seq(S), NEW t \in Seq(S), NEW c \in Seq(S), NEW k, Removed(t, s, k)
    PROVE  Removed(t \o c, s \o c, k)
<1>1. /\ Halves(t \o c, t, c) /\ Halves(s \o c, s, c)
      /\ Len(s) \in Nat /\ Len(t) \in Nat /\ Len(c) \in Nat
  BY ConcatHalves, LenProperties
<1>2. /\ Len(t \o c) = Len(t) + Len(c) /\ Len(s \o c) = Len(s) + Len(c) /\ Len(t) = Len(s) - 1
      /\ k \in 1..Len(s)
  BY <1>1 DEF Halves, Removed
<1>3. ASSUME NEW i \in 1..Len(t \o c)
      PROVE  (t \o c)[i] = IF i < k THEN (s \o c)[i] ELSE (s \o c)[i + 1]
  <2>1. CASE i =< Len(t)
    BY <1>1, <1>2, <2>1 DEF Halves, Removed
  <2>2. CASE i > Len(t)
    <3>1. i - Len(t) \in 1..Len(c) /\ Len(t) + (i - Len(t)) = i /\ Len(s) + (i - Len(t)) = i + 1
      BY <1>1, <1>2, <2>2
    <3> QED
      BY <1>1, <1>2, <2>2, <3>1 DEF Halves
  <2> QED
    BY <1>1, <1>2, <2>1, <2>2
<1> QED
  BY <1>1, <1>2, <1>3 DEF Removed

\* The wait ends with the k-th frame, which it needed.
LEMMA AnswerTaken ==
    ASSUME SessionInv, Answered, NEW k \in 1..Len(Way), Meets(Way[k]),
           \A j \in 1..Len(Way) : Meets(Way[j]) => k =< j,
           ~IsError(Way[k]), Accepts(Way[k]),
           Collects => k = Len(Way) /\ \A j \in 1..Len(Way) : ~IsError(Way[j])
    PROVE  /\ Proceed(Following[stage]) /\ (cancel' => cancel)
           /\ heard' = heard \cup RunOf(Way[k])
           /\ UNCHANGED <<mode, closed, runs, long, failure, before, counts>>
           /\ Len(Way') \in Nat
           /\ IF Collects THEN Is0(Way') ELSE Removed(Way', Way, k)
<1>1. LinkTypes /\ Answering # {} /\ Len(Way) \in Nat
  BY WayTypes DEF SessionInv, Answered
<1>2. /\ First(Answering) = k /\ k \in 1..Len(pending) /\ k \in DOMAIN pending
      /\ pending[k] = Way[k]
  BY <1>1, FirstIs
<1> DEFINE S == Answer(runs)
           rest == Without(k)
<1>3. pending \in Seq(S) /\ fromPico \in Seq(S)
  BY <1>1 DEF LinkTypes
<1> HIDE DEF S
<1>4. rest \in Seq(S) /\ Removed(rest, pending, k)
  BY <1>2, <1>3, WithoutRemoves
<1>5. Len(pending) \in Nat /\ Len(rest) \in Nat /\ DOMAIN rest = 1..Len(rest)
  BY <1>3, <1>4
<1> HIDE DEF rest
<1>6. ~(Collects /\ \E j \in DOMAIN rest : IsError(rest[j]))
  <2> SUFFICES ASSUME Collects, NEW j \in 1..Len(rest) PROVE ~IsError(rest[j])
    BY <1>5
  <2>1. rest[j] = (IF j < k THEN pending[j] ELSE pending[j + 1]) /\ Len(rest) = Len(pending) - 1
    BY <1>4 DEF Removed
  <2>2. PICK m \in 1..Len(pending) : rest[j] = pending[m]
    BY <1>2, <1>5, <2>1
  <2> QED
    BY <1>1, <2>2, WayTypes
<1>7. /\ Proceed(Following[stage]) /\ pending' = (IF Collects THEN <<>> ELSE rest)
      /\ (cancel' => cancel) /\ heard' = heard \cup RunOf(Way[k])
      /\ UNCHANGED <<mode, closed, runs, long, failure, before, counts, fromPico>>
  BY <1>2, <1>6 DEF Answered, rest, pico
<1>8. CASE Collects
  <2>1. k = Len(Way) /\ Len(pending) =< Len(Way)
    BY <1>1, <1>8, WayTypes
  <2>2. Len(Way) = Len(pending) + Len(fromPico) /\ Len(fromPico) \in Nat
    BY <1>3, ConcatProperties DEF Way
  <2>3. Len(fromPico) = 0
    BY <1>2, <1>5, <2>1, <2>2
  <2>4. Way' = <<>> \o fromPico
    BY <1>7, <1>8 DEF Way
  <2>5. Len(<<>> \o fromPico) = 0
    BY <1>3, <2>3
  <2> QED
    BY <1>7, <1>8, <2>4, <2>5 DEF Is0
<1>9. CASE ~Collects
  <2>1. Way' = rest \o fromPico
    BY <1>7, <1>9 DEF Way
  <2>2. Removed(rest \o fromPico, pending \o fromPico, k)
    BY <1>3, <1>4, RemovedInFront
  <2>3. Len(rest \o fromPico) \in Nat
    BY <1>3, <1>4, ConcatProperties, LenProperties
  <2> QED
    BY <1>7, <1>9, <2>1, <2>2, <2>3 DEF Way
<1> QED
  BY <1>8, <1>9

\* What the session writes before a wait, when the Pico has all it wrote before.
LEMMA RequestWritten ==
    ASSUME toPico \in Seq(Request), Is0(toPico), NEW next, toPico' = toPico \o Requests(next)
    PROVE  \A x : /\ Requests(next) = <<x>> => Is1(toPico', x)
                  /\ Requests(next) = <<>> => Is0(toPico')
<1> DEFINE S == Request
           r == Requests(next)
<1>1. toPico \in Seq(S) /\ r \in Seq(S)
  BY RequestsAre
<1> HIDE DEF S, r
<1>2. toPico' = r
  <2>1. toPico = <<>>
    BY <1>1, EmptySeq DEF Is0
  <2> QED
    BY <1>1, <2>1 DEF r
<1> QED
  BY <1>2 DEF r, Is0, Is1

LEMMA StagesApart ==
    /\ Aborting = {"abort", "partial", "aborted"}
    /\ Streaming = {"stream", "outcome", "metrics", "ended"}
  BY DEF Aborting, Streaming

\* What is known of the frames by name.
LEMMA FrameKinds ==
    /\ \A m, r : ModeChanged(m, r).type = "MODE_CHANGED" /\ ModeChanged(m, r).state = m
    /\ \A m : Room(m).type = "BUFFER_STATUS"
    /\ Playing.type = "MODE_CHANGED" /\ Playing.state = "PLAYING"
    /\ Over.type = "MODE_CHANGED" /\ Over.state = "ARMED"
    /\ Passed.type = "MODE_CHANGED" /\ Passed.state = "PASS"
    /\ Started.type = "PLAY_STARTED" /\ Ready.type = "PLAY_READY"
    /\ Finished.type = "PLAY_FINISHED" /\ Metrics.type = "PLAY_METRICS"
    /\ Cut.type = "PLAY_ABORTED" /\ Gone.type = "MODE_CHANGED" /\ Gone.state = "ARMED"
  BY DEF ModeChanged, Room, BufferStatus, Playing, Over, Passed, Started, Ready, Plain, Finished,
         Metrics, Cut, Gone, OfRun

LEMMA Needs ==
    /\ stage = "arm" => Awaits[stage] = ModeChanged("ARMED", "OK")
    /\ stage \in {"clear", "feed", "closing"} => Awaits[stage] = Room("ARMED")
    /\ stage = "ready" => Awaits[stage] = Ready
    /\ stage = "start" => Awaits[stage] = Playing
    /\ stage = "started" => Awaits[stage] = Started
    /\ stage = "stream" => Awaits[stage] = Room("PLAYING")
    /\ stage = "outcome" => Awaits[stage] = Plain("PLAY_FINISHED")
    /\ stage = "metrics" => Awaits[stage] = Plain("PLAY_METRICS")
    /\ stage = "ended" => Awaits[stage] = Over
    /\ stage \in {"pass", "cleanup"} => Awaits[stage] = Passed
    /\ stage = "abort" => Awaits[stage] = Plain("PLAY_ABORTED")
    /\ stage = "partial" => Awaits[stage] = Plain("PLAY_METRICS")
    /\ stage = "aborted" => Awaits[stage] = Gone
  BY DEF Awaits, Room, Ready, Playing, Started, Over, Passed, Gone

\* The place of the frame that ends the wait.
Place == IF long /\ stage \in {"outcome", "metrics", "ended"} THEN 2 ELSE 1

IsAnswer(k) ==
    /\ k \in 1..Len(Way) /\ Meets(Way[k]) /\ ~IsError(Way[k]) /\ Accepts(Way[k])
    /\ \A j \in 1..Len(Way) : Meets(Way[j]) => k =< j
    /\ Collects => k = Len(Way) /\ \A j \in 1..Len(Way) : ~IsError(Way[j])

LEMMA FirstAnswers ==
    ASSUME LinkTypes, Place = 1, ~Collects, Len(Way) >= 1,
           Way[1].type = Awaits[stage].type, ~IsError(Way[1]), Accepts(Way[1])
    PROVE  IsAnswer(Place)
  BY WayTypes DEF IsAnswer, Meets

\* The wait has its frame, or nothing under way would bring it.
Settled == Answering # {} \/ Starved

LEMMA NothingAsked ==
    ASSUME SessionInv, Settled
    PROVE  \A state, over, request : ~Asked(state, over, request)
<1>1. CASE Answering # {}
  <2>1. \E k \in 1..Len(Way) : TRUE
    BY <1>1, SomeMeets DEF SessionInv
  <2> QED
    BY <2>1 DEF Asked, Is0
<1>2. CASE Starved
  <2>1. Len(toPico) = 0
    BY <1>2 DEF Starved
  <2> QED
    BY <2>1 DEF Asked, Is1
<1> QED
  BY <1>1, <1>2 DEF Settled

LEMMA OpeningAnswers ==
    ASSUME SessionInv, OnTrack, Settled,
           stage \in {"arm", "clear", "feed", "ready", "closing", "pass", "cleanup"}
    PROVE  /\ IsAnswer(Place) /\ Place = 1
           /\ stage = "arm" => Resting("ARMED", FALSE) /\ Is1(Way, ModeChanged("ARMED", "OK"))
           /\ stage \in {"clear", "feed"} => Resting("ARMED", FALSE) /\ Is1(Way, Room("ARMED"))
           /\ stage = "ready" => ~long /\ Resting("ARMED", TRUE) /\ Is2(Way, Ready, Room("ARMED"))
           /\ stage = "closing" => ~long /\ Resting("ARMED", TRUE) /\ Is1(Way, Room("ARMED"))
           /\ stage \in {"pass", "cleanup"} => Resting("PASS", FALSE) /\ Is1(Way, Passed)
<1>1. LinkTypes /\ Place = 1 /\ ~Collects
  BY DEF SessionInv, Place, Collects
<1>2. /\ stage = "arm" => Resting("ARMED", FALSE) /\ Is1(Way, ModeChanged("ARMED", "OK"))
      /\ stage \in {"clear", "feed"} => Resting("ARMED", FALSE) /\ Is1(Way, Room("ARMED"))
      /\ stage = "ready" => ~long /\ Resting("ARMED", TRUE) /\ Is2(Way, Ready, Room("ARMED"))
      /\ stage = "closing" => ~long /\ Resting("ARMED", TRUE) /\ Is1(Way, Room("ARMED"))
      /\ stage \in {"pass", "cleanup"} => Resting("PASS", FALSE) /\ Is1(Way, Passed)
  BY NothingAsked DEF OnTrack, Opening, Ending
<1> DEFINE a == Awaits[stage]
<1>3. Len(Way) >= 1 /\ Way[1] = a
  <2>1. Is1(Way, a) \/ Is2(Way, a, Room("ARMED"))
    BY <1>2, Needs
  <2> HIDE DEF a
  <2> QED
    BY <2>1 DEF Is1, Is2
<1>4. ~IsError(a)
  BY Needs, FrameKinds DEF IsError
<1>5. IsAnswer(Place)
  BY <1>1, <1>3, <1>4, FirstAnswers DEF Accepts
<1> QED
  BY <1>1, <1>2, <1>5

LEMMA RunningAnswers ==
    ASSUME SessionInv, OnTrack, Settled, stage \in {"start", "started", "stream"}
    PROVE  /\ IsAnswer(Place) /\ Place = 1
           /\ stage = "start" =>
                 \/ Resting("PLAYING", ~long) /\ Is2(Way, Playing, Started)
                 \/ ~long /\ Resting("ARMED", FALSE)
                          /\ Is5(Way, Playing, Started, Finished, Metrics, Over)
           /\ stage = "started" =>
                 \/ Resting("PLAYING", ~long) /\ Is1(Way, Started)
                 \/ ~long /\ Resting("ARMED", FALSE) /\ Is4(Way, Started, Finished, Metrics, Over)
           /\ stage = "stream" => long /\ Resting("PLAYING", FALSE) /\ Is1(Way, Room("PLAYING"))
<1>1. LinkTypes /\ Place = 1 /\ ~Collects
  BY DEF SessionInv, Place, Collects
<1>2. /\ stage = "start" =>
            \/ Resting("PLAYING", ~long) /\ Is2(Way, Playing, Started)
            \/ ~long /\ Resting("ARMED", FALSE)
                     /\ Is5(Way, Playing, Started, Finished, Metrics, Over)
      /\ stage = "started" =>
            \/ Resting("PLAYING", ~long) /\ Is1(Way, Started)
            \/ ~long /\ Resting("ARMED", FALSE) /\ Is4(Way, Started, Finished, Metrics, Over)
      /\ stage = "stream" => long /\ Resting("PLAYING", FALSE) /\ Is1(Way, Room("PLAYING"))
  BY NothingAsked DEF OnTrack, Running
<1> DEFINE a == Awaits[stage]
<1>3. Len(Way) >= 1 /\ Way[1] = a
  <2>1. \/ Is1(Way, a) \/ Is2(Way, a, Started) \/ Is4(Way, a, Finished, Metrics, Over)
        \/ Is5(Way, a, Started, Finished, Metrics, Over)
    BY <1>2, Needs
  <2> HIDE DEF a
  <2> QED
    BY <2>1 DEF Is1, Is2, Is4, Is5
<1>4. ~IsError(a)
  BY Needs, FrameKinds DEF IsError
<1>5. IsAnswer(Place)
  BY <1>1, <1>3, <1>4, FirstAnswers DEF Accepts
<1> QED
  BY <1>1, <1>2, <1>5

LEMMA EndingAnswers ==
    ASSUME SessionInv, OnTrack, Settled, stage \in {"outcome", "metrics", "ended"}
    PROVE  /\ IsAnswer(Place) /\ Resting("ARMED", FALSE)
           /\ stage = "outcome" => IF long THEN Is4(Way, Room("PLAYING"), Finished, Metrics, Over)
                                           ELSE Is3(Way, Finished, Metrics, Over)
           /\ stage = "metrics" => IF long THEN Is3(Way, Room("PLAYING"), Metrics, Over)
                                           ELSE Is2(Way, Metrics, Over)
           /\ stage = "ended" => IF long THEN Is2(Way, Room("PLAYING"), Over) ELSE Is1(Way, Over)
<1>1. Answering # {} => \E m \in 1..Len(Way) : Meets(Way[m])
  BY SomeMeets DEF SessionInv
<1>2. long \in BOOLEAN
  BY DEF SessionInv, ControlTypes
<1>3. stage = "outcome" => ~(Resting("PLAYING", TRUE) /\ (Is0(Way) \/ Is1(Way, Room("PLAYING"))))
  <2> SUFFICES ASSUME stage = "outcome", Resting("PLAYING", TRUE), Is0(Way) \/ Is1(Way, Room("PLAYING"))
               PROVE  FALSE
    OBVIOUS
  <2>0. Answering # {}
    BY DEF Settled, Starved, Resting
  <2> PICK m \in 1..Len(Way) : Meets(Way[m])
    BY <1>1, <2>0
  <2>1. Way[m] = Room("PLAYING")
    BY DEF Is0, Is1
  <2>2. Room("PLAYING").type # Awaits[stage].type
    BY Needs, FrameKinds DEF Plain
  <2> QED
    BY <2>1, <2>2, FrameKinds DEF Meets, IsError
<1>4. /\ Resting("ARMED", FALSE)
      /\ stage = "outcome" => IF long THEN Is4(Way, Room("PLAYING"), Finished, Metrics, Over)
                                      ELSE Is3(Way, Finished, Metrics, Over)
      /\ stage = "metrics" => IF long THEN Is3(Way, Room("PLAYING"), Metrics, Over)
                                      ELSE Is2(Way, Metrics, Over)
      /\ stage = "ended" => IF long THEN Is2(Way, Room("PLAYING"), Over) ELSE Is1(Way, Over)
  BY <1>2, <1>3, NothingAsked DEF OnTrack, Running, Ending
<1>5. ~IsError(Room("PLAYING")) /\ ~IsError(Finished) /\ ~IsError(Metrics) /\ ~IsError(Over)
  BY FrameKinds DEF IsError
<1>6. /\ Awaits[stage].type # Room("PLAYING").type
      /\ stage = "outcome" => Awaits[stage].type = Finished.type /\ Accepts(Finished)
      /\ stage = "metrics" => Awaits[stage].type = Metrics.type /\ Accepts(Metrics)
      /\ stage = "ended" => Awaits[stage].type = Over.type /\ Accepts(Over)
  BY Needs, FrameKinds DEF Plain, Accepts
<1>7. CASE long
  <2>1. Place = 2 /\ Way[1] = Room("PLAYING") /\ Len(Way) >= 2 /\ Len(Way) \in Nat
    BY <1>4, <1>7 DEF Place, Is2, Is3, Is4
  <2>2. Meets(Way[2]) /\ ~IsError(Way[2]) /\ Accepts(Way[2]) /\ ~Meets(Way[1])
    BY <1>4, <1>5, <1>6, <1>7 DEF Meets, Is2, Is3, Is4
  <2>3. Collects => Len(Way) = 2 /\ ~IsError(Way[1])
    BY <1>4, <1>5, <1>7, <2>1 DEF Collects, Is2
  <2>4. \A j \in 1..Len(Way) : Meets(Way[j]) => 2 =< j
    BY <2>1, <2>2
  <2>5. IsAnswer(2)
    BY <2>1, <2>2, <2>3, <2>4 DEF IsAnswer
  <2> QED
    BY <1>4, <2>1, <2>5
<1>8. CASE ~long
  <2>1. Place = 1 /\ Len(Way) >= 1 /\ Len(Way) \in Nat
    BY <1>4, <1>8 DEF Place, Is1, Is2, Is3
  <2>2. Meets(Way[1]) /\ ~IsError(Way[1]) /\ Accepts(Way[1])
    BY <1>4, <1>5, <1>6, <1>8 DEF Meets, Is1, Is2, Is3
  <2>3. Collects => Len(Way) = 1
    BY <1>4, <1>8 DEF Collects, Is1
  <2>4. IsAnswer(1)
    BY <2>1, <2>2, <2>3 DEF IsAnswer
  <2> QED
    BY <1>4, <2>1, <2>4
<1> QED
  BY <1>2, <1>4, <1>7, <1>8

\* What PLAY_ABORT found is said, alone or behind the answer of the queue.
CutAlone ==
    /\ stage = "abort" => Is3(Way, Cut, Metrics, Gone)
    /\ stage = "partial" => Is2(Way, Metrics, Gone)
    /\ stage = "aborted" => Is1(Way, Gone)

CutBehind ==
    /\ stage = "abort" => Is4(Way, Room("PLAYING"), Cut, Metrics, Gone)
    /\ stage = "partial" => Is3(Way, Room("PLAYING"), Metrics, Gone)
    /\ stage = "aborted" => Is2(Way, Room("PLAYING"), Gone)

LEMMA StoppingAnswers ==
    ASSUME SessionInv, OnTrack, Settled, stage \in Aborting, ~(stage = "abort" /\ Missed)
    PROVE  /\ Resting("ARMED", FALSE)
           /\ \/ IsAnswer(1) /\ CutAlone
              \/ IsAnswer(2) /\ CutBehind
<1>1. ~(stage = "abort" /\ Cutting)
  <2> SUFFICES ASSUME stage = "abort", Cutting PROVE FALSE
    OBVIOUS
  <2>1. Answering # {}
    BY DEF Settled, Starved, Cutting, Is1, Is2
  <2>2. PICK m \in 1..Len(Way) : Meets(Way[m])
    BY <2>1, SomeMeets DEF SessionInv
  <2>3. Way[m] = Room("PLAYING")
    BY <2>2 DEF Cutting, Is0, Is1
  <2>4. Room("PLAYING").type # Awaits[stage].type
    BY Needs, FrameKinds DEF Plain
  <2> QED
    BY <2>2, <2>3, <2>4, FrameKinds DEF Meets, IsError
<1>2. stage \in {"abort", "partial", "aborted"} /\ Resting("ARMED", FALSE) /\ (CutAlone \/ CutBehind)
  BY <1>1, StagesApart DEF OnTrack, Stopping, CutAlone, CutBehind
<1>3. ~IsError(Room("PLAYING")) /\ ~IsError(Cut) /\ ~IsError(Metrics) /\ ~IsError(Gone)
  BY FrameKinds DEF IsError
<1>4. /\ Awaits[stage].type # Room("PLAYING").type
      /\ stage = "abort" => Awaits[stage].type = Cut.type /\ Accepts(Cut)
      /\ stage = "partial" => Awaits[stage].type = Metrics.type /\ Accepts(Metrics)
      /\ stage = "aborted" => Awaits[stage].type = Gone.type /\ Accepts(Gone)
  BY <1>2, Needs, FrameKinds DEF Plain, Accepts
<1>5. CASE CutAlone
  <2>1. Len(Way) >= 1 /\ Len(Way) \in Nat /\ (Collects => Len(Way) = 1)
    BY <1>2, <1>5 DEF CutAlone, Is1, Is2, Is3, Collects
  <2>2. Meets(Way[1]) /\ ~IsError(Way[1]) /\ Accepts(Way[1])
    BY <1>2, <1>3, <1>4, <1>5 DEF CutAlone, Meets, Is1, Is2, Is3
  <2>3. IsAnswer(1)
    BY <2>1, <2>2 DEF IsAnswer
  <2> QED
    BY <1>2, <1>5, <2>3
<1>6. CASE CutBehind
  <2>1. Len(Way) >= 2 /\ Len(Way) \in Nat /\ (Collects => Len(Way) = 2) /\ Way[1] = Room("PLAYING")
    BY <1>2, <1>6 DEF CutBehind, Is2, Is3, Is4, Collects
  <2>2. Meets(Way[2]) /\ ~IsError(Way[2]) /\ Accepts(Way[2])
    BY <1>2, <1>3, <1>4, <1>6 DEF CutBehind, Meets, Is2, Is3, Is4
  <2>3. ~Meets(Way[1]) /\ ~IsError(Way[1])
    BY <1>3, <1>4, <2>1 DEF Meets
  <2>4. IsAnswer(2)
    BY <2>1, <2>2, <2>3 DEF IsAnswer
  <2> QED
    BY <1>2, <1>6, <2>4
<1> QED
  BY <1>2, <1>5, <1>6

-----------------------------------------------------------------------------
(* Every step keeps a calm session on its track. *)

LEMMA Taken ==
    ASSUME SessionInv, OnTrack, Answered, NEW k, IsAnswer(k)
    PROVE  /\ stage' = Following[stage] /\ toPico' = toPico \o Requests(Following[stage])
           /\ Steady'
           /\ UNCHANGED <<mode, closed, long, counts>> /\ Finished' = Finished /\ Metrics' = Metrics
           /\ IF Collects THEN Is0(Way') ELSE Removed(Way', Way, k) /\ Len(Way') \in Nat
<1>1. /\ Proceed(Following[stage]) /\ (cancel' => cancel)
      /\ UNCHANGED <<mode, closed, runs, long, failure, counts>>
      /\ Len(Way') \in Nat
      /\ IF Collects THEN Is0(Way') ELSE Removed(Way', Way, k)
  BY AnswerTaken DEF IsAnswer
<1>2. stage \notin Aborting => Following[stage] \notin Aborting
  <2>1. stage \in DOMAIN Awaits
    BY DEF Answered, Waiting
  <2> QED
    BY <2>1, StageNames DEF Following, Aborting
<1>3. Steady'
  BY <1>1, <1>2 DEF Proceed, OnTrack, Steady, counts
<1> QED
  BY <1>1, <1>3 DEF Proceed, Finished, Metrics, OfRun

LEMMA NextWait ==
    ASSUME long \in BOOLEAN
    PROVE  /\ stage = "arm" =>
                 Following[stage] = "clear" /\ Requests("clear") = <<Plain("QUEUE_CLEAR")>>
           /\ stage = "clear" =>
                 Following[stage] = "feed" /\ Requests("feed") = <<Plain("QUEUE_EVENT")>>
           /\ stage = "feed" /\ ~long =>
                 Following[stage] = "ready" /\ Requests("ready") = <<Plain("QUEUE_END")>>
           /\ stage = "feed" /\ long =>
                 Following[stage] = "start" /\ Requests("start") = <<Plain("PLAY_START")>>
           /\ stage = "ready" => Following[stage] = "closing" /\ Requests("closing") = <<>>
           /\ stage = "closing" =>
                 Following[stage] = "start" /\ Requests("start") = <<Plain("PLAY_START")>>
           /\ stage = "start" => Following[stage] = "started" /\ Requests("started") = <<>>
           /\ stage = "started" /\ ~long =>
                 Following[stage] = "outcome" /\ Requests("outcome") = <<>>
           /\ stage = "started" /\ long =>
                 Following[stage] = "stream" /\ Requests("stream") = <<Plain("QUEUE_EVENT")>>
           /\ stage = "stream" => Following[stage] = "outcome"
           /\ long => Requests("outcome") = <<Plain("QUEUE_END")>>
           /\ stage = "outcome" => Following[stage] = "metrics" /\ Requests("metrics") = <<>>
           /\ stage = "metrics" => Following[stage] = "ended" /\ Requests("ended") = <<>>
           /\ stage = "ended" => Following[stage] = "pass" /\ Requests("pass") = <<SetMode("PASS")>>
           /\ stage \in {"pass", "cleanup"} => Following[stage] = "idle" /\ Requests("idle") = <<>>
           /\ stage = "abort" => Following[stage] = "partial" /\ Requests("partial") = <<>>
           /\ stage = "partial" => Following[stage] = "aborted" /\ Requests("aborted") = <<>>
           /\ stage = "aborted" =>
                 Following[stage] = "cleanup" /\ Requests("cleanup") = <<SetMode("PASS")>>
  BY DEF Following, Requests

\* What is true of the wait the session comes to.
LEMMA AtWait ==
    ASSUME Steady',
           \/ stage' \in {"idle", "arm", "clear", "feed", "ready", "closing"} /\ Opening'
           \/ stage' \in {"start", "started", "stream", "outcome"} /\ Running'
           \/ stage' \in {"metrics", "ended", "pass", "cleanup"} /\ Ending'
           \/ stage' \in Aborting /\ Stopping'
    PROVE  OnTrack'
<1>1. stage' \notin {"idle", "arm", "clear", "feed", "ready", "closing"} => Opening'
  BY DEF Opening
<1>2. stage' \notin {"start", "started", "stream", "outcome"} => Running'
  BY DEF Running
<1>3. stage' \notin {"metrics", "ended", "pass", "cleanup"} => Ending'
  BY DEF Ending
<1>4. stage' \notin {"abort", "partial", "aborted"} => Stopping'
  BY DEF Stopping
<1> QED
  BY <1>1, <1>2, <1>3, <1>4 DEF OnTrack, Aborting

LEMMA AtOpening ==
    /\ (stage = "idle" /\ Resting("PASS", FALSE) /\ Is0(Way))' => Opening'
    /\ (stage = "arm" /\ Asked("PASS", FALSE, SetMode("ARMED")))' => Opening'
    /\ (stage = "arm" /\ Resting("ARMED", FALSE) /\ Is1(Way, ModeChanged("ARMED", "OK")))' => Opening'
    /\ (stage = "clear" /\ Asked("ARMED", FALSE, Plain("QUEUE_CLEAR")))' => Opening'
    /\ (stage = "feed" /\ Asked("ARMED", FALSE, Plain("QUEUE_EVENT")))' => Opening'
    /\ (stage \in {"clear", "feed"} /\ Resting("ARMED", FALSE) /\ Is1(Way, Room("ARMED")))' => Opening'
    /\ (stage = "ready" /\ ~long /\ Asked("ARMED", FALSE, Plain("QUEUE_END")))' => Opening'
    /\ (stage = "ready" /\ ~long /\ Resting("ARMED", TRUE) /\ Is2(Way, Ready, Room("ARMED")))' => Opening'
    /\ (stage = "closing" /\ ~long /\ Resting("ARMED", TRUE) /\ Is1(Way, Room("ARMED")))' => Opening'
  BY DEF Opening

LEMMA AtRunning ==
    /\ (stage = "start" /\ Asked("ARMED", ~long, Plain("PLAY_START")))' => Running'
    /\ (stage = "start" /\ Resting("PLAYING", ~long) /\ Is2(Way, Playing, Started))' => Running'
    /\ (stage = "start" /\ ~long /\ Resting("ARMED", FALSE)
                        /\ Is5(Way, Playing, Started, Finished, Metrics, Over))' => Running'
    /\ (stage = "started" /\ Resting("PLAYING", ~long) /\ Is1(Way, Started))' => Running'
    /\ (stage = "started" /\ ~long /\ Resting("ARMED", FALSE)
                          /\ Is4(Way, Started, Finished, Metrics, Over))' => Running'
    /\ (stage = "stream" /\ long /\ Asked("PLAYING", FALSE, Plain("QUEUE_EVENT")))' => Running'
    /\ (stage = "stream" /\ long /\ Resting("PLAYING", FALSE) /\ Is1(Way, Room("PLAYING")))' => Running'
    /\ (stage = "outcome" /\ ~long /\ Resting("PLAYING", TRUE) /\ Is0(Way))' => Running'
    /\ (stage = "outcome" /\ ~long /\ Resting("ARMED", FALSE)
                          /\ Is3(Way, Finished, Metrics, Over))' => Running'
    /\ (stage = "outcome" /\ long /\ Asked("PLAYING", FALSE, Plain("QUEUE_END")))' => Running'
    /\ (stage = "outcome" /\ long /\ Resting("PLAYING", TRUE) /\ Is1(Way, Room("PLAYING")))' => Running'
    /\ (stage = "outcome" /\ long /\ Resting("ARMED", FALSE)
                          /\ Is4(Way, Room("PLAYING"), Finished, Metrics, Over))' => Running'
  BY DEF Running

LEMMA AtEnding ==
    /\ (stage = "metrics" /\ Resting("ARMED", FALSE)
          /\ (IF long THEN Is3(Way, Room("PLAYING"), Metrics, Over) ELSE Is2(Way, Metrics, Over)))' => Ending'
    /\ (stage = "ended" /\ Resting("ARMED", FALSE)
          /\ (IF long THEN Is2(Way, Room("PLAYING"), Over) ELSE Is1(Way, Over)))' => Ending'
    /\ (stage = "pass" /\ Asked("ARMED", FALSE, SetMode("PASS")))' => Ending'
    /\ (stage = "cleanup" /\ Asked("PASS", FALSE, SetMode("PASS")))' => Ending'
    /\ (stage = "cleanup" /\ Asked("ARMED", FALSE, SetMode("PASS")))' => Ending'
    /\ (stage \in {"pass", "cleanup"} /\ Resting("PASS", FALSE) /\ Is1(Way, Passed))' => Ending'
  BY DEF Ending

LEMMA AtStopping ==
    /\ (stage = "abort" /\ Cutting)' => Stopping'
    /\ (stage = "abort" /\ Missed)' => Stopping'
    /\ (stage = "abort" /\ Resting("ARMED", FALSE)
          /\ (Is3(Way, Cut, Metrics, Gone) \/ Is4(Way, Room("PLAYING"), Cut, Metrics, Gone)))' => Stopping'
    /\ (stage = "partial" /\ Resting("ARMED", FALSE)
          /\ (Is2(Way, Metrics, Gone) \/ Is3(Way, Room("PLAYING"), Metrics, Gone)))' => Stopping'
    /\ (stage = "aborted" /\ Resting("ARMED", FALSE)
          /\ (Is1(Way, Gone) \/ Is2(Way, Room("PLAYING"), Gone)))' => Stopping'
  BY DEF Stopping

LEMMA AnswerSettles == Answered => Settled
  BY DEF Answered, Settled

LEMMA OpeningTracks ==
    ASSUME SessionInv, OnTrack, Answered,
           stage \in {"arm", "clear", "feed", "ready", "closing", "pass", "cleanup"}
    PROVE  OnTrack' /\ UNCHANGED counts
<1>1. /\ IsAnswer(1) /\ Is0(toPico) /\ toPico \in Seq(Request) /\ long \in BOOLEAN /\ ~Collects
  BY OpeningAnswers, AnswerSettles DEF Resting, SessionInv, LinkTypes, ControlTypes, Collects
<1>2. /\ stage' = Following[stage] /\ toPico' = toPico \o Requests(Following[stage])
      /\ Steady'
      /\ UNCHANGED <<mode, closed, long, counts>>
      /\ Removed(Way', Way, 1) /\ Len(Way') \in Nat
  BY <1>1, Taken
<1>3. CASE stage = "arm"
  <2>1. Resting("ARMED", FALSE) /\ Is1(Way, ModeChanged("ARMED", "OK"))
    BY <1>3, OpeningAnswers, AnswerSettles
  <2>2. Is0(Way')
    BY <1>2, <2>1, OneTaken
  <2>3. Following[stage] = "clear" /\ Requests("clear") = <<Plain("QUEUE_CLEAR")>>
    BY <1>1, <1>3, NextWait
  <2>4. stage' = "clear" /\ Is1(toPico', Plain("QUEUE_CLEAR"))
    BY <1>1, <1>2, <2>3, RequestWritten
  <2>5. Asked("ARMED", FALSE, Plain("QUEUE_CLEAR"))'
    BY <1>2, <1>3, <2>1, <2>2, <2>4 DEF Resting, Asked
  <2> QED
    BY <1>2, <2>4, <2>5, AtOpening, AtWait, StagesApart
<1>4. CASE stage = "clear"
  <2>1. Resting("ARMED", FALSE) /\ Is1(Way, Room("ARMED"))
    BY <1>4, OpeningAnswers, AnswerSettles
  <2>2. Is0(Way')
    BY <1>2, <2>1, OneTaken
  <2>3. Following[stage] = "feed" /\ Requests("feed") = <<Plain("QUEUE_EVENT")>>
    BY <1>1, <1>4, NextWait
  <2>4. stage' = "feed" /\ Is1(toPico', Plain("QUEUE_EVENT"))
    BY <1>1, <1>2, <2>3, RequestWritten
  <2>5. Asked("ARMED", FALSE, Plain("QUEUE_EVENT"))'
    BY <1>2, <1>4, <2>1, <2>2, <2>4 DEF Resting, Asked
  <2> QED
    BY <1>2, <2>4, <2>5, AtOpening, AtWait, StagesApart
<1>5. CASE stage = "feed" /\ ~long
  <2>1. Resting("ARMED", FALSE) /\ Is1(Way, Room("ARMED"))
    BY <1>5, OpeningAnswers, AnswerSettles
  <2>2. Is0(Way')
    BY <1>2, <2>1, OneTaken
  <2>3. Following[stage] = "ready" /\ Requests("ready") = <<Plain("QUEUE_END")>>
    BY <1>1, <1>5, NextWait
  <2>4. stage' = "ready" /\ Is1(toPico', Plain("QUEUE_END"))
    BY <1>1, <1>2, <2>3, RequestWritten
  <2>5. Asked("ARMED", FALSE, Plain("QUEUE_END"))' /\ ~long'
    BY <1>2, <1>5, <2>1, <2>2, <2>4 DEF Resting, Asked
  <2> QED
    BY <1>2, <2>4, <2>5, AtOpening, AtWait, StagesApart
<1>6. CASE stage = "feed" /\ long
  <2>1. Resting("ARMED", FALSE) /\ Is1(Way, Room("ARMED"))
    BY <1>6, OpeningAnswers, AnswerSettles
  <2>2. Is0(Way')
    BY <1>2, <2>1, OneTaken
  <2>3. Following[stage] = "start" /\ Requests("start") = <<Plain("PLAY_START")>>
    BY <1>1, <1>6, NextWait
  <2>4. stage' = "start" /\ Is1(toPico', Plain("PLAY_START"))
    BY <1>1, <1>2, <2>3, RequestWritten
  <2>5. Asked("ARMED", ~long, Plain("PLAY_START"))'
    BY <1>2, <1>6, <2>1, <2>2, <2>4 DEF Resting, Asked
  <2> QED
    BY <1>2, <2>4, <2>5, AtRunning, AtWait, StagesApart
<1>7. CASE stage = "ready"
  <2>1. ~long /\ Resting("ARMED", TRUE) /\ Is2(Way, Ready, Room("ARMED"))
    BY <1>7, OpeningAnswers, AnswerSettles
  <2>2. Is1(Way', Room("ARMED"))
    BY <1>2, <2>1, OneTaken
  <2>3. Following[stage] = "closing" /\ Requests("closing") = <<>>
    BY <1>1, <1>7, NextWait
  <2>4. stage' = "closing" /\ Is0(toPico')
    BY <1>1, <1>2, <2>3, RequestWritten
  <2>5. (~long /\ Resting("ARMED", TRUE) /\ Is1(Way, Room("ARMED")))'
    BY <1>2, <1>7, <2>1, <2>2, <2>4 DEF Resting, Asked
  <2> QED
    BY <1>2, <2>4, <2>5, AtOpening, AtWait, StagesApart
<1>8. CASE stage = "closing"
  <2>1. ~long /\ Resting("ARMED", TRUE) /\ Is1(Way, Room("ARMED"))
    BY <1>8, OpeningAnswers, AnswerSettles
  <2>2. Is0(Way')
    BY <1>2, <2>1, OneTaken
  <2>3. Following[stage] = "start" /\ Requests("start") = <<Plain("PLAY_START")>>
    BY <1>1, <1>8, NextWait
  <2>4. stage' = "start" /\ Is1(toPico', Plain("PLAY_START"))
    BY <1>1, <1>2, <2>3, RequestWritten
  <2>5. Asked("ARMED", ~long, Plain("PLAY_START"))'
    BY <1>2, <1>8, <2>1, <2>2, <2>4 DEF Resting, Asked
  <2> QED
    BY <1>2, <2>4, <2>5, AtRunning, AtWait, StagesApart
<1>9. CASE stage \in {"pass", "cleanup"}
  <2>1. Resting("PASS", FALSE) /\ Is1(Way, Passed)
    BY <1>9, OpeningAnswers, AnswerSettles
  <2>2. Is0(Way')
    BY <1>2, <2>1, OneTaken
  <2>3. Following[stage] = "idle" /\ Requests("idle") = <<>>
    BY <1>1, <1>9, NextWait
  <2>4. stage' = "idle" /\ Is0(toPico')
    BY <1>1, <1>2, <2>3, RequestWritten
  <2>5. (Resting("PASS", FALSE) /\ Is0(Way))'
    BY <1>2, <1>9, <2>1, <2>2, <2>4 DEF Resting, Asked
  <2> QED
    BY <1>2, <2>4, <2>5, AtOpening, AtWait, StagesApart
<1> QED
  BY <1>3, <1>4, <1>5, <1>6, <1>7, <1>8, <1>9

LEMMA RunningTracks ==
    ASSUME SessionInv, OnTrack, Answered, stage \in {"start", "started", "stream"}
    PROVE  OnTrack' /\ UNCHANGED counts
<1>1. /\ IsAnswer(1) /\ Is0(toPico) /\ toPico \in Seq(Request) /\ long \in BOOLEAN /\ ~Collects
  BY RunningAnswers, AnswerSettles DEF Resting, SessionInv, LinkTypes, ControlTypes, Collects
<1>2. /\ stage' = Following[stage] /\ toPico' = toPico \o Requests(Following[stage])
      /\ Steady'
      /\ UNCHANGED <<mode, closed, long, counts>> /\ Finished' = Finished /\ Metrics' = Metrics
      /\ Removed(Way', Way, 1) /\ Len(Way') \in Nat
  BY <1>1, Taken
<1>3. CASE stage = "start" /\ Resting("PLAYING", ~long) /\ Is2(Way, Playing, Started)
  <2>1. Is1(Way', Started)
    BY <1>2, <1>3, OneTaken
  <2>2. Following[stage] = "started" /\ Requests("started") = <<>>
    BY <1>1, <1>3, NextWait
  <2>3. stage' = "started" /\ Is0(toPico')
    BY <1>1, <1>2, <2>2, RequestWritten
  <2>4. (Resting("PLAYING", ~long) /\ Is1(Way, Started))'
    BY <1>2, <1>3, <2>1, <2>3 DEF Resting, Started
  <2> QED
    BY <1>2, <2>3, <2>4, AtRunning, AtWait, StagesApart
<1>4. CASE stage = "start" /\ ~long /\ Resting("ARMED", FALSE)
           /\ Is5(Way, Playing, Started, Finished, Metrics, Over)
  <2>1. Is4(Way', Started, Finished, Metrics, Over)
    BY <1>2, <1>4, OneTaken
  <2>2. Following[stage] = "started" /\ Requests("started") = <<>>
    BY <1>1, <1>4, NextWait
  <2>3. stage' = "started" /\ Is0(toPico')
    BY <1>1, <1>2, <2>2, RequestWritten
  <2>4. (~long /\ Resting("ARMED", FALSE) /\ Is4(Way, Started, Finished, Metrics, Over))'
    BY <1>2, <1>4, <2>1, <2>3 DEF Resting, Started, Over
  <2> QED
    BY <1>2, <2>3, <2>4, AtRunning, AtWait, StagesApart
<1>5. CASE stage = "started" /\ Resting("PLAYING", ~long) /\ Is1(Way, Started)
  <2>1. Is0(Way')
    BY <1>2, <1>5, OneTaken
  <2>2. CASE long
    <3>1. Following[stage] = "stream" /\ Requests("stream") = <<Plain("QUEUE_EVENT")>>
      BY <1>1, <1>5, <2>2, NextWait
    <3>2. stage' = "stream" /\ Is1(toPico', Plain("QUEUE_EVENT"))
      BY <1>1, <1>2, <3>1, RequestWritten
    <3>3. long' /\ Asked("PLAYING", FALSE, Plain("QUEUE_EVENT"))'
      BY <1>2, <1>5, <2>1, <2>2, <3>2 DEF Resting, Asked
    <3> QED
      BY <1>2, <3>2, <3>3, AtRunning, AtWait, StagesApart
  <2>3. CASE ~long
    <3>1. Following[stage] = "outcome" /\ Requests("outcome") = <<>>
      BY <1>1, <1>5, <2>3, NextWait
    <3>2. stage' = "outcome" /\ Is0(toPico')
      BY <1>1, <1>2, <3>1, RequestWritten
    <3>3. (~long /\ Resting("PLAYING", TRUE) /\ Is0(Way))'
      BY <1>2, <1>5, <2>1, <2>3, <3>2 DEF Resting
    <3> QED
      BY <1>2, <3>2, <3>3, AtRunning, AtWait, StagesApart
  <2> QED
    BY <1>1, <2>2, <2>3
<1>6. CASE stage = "started" /\ ~long /\ Resting("ARMED", FALSE)
           /\ Is4(Way, Started, Finished, Metrics, Over)
  <2>1. Is3(Way', Finished, Metrics, Over)
    BY <1>2, <1>6, OneTaken
  <2>2. Following[stage] = "outcome" /\ Requests("outcome") = <<>>
    BY <1>1, <1>6, NextWait
  <2>3. stage' = "outcome" /\ Is0(toPico')
    BY <1>1, <1>2, <2>2, RequestWritten
  <2>4. (~long /\ Resting("ARMED", FALSE) /\ Is3(Way, Finished, Metrics, Over))'
    BY <1>2, <1>6, <2>1, <2>3 DEF Resting, Over
  <2> QED
    BY <1>2, <2>3, <2>4, AtRunning, AtWait, StagesApart
<1>7. CASE stage = "stream"
  <2>1. long /\ Resting("PLAYING", FALSE) /\ Is1(Way, Room("PLAYING"))
    BY <1>7, RunningAnswers, AnswerSettles
  <2>2. Is0(Way')
    BY <1>2, <2>1, OneTaken
  <2>3. Following[stage] = "outcome" /\ Requests("outcome") = <<Plain("QUEUE_END")>>
    BY <1>1, <1>7, <2>1, NextWait
  <2>4. stage' = "outcome" /\ Is1(toPico', Plain("QUEUE_END"))
    BY <1>1, <1>2, <2>3, RequestWritten
  <2>5. long' /\ Asked("PLAYING", FALSE, Plain("QUEUE_END"))'
    BY <1>2, <2>1, <2>2, <2>4 DEF Resting, Asked
  <2> QED
    BY <1>2, <2>4, <2>5, AtRunning, AtWait, StagesApart
<1> QED
  BY <1>3, <1>4, <1>5, <1>6, <1>7, RunningAnswers, AnswerSettles

LEMMA EndingTracks ==
    ASSUME SessionInv, OnTrack, Answered, stage \in {"outcome", "metrics", "ended"}
    PROVE  OnTrack' /\ UNCHANGED counts
<1>1. /\ IsAnswer(Place) /\ Resting("ARMED", FALSE) /\ Is0(toPico) /\ toPico \in Seq(Request)
      /\ long \in BOOLEAN
  BY EndingAnswers, AnswerSettles DEF Resting, SessionInv, LinkTypes, ControlTypes
<1>2. /\ stage' = Following[stage] /\ toPico' = toPico \o Requests(Following[stage])
      /\ Steady'
      /\ UNCHANGED <<mode, closed, long, counts>> /\ Finished' = Finished /\ Metrics' = Metrics
      /\ IF Collects THEN Is0(Way') ELSE Removed(Way', Way, Place) /\ Len(Way') \in Nat
  BY <1>1, Taken
<1>3. Place = IF long THEN 2 ELSE 1
  BY DEF Place
<1>4. Over' = Over /\ Room("PLAYING")' = Room("PLAYING")
  BY DEF Over, Room
<1>5. CASE stage = "outcome"
  <2>1. ~Collects
    BY <1>5 DEF Collects
  <2>2. IF long THEN Is3(Way', Room("PLAYING"), Metrics, Over) ELSE Is2(Way', Metrics, Over)
    <3>1. IF long THEN Is4(Way, Room("PLAYING"), Finished, Metrics, Over)
                  ELSE Is3(Way, Finished, Metrics, Over)
      BY <1>5, EndingAnswers, AnswerSettles
    <3>2. Removed(Way', Way, Place) /\ Len(Way') \in Nat /\ long \in BOOLEAN
      BY <1>1, <1>2, <2>1
    <3>3. CASE long
      BY <1>3, <3>1, <3>2, <3>3, SecondTaken
    <3>4. CASE ~long
      BY <1>3, <3>1, <3>2, <3>4, OneTaken
    <3> QED
      BY <3>3, <3>4
  <2>3. Following[stage] = "metrics" /\ Requests("metrics") = <<>>
    BY <1>1, <1>5, NextWait
  <2>4. stage' = "metrics" /\ Is0(toPico')
    BY <1>1, <1>2, <2>3, RequestWritten
  <2>5. Resting("ARMED", FALSE)'
    BY <1>1, <1>2, <2>4 DEF Resting
  <2>6. (IF long THEN Is3(Way, Room("PLAYING"), Metrics, Over) ELSE Is2(Way, Metrics, Over))'
    BY <1>2, <1>4, <2>2
  <2> QED
    BY <1>2, <2>4, <2>5, <2>6, AtEnding, AtWait, StagesApart
<1>6. CASE stage = "metrics"
  <2>1. ~Collects
    BY <1>6 DEF Collects
  <2>2. IF long THEN Is2(Way', Room("PLAYING"), Over) ELSE Is1(Way', Over)
    <3>1. IF long THEN Is3(Way, Room("PLAYING"), Metrics, Over) ELSE Is2(Way, Metrics, Over)
      BY <1>6, EndingAnswers, AnswerSettles
    <3>2. Removed(Way', Way, Place) /\ Len(Way') \in Nat /\ long \in BOOLEAN
      BY <1>1, <1>2, <2>1
    <3>3. CASE long
      BY <1>3, <3>1, <3>2, <3>3, SecondTaken
    <3>4. CASE ~long
      BY <1>3, <3>1, <3>2, <3>4, OneTaken
    <3> QED
      BY <3>3, <3>4
  <2>3. Following[stage] = "ended" /\ Requests("ended") = <<>>
    BY <1>1, <1>6, NextWait
  <2>4. stage' = "ended" /\ Is0(toPico')
    BY <1>1, <1>2, <2>3, RequestWritten
  <2>5. Resting("ARMED", FALSE)'
    BY <1>1, <1>2, <2>4 DEF Resting
  <2>6. (IF long THEN Is2(Way, Room("PLAYING"), Over) ELSE Is1(Way, Over))'
    BY <1>2, <1>4, <2>2
  <2> QED
    BY <1>2, <2>4, <2>5, <2>6, AtEnding, AtWait, StagesApart
<1>7. CASE stage = "ended"
  <2>1. Is0(Way')
    BY <1>2, <1>7 DEF Collects
  <2>2. Following[stage] = "pass" /\ Requests("pass") = <<SetMode("PASS")>>
    BY <1>1, <1>7, NextWait
  <2>3. stage' = "pass" /\ Is1(toPico', SetMode("PASS"))
    BY <1>1, <1>2, <2>2, RequestWritten
  <2>4. Asked("ARMED", FALSE, SetMode("PASS"))'
    BY <1>1, <1>2, <2>1, <2>3 DEF Resting, Asked
  <2> QED
    BY <1>2, <2>3, <2>4, AtEnding, AtWait, StagesApart
<1> QED
  BY <1>5, <1>6, <1>7

LEMMA MissedUnanswered ==
    ASSUME SessionInv, Answering # {}
    PROVE  ~(stage = "abort" /\ Missed)
<1> SUFFICES ASSUME stage = "abort", Missed PROVE FALSE
  OBVIOUS
<1>1. PICK k \in 1..Len(Way) : Meets(Way[k])
  BY SomeMeets DEF SessionInv
<1>2. Awaits[stage].type = "PLAY_ABORTED"
  BY Needs DEF Plain
<1> QED
  BY <1>1, <1>2 DEF Meets, Missed

LEMMA StoppingTracks ==
    ASSUME SessionInv, OnTrack, Answered, stage \in Aborting
    PROVE  OnTrack' /\ UNCHANGED counts
<1>1. /\ Resting("ARMED", FALSE) /\ Is0(toPico) /\ toPico \in Seq(Request) /\ long \in BOOLEAN
      /\ \/ IsAnswer(1) /\ CutAlone
         \/ IsAnswer(2) /\ CutBehind
  BY StoppingAnswers, MissedUnanswered, AnswerSettles
  DEF Answered, Resting, SessionInv, LinkTypes, ControlTypes
<1>2. /\ stage' = Following[stage] /\ toPico' = toPico \o Requests(Following[stage])
      /\ Steady' /\ UNCHANGED <<mode, closed, counts>> /\ Metrics' = Metrics
      /\ Collects => Is0(Way')
  BY <1>1, Taken
<1>3. Gone' = Gone /\ Room("PLAYING")' = Room("PLAYING")
  BY DEF Gone, Room
<1>4. CASE stage = "abort"
  <2>1. Is2(Way', Metrics, Gone) \/ Is3(Way', Room("PLAYING"), Metrics, Gone)
    <3>0. ~Collects
      BY <1>4 DEF Collects
    <3>1. CASE IsAnswer(1) /\ CutAlone
      BY <1>4, <3>0, <3>1, Taken, OneTaken DEF CutAlone
    <3>2. CASE IsAnswer(2) /\ CutBehind
      BY <1>4, <3>0, <3>2, Taken, SecondTaken DEF CutBehind
    <3> QED
      BY <1>1, <3>1, <3>2
  <2>2. Following[stage] = "partial" /\ Requests("partial") = <<>>
    BY <1>1, <1>4, NextWait
  <2>3. stage' = "partial" /\ Is0(toPico')
    BY <1>1, <1>2, <2>2, RequestWritten
  <2>4. Resting("ARMED", FALSE)'
    BY <1>1, <1>2, <2>3 DEF Resting
  <2>5. (Is2(Way, Metrics, Gone) \/ Is3(Way, Room("PLAYING"), Metrics, Gone))'
    BY <1>2, <1>3, <2>1
  <2> QED
    BY <1>2, <2>3, <2>4, <2>5, AtStopping, AtWait, StagesApart
<1>5. CASE stage = "partial"
  <2>1. Is1(Way', Gone) \/ Is2(Way', Room("PLAYING"), Gone)
    <3>0. ~Collects
      BY <1>5 DEF Collects
    <3>1. CASE IsAnswer(1) /\ CutAlone
      BY <1>5, <3>0, <3>1, Taken, OneTaken DEF CutAlone
    <3>2. CASE IsAnswer(2) /\ CutBehind
      BY <1>5, <3>0, <3>2, Taken, SecondTaken DEF CutBehind
    <3> QED
      BY <1>1, <3>1, <3>2
  <2>2. Following[stage] = "aborted" /\ Requests("aborted") = <<>>
    BY <1>1, <1>5, NextWait
  <2>3. stage' = "aborted" /\ Is0(toPico')
    BY <1>1, <1>2, <2>2, RequestWritten
  <2>4. Resting("ARMED", FALSE)'
    BY <1>1, <1>2, <2>3 DEF Resting
  <2>5. (Is1(Way, Gone) \/ Is2(Way, Room("PLAYING"), Gone))'
    BY <1>3, <2>1
  <2> QED
    BY <1>2, <2>3, <2>4, <2>5, AtStopping, AtWait, StagesApart
<1>6. CASE stage = "aborted"
  <2>1. Is0(Way')
    BY <1>2, <1>6 DEF Collects
  <2>2. Following[stage] = "cleanup" /\ Requests("cleanup") = <<SetMode("PASS")>>
    BY <1>1, <1>6, NextWait
  <2>3. stage' = "cleanup" /\ Is1(toPico', SetMode("PASS"))
    BY <1>1, <1>2, <2>2, RequestWritten
  <2>4. Asked("ARMED", FALSE, SetMode("PASS"))'
    BY <1>1, <1>2, <2>1, <2>3 DEF Resting, Asked
  <2> QED
    BY <1>2, <2>3, <2>4, AtEnding, AtWait, StagesApart
<1> QED
  BY <1>4, <1>5, <1>6, StagesApart

LEMMA AnsweredTracks ==
    ASSUME SessionInv, OnTrack, Answered
    PROVE  OnTrack' /\ UNCHANGED counts
<1>1. stage \in DOMAIN Awaits
  BY DEF Answered, Waiting
<1> QED
  BY <1>1, StageNames, StagesApart, OpeningTracks, RunningTracks, EndingTracks, StoppingTracks

\* The frame that ends the wait, whichever it is.
LEMMA SomeAnswer ==
    ASSUME SessionInv, OnTrack, Waiting, Settled, ~(stage = "abort" /\ Missed)
    PROVE  \E k \in 1..Len(Way) : IsAnswer(k)
<1>1. stage \in DOMAIN Awaits
  BY DEF Waiting
<1>2. \E k : IsAnswer(k)
  BY <1>1, StageNames, StagesApart, OpeningAnswers, RunningAnswers, EndingAnswers, StoppingAnswers
<1> QED
  BY <1>2 DEF IsAnswer

\* While the session waits, its frame is still under way, unless PLAY_ABORT came
\* too late for the run.
LEMMA FrameIsComing ==
    ASSUME SessionInv, OnTrack, Waiting, Answering = {}, ~(stage = "abort" /\ Missed)
    PROVE  ~Starved
<1> SUFFICES ASSUME Starved PROVE FALSE
  OBVIOUS
<1>1. PICK k \in 1..Len(Way) : Meets(Way[k])
  BY SomeAnswer DEF Settled, IsAnswer
<1> DEFINE S == Answer(runs)
<1>2. pending \in Seq(S) /\ fromPico = <<>>
  BY DEF SessionInv, LinkTypes, Starved
<1> HIDE DEF S
<1>3. Way = pending /\ DOMAIN pending = 1..Len(pending)
  BY <1>2 DEF Way
<1>4. k \in Answering
  BY <1>1, <1>3 DEF Answering, Meets
<1> QED
  BY <1>4

\* The wait of an abort that came too late ends, and PASS is asked for.
LEMMA TimesOutTracks ==
    ASSUME SessionInv, OnTrack, TimesOut
    PROVE  OnTrack'
<1>1. /\ Waiting /\ Answering = {} /\ Starved /\ UNCHANGED <<mode, closed, runs, fromPico, stops>>
      /\ CanRetry \/ Fail(pending)
  BY DEF TimesOut, GivesUp, pico
<1>2. stage = "abort" /\ Missed
  BY <1>1, FrameIsComing
<1>3. ~CanRetry /\ Cleanup(stage) = "cleanup" /\ stage \in Aborting
  BY <1>2 DEF CanRetry, Exchanges, Cleanup, Streaming, Aborting
<1>4. /\ stage' = "cleanup" /\ toPico' = toPico \o Requests("cleanup") /\ pending' = <<>>
      /\ Requests("cleanup") = <<SetMode("PASS")>>
  BY <1>1, <1>3 DEF Fail, Proceed, Leftover, Requests
<1>5. Is0(toPico) /\ toPico \in Seq(Request) /\ fromPico = <<>>
  BY <1>1 DEF Starved, Is0, SessionInv, LinkTypes
<1>6. Is1(toPico', SetMode("PASS"))
  BY <1>4, <1>5, RequestWritten
<1>7. Is0(Way')
  BY <1>1, <1>4, <1>5 DEF Way, Is0
<1>8. Asked("ARMED", FALSE, SetMode("PASS"))'
  BY <1>1, <1>2, <1>6, <1>7 DEF Asked, Missed, OnTrack, Steady
<1>9. Steady'
  BY <1>1, <1>3 DEF OnTrack, Steady
<1> QED
  BY <1>4, <1>8, <1>9, AtEnding, AtWait

LEMMA AbortAsked ==
    ASSUME toPico \in Seq(Request), toPico' = toPico \o Requests("abort")
    PROVE  /\ Is0(toPico) => Is1(toPico', Abort)
           /\ \A x : Is1(toPico, x) => Is2(toPico', x, Abort)
<1> DEFINE S == Request
<1>1. toPico \in Seq(S) /\ Abort \in S /\ toPico' = toPico \o <<Abort>>
  BY DEF Requests, Abort, Plain, Request
<1> HIDE DEF S, Abort
<1>2. toPico' = Append(toPico, Abort)
  BY <1>1
<1>3. Longer(toPico', toPico, Abort)
  BY <1>1, <1>2, AppendIsLonger
<1> QED
  BY <1>3 DEF Longer, Is0, Is1, Is2

\* A stop request ends a wait of the run: PLAY_ABORT follows what was asked.
LEMMA CancelledTracks ==
    ASSUME SessionInv, OnTrack, Cancelled, stage # "pass"
    PROVE  OnTrack'
<1>1. /\ stage \in {"stream", "outcome", "metrics", "ended"} /\ stage \in Streaming /\ cancel
      /\ UNCHANGED <<mode, closed, runs, fromPico, stops>> /\ (CanRetry \/ Fail(pending))
      /\ toPico \in Seq(Request) /\ long \in BOOLEAN
  BY StagesApart DEF Cancelled, GivesUp, pico, SessionInv, ControlTypes, LinkTypes
<1>2. ~CanRetry /\ Cleanup(stage) = "abort" /\ stage \notin Aborting
  BY <1>1 DEF CanRetry, Exchanges, Cleanup, Aborting
<1>3. stage' = "abort" /\ toPico' = toPico \o Requests("abort") /\ pending' = pending
  BY <1>1, <1>2 DEF Fail, Proceed, Leftover
<1>4. Way' = Way
  BY <1>1, <1>3 DEF Way
<1>5. Steady'
  BY <1>1 DEF OnTrack, Steady
<1>6. \/ Is0(Way) /\ \E type \in {"QUEUE_EVENT", "QUEUE_END"} :
            Asked("PLAYING", FALSE, Plain(type))
      \/ /\ mode = "PLAYING" /\ Is0(toPico)
         /\ Is0(Way) \/ Is1(Way, Room("PLAYING"))
      \/ /\ Resting("ARMED", FALSE)
         /\ \/ Is3(Way, Finished, Metrics, Over) \/ Is4(Way, Room("PLAYING"), Finished, Metrics, Over)
            \/ Is2(Way, Metrics, Over) \/ Is3(Way, Room("PLAYING"), Metrics, Over)
            \/ Is1(Way, Over) \/ Is2(Way, Room("PLAYING"), Over)
  BY <1>1 DEF OnTrack, Running, Ending, Resting, Asked
<1>7. CASE \E type \in {"QUEUE_EVENT", "QUEUE_END"} : Asked("PLAYING", FALSE, Plain(type))
  <2>1. PICK type \in {"QUEUE_EVENT", "QUEUE_END"} : Asked("PLAYING", FALSE, Plain(type))
    BY <1>7
  <2>2. mode = "PLAYING" /\ closed = FALSE /\ Is0(Way) /\ Is2(toPico', Plain(type), Abort)
    BY <1>1, <1>3, <2>1, AbortAsked DEF Asked
  <2>3. Cutting'
    BY <1>1, <1>4, <2>2 DEF Cutting, Abort, Plain
  <2> QED
    BY <1>3, <1>5, <2>3, AtStopping, AtWait, StagesApart
<1>8. CASE mode = "PLAYING" /\ Is0(toPico) /\ (Is0(Way) \/ Is1(Way, Room("PLAYING")))
  <2>1. Is1(toPico', Abort)
    BY <1>1, <1>3, <1>8, AbortAsked
  <2>2. Cutting'
    BY <1>1, <1>4, <1>8, <2>1 DEF Cutting, Abort, Room
  <2> QED
    BY <1>3, <1>5, <2>2, AtStopping, AtWait, StagesApart
<1>9. CASE /\ Resting("ARMED", FALSE)
           /\ \/ Is3(Way, Finished, Metrics, Over) \/ Is4(Way, Room("PLAYING"), Finished, Metrics, Over)
              \/ Is2(Way, Metrics, Over) \/ Is3(Way, Room("PLAYING"), Metrics, Over)
              \/ Is1(Way, Over) \/ Is2(Way, Room("PLAYING"), Over)
  <2>1. \A i \in 1..Len(Way) : Way[i] \in {Room("PLAYING"), Finished, Metrics, Over}
    BY <1>9 DEF Is1, Is2, Is3, Is4
  <2>2. \A x \in {Room("PLAYING"), Finished, Metrics, Over} : x.type # "PLAY_ABORTED" /\ ~IsError(x)
    BY FrameKinds DEF IsError
  <2>3. Is1(toPico', Abort)
    BY <1>1, <1>3, <1>9, AbortAsked DEF Resting
  <2>4. mode = "ARMED" /\ closed = FALSE
    BY <1>9 DEF Resting
  <2>5. \A i \in 1..Len(Way) : Way[i].type # "PLAY_ABORTED" /\ ~IsError(Way[i])
    BY <2>1, <2>2
  <2>6. Missed'
    BY <1>1, <1>4, <2>3, <2>4, <2>5 DEF Missed, Abort, IsError
  <2> QED
    BY <1>3, <1>5, <2>6, AtStopping, AtWait, StagesApart
<1> QED
  BY <1>6, <1>7, <1>8, <1>9

LEMMA ReadTracks ==
    ASSUME SessionInv, OnTrack, ReadChunk
    PROVE  OnTrack'
<1>1. UNCHANGED <<pico, toPico, control, counts>>
  BY DEF ReadChunk
<1>2. Way' = Way
  BY ChunkMoves DEF ReadChunk, SessionInv, LinkTypes
<1>3. /\ \A s, o, r : Asked(s, o, r)' = Asked(s, o, r)
      /\ \A s, o : Resting(s, o)' = Resting(s, o)
      /\ Finished' = Finished /\ Metrics' = Metrics /\ Cut' = Cut
      /\ UNCHANGED <<stage, long, failure, cancel, closed, stops>>
  BY <1>1, <1>2 DEF Asked, Resting, Finished, Metrics, Cut, OfRun, pico, control, counts
<1>4. Opening'
  BY <1>2, <1>3 DEF OnTrack, Opening, Asked, Resting
<1>5. Running'
  BY <1>1, <1>2, <1>3 DEF OnTrack, Running, Asked, Resting, pico
<1>6. Ending'
  BY <1>1, <1>2, <1>3 DEF OnTrack, Ending, Asked, Resting, pico
<1>7. Stopping'
  <2>1. Cutting' = Cutting /\ Missed' = Missed
    BY <1>1, <1>2 DEF Cutting, Missed, Room, Abort, IsError, pico
  <2>2. Room("PLAYING")' = Room("PLAYING") /\ Gone' = Gone
    BY DEF Room, Gone
  <2> QED
    BY <1>2, <1>3, <2>1, <2>2 DEF OnTrack, Stopping
<1>8. Steady'
  BY <1>3 DEF OnTrack, Steady
<1> QED
  BY <1>4, <1>5, <1>6, <1>7, <1>8 DEF OnTrack

LEMMA BeginTracks ==
    ASSUME SessionInv, OnTrack, StartSession \/ SafeStop
    PROVE  OnTrack' /\ UNCHANGED counts
<1>1. PICK next \in {"arm", "cleanup"} : Begin(next)
  BY DEF StartSession, SafeStop
<1>2. /\ stage = "idle" /\ stage' = next /\ toPico' = toPico \o Requests(next)
      /\ Steady' /\ UNCHANGED <<pico, fromPico, pending, counts>>
  BY <1>1 DEF Begin, Proceed, OnTrack, Steady, Aborting, pico, counts
<1>3. Resting("PASS", FALSE) /\ Is0(Way) /\ toPico \in Seq(Request) /\ Is0(toPico)
  BY <1>2 DEF OnTrack, Opening, Resting, SessionInv, LinkTypes
<1>4. Way' = Way
  BY <1>2 DEF Way
<1>5. CASE next = "arm"
  <2>1. Requests(next) = <<SetMode("ARMED")>>
    BY <1>5 DEF Requests
  <2>2. Is1(toPico', SetMode("ARMED"))
    BY <1>2, <1>3, <2>1, RequestWritten
  <2>3. Asked("PASS", FALSE, SetMode("ARMED"))'
    BY <1>2, <1>3, <1>4, <2>2 DEF Asked, Resting, pico
  <2> QED
    BY <1>2, <1>5, <2>3, AtOpening, AtWait, StagesApart
<1>6. CASE next = "cleanup"
  <2>1. Requests(next) = <<SetMode("PASS")>>
    BY <1>6 DEF Requests
  <2>2. Is1(toPico', SetMode("PASS"))
    BY <1>2, <1>3, <2>1, RequestWritten
  <2>3. Asked("PASS", FALSE, SetMode("PASS"))'
    BY <1>2, <1>3, <1>4, <2>2 DEF Asked, Resting, pico
  <2> QED
    BY <1>2, <1>6, <2>3, AtEnding, AtWait, StagesApart
<1> QED
  BY <1>2, <1>5, <1>6

LEMMA StoppingCommand ==
    ASSUME SessionInv, OnTrack, HandleCommand, stage \in Aborting
    PROVE  OnTrack' /\ UNCHANGED counts
<1>1. ~Is0(toPico)
  BY EmptySeq DEF HandleCommand, SessionInv, LinkTypes, Is0
<1>2. stage = "abort" /\ (Cutting \/ Missed)
  BY <1>1, StagesApart DEF OnTrack, Stopping, Resting
<1>3. UNCHANGED <<stage, counts>> /\ (closed' \in BOOLEAN => Steady')
  BY DEF HandleCommand, control, counts, OnTrack, Steady
<1>4. Room("PLAYING")' = Room("PLAYING") /\ Abort' = Abort
  BY DEF Room, Abort
<1>5. CASE /\ mode = "PLAYING" /\ ~closed /\ Is0(Way)
           /\ \E type \in {"QUEUE_EVENT", "QUEUE_END"} : Is2(toPico, Plain(type), Abort)
  <2>1. PICK type \in {"QUEUE_EVENT", "QUEUE_END"} : Is2(toPico, Plain(type), Abort)
    BY <1>5
  <2>2. Head(toPico) = Plain(type) /\ Is1(toPico', Abort)
    BY <2>1, FirstOfTwo
  <2>3. type \in QueueCommands /\ type # "QUEUE_CLEAR" /\ closed = FALSE
    BY <1>5, <2>1 DEF QueueCommands, OnTrack, Steady
  <2>4. mode' = "PLAYING" /\ closed' = (type = "QUEUE_END") /\ Is1(Way', Room("PLAYING"))
    BY <1>5, <2>2, <2>3, QueueSaid
  <2>5. closed' \in BOOLEAN
    BY <2>4
  <2>6. Cutting'
    BY <1>4, <2>2, <2>4 DEF Cutting
  <2> QED
    BY <1>2, <1>3, <2>5, <2>6, AtStopping, AtWait, StagesApart
<1>6. CASE mode = "PLAYING" /\ Is1(toPico, Abort) /\ (Is0(Way) \/ Is1(Way, Room("PLAYING")))
  <2>1. Head(toPico) = Abort /\ Is0(toPico')
    BY <1>6, LastOfOne
  <2>2. /\ mode' = "ARMED" /\ closed' = FALSE /\ UNCHANGED runs
        /\ \E f : Halves(Way', Way, f) /\ Is3(f, Cut, Metrics, Gone)
    BY <1>6, <2>1, AbortTold
  <2>3. Is3(Way', Cut, Metrics, Gone) \/ Is4(Way', Room("PLAYING"), Cut, Metrics, Gone)
    BY <1>6, <2>2, SomeAdded
  <2>4. Cut' = Cut /\ Metrics' = Metrics /\ Gone' = Gone
    BY <2>2 DEF Cut, Metrics, Gone, OfRun
  <2>5. Resting("ARMED", FALSE)' /\ closed' \in BOOLEAN
    BY <2>1, <2>2 DEF Resting
  <2>6. (Is3(Way, Cut, Metrics, Gone) \/ Is4(Way, Room("PLAYING"), Cut, Metrics, Gone))'
    BY <1>4, <2>3, <2>4
  <2> QED
    BY <1>2, <1>3, <2>5, <2>6, AtStopping, AtWait, StagesApart
<1>7. CASE Missed
  <2>1. Is1(toPico, Abort) /\ mode = "ARMED"
    BY <1>1, <1>7 DEF Missed
  <2>2. Head(toPico) = Abort /\ Is0(toPico')
    BY <2>1, LastOfOne
  <2>3. mode' = "ARMED" /\ closed' = FALSE
    BY <2>1, <2>2, AbortTold
  <2>4. PICK f : Halves(Way', Way, f) /\ Is1(f, Gone)
    BY <2>1, <2>2, AbortTold
  <2>5. \A i \in 1..Len(Way') : Way'[i] = Gone \/ \E j \in 1..Len(Way) : Way'[i] = Way[j]
    <3> SUFFICES ASSUME NEW i \in 1..Len(Way') PROVE Way'[i] = Gone \/ \E j \in 1..Len(Way) : Way'[i] = Way[j]
      OBVIOUS
    <3>1. Len(Way) \in Nat /\ Len(Way') = Len(Way) + 1
      BY <2>4, WayTypes DEF SessionInv, Halves, Is1
    <3>2. CASE i =< Len(Way)
      BY <2>4, <3>1, <3>2 DEF Halves
    <3>3. CASE i > Len(Way)
      <4>1. i = Len(Way) + 1
        BY <3>1, <3>3
      <4> QED
        BY <2>4, <4>1 DEF Halves, Is1
    <3> QED
      BY <3>1, <3>2, <3>3
  <2>6. Gone.type # "PLAY_ABORTED" /\ ~IsError(Gone)
    BY FrameKinds DEF IsError
  <2>7. \A i \in 1..Len(Way') : Way'[i].type # "PLAY_ABORTED" /\ ~IsError(Way'[i])
    BY <1>7, <2>5, <2>6 DEF Missed
  <2>8. Missed' /\ closed' \in BOOLEAN
    BY <2>2, <2>3, <2>7 DEF Missed, IsError
  <2> QED
    BY <1>2, <1>3, <2>8, AtStopping, AtWait, StagesApart
<1> QED
  BY <1>2, <1>5, <1>6, <1>7 DEF Cutting

LEMMA CommandTracks ==
    ASSUME SessionInv, OnTrack, HandleCommand
    PROVE  OnTrack' /\ UNCHANGED counts
<1>1. ~Is0(toPico)
  BY EmptySeq DEF HandleCommand, SessionInv, LinkTypes, Is0
<1>2. \A state, over : ~Resting(state, over)
  BY <1>1 DEF Resting
<1>3. UNCHANGED <<control, counts>> /\ long \in BOOLEAN /\ stage \in Stages
  BY DEF HandleCommand, SessionInv, ControlTypes
<1>4. UNCHANGED <<stage, long, counts>> /\ (closed' \in BOOLEAN => Steady')
  BY <1>3 DEF control, counts, OnTrack, Steady
<1>5. CASE stage = "arm"
  <2>1. Asked("PASS", FALSE, SetMode("ARMED"))
    BY <1>2, <1>5 DEF OnTrack, Opening
  <2>2. Resting("ARMED", FALSE)' /\ Is1(Way', ModeChanged("ARMED", "OK"))
    BY <2>1, ModeIsSet
  <2>3. closed' \in BOOLEAN
    BY <2>2 DEF Resting
  <2> QED
    BY <1>4, <1>5, <2>2, <2>3, AtOpening, AtWait
<1>6. CASE stage \in {"clear", "feed"}
  <2>1. PICK type \in {"QUEUE_CLEAR", "QUEUE_EVENT"} : Asked("ARMED", FALSE, Plain(type))
    BY <1>2, <1>6 DEF OnTrack, Opening
  <2>2. type \in QueueCommands /\ type # "QUEUE_END"
    BY DEF QueueCommands
  <2>3. Resting("ARMED", type = "QUEUE_END")' /\ Is1(Way', Room("ARMED"))
    BY <2>1, <2>2, QueueTold
  <2>4. Resting("ARMED", FALSE)' /\ closed' \in BOOLEAN
    BY <2>2, <2>3 DEF Resting
  <2> QED
    BY <1>4, <1>6, <2>3, <2>4, AtOpening, AtWait DEF Room
<1>7. CASE stage = "ready"
  <2>1. ~long /\ Asked("ARMED", FALSE, Plain("QUEUE_END"))
    BY <1>2, <1>7 DEF OnTrack, Opening
  <2>2. Resting("ARMED", TRUE)' /\ Is2(Way', Ready, Room("ARMED"))
    BY <2>1, QueueEndTold
  <2>3. closed' \in BOOLEAN
    BY <2>2 DEF Resting
  <2> QED
    BY <1>4, <1>7, <2>1, <2>2, <2>3, AtOpening, AtWait DEF Room, Ready
<1>8. CASE stage = "start"
  <2>1. Asked("ARMED", ~long, Plain("PLAY_START"))
    BY <1>2, <1>8 DEF OnTrack, Running
  <2> DEFINE over == ~long
  <2>2. Asked("ARMED", over, Plain("PLAY_START")) /\ over \in BOOLEAN
    BY <2>1, <1>3
  <2>3. mode' = "PLAYING" /\ closed' = ~long /\ Is0(toPico') /\ Is2(Way', Playing, Started)
    BY <2>2, StartTold DEF Resting
  <2>4. (Resting("PLAYING", ~long) /\ Is2(Way, Playing, Started))' /\ closed' \in BOOLEAN
    BY <1>3, <1>4, <2>3 DEF Resting, Playing, Started
  <2> QED
    BY <1>4, <1>8, <2>4, AtRunning, AtWait
<1>9. CASE stage = "stream"
  <2>1. long /\ Asked("PLAYING", FALSE, Plain("QUEUE_EVENT")) /\ "QUEUE_EVENT" \in QueueCommands
    BY <1>2, <1>9 DEF OnTrack, Running, QueueCommands
  <2>2. Resting("PLAYING", "QUEUE_EVENT" = "QUEUE_END")' /\ Is1(Way', Room("PLAYING"))
    BY <2>1, QueueTold
  <2>3. Resting("PLAYING", FALSE)' /\ closed' \in BOOLEAN
    BY <2>2 DEF Resting
  <2> QED
    BY <1>4, <1>9, <2>1, <2>2, <2>3, AtRunning, AtWait DEF Room
<1>10. CASE stage = "outcome"
  <2>1. long /\ Asked("PLAYING", FALSE, Plain("QUEUE_END")) /\ "QUEUE_END" \in QueueCommands
    BY <1>2, <1>3, <1>10 DEF OnTrack, Running, QueueCommands
  <2>2. Resting("PLAYING", "QUEUE_END" = "QUEUE_END")' /\ Is1(Way', Room("PLAYING"))
    BY <2>1, QueueTold
  <2>3. Resting("PLAYING", TRUE)' /\ closed' \in BOOLEAN
    BY <2>2 DEF Resting
  <2> QED
    BY <1>4, <1>10, <2>1, <2>2, <2>3, AtRunning, AtWait DEF Room
<1>11. CASE stage \in {"pass", "cleanup"}
  <2>1. PICK state \in {"PASS", "ARMED"} : Asked(state, FALSE, SetMode("PASS"))
    BY <1>2, <1>11 DEF OnTrack, Ending
  <2>2. Resting("PASS", FALSE)' /\ Is1(Way', ModeChanged("PASS", "OK"))
    BY <2>1, ModeIsSet
  <2>3. closed' \in BOOLEAN
    BY <2>2 DEF Resting
  <2> QED
    BY <1>4, <1>11, <2>2, <2>3, AtEnding, AtWait DEF Passed
<1>12. CASE stage \in {"idle", "closing", "started", "metrics", "ended"}
  BY <1>2, <1>12 DEF OnTrack, Opening, Running, Ending
<1> QED
  BY <1>3, <1>5, <1>6, <1>7, <1>8, <1>9, <1>10, <1>11, <1>12, StoppingCommand, StageNames, StagesApart
  DEF Stages

\* The run is over before PLAY_ABORT arrives.
LEMMA StoppingRunEnd ==
    ASSUME SessionInv, OnTrack, RunEnds, stage \in Aborting
    PROVE  OnTrack' /\ UNCHANGED counts
<1>1. /\ mode = "PLAYING" /\ closed /\ mode' = "ARMED" /\ closed' = FALSE
      /\ UNCHANGED <<runs, toPico, control, counts>>
  BY EndTold
<1>2. PICK f : Is3(f, Finished, Metrics, Over) /\ Halves(Way', Way, f)
  BY EndTold
<1>3. UNCHANGED <<stage, counts>> /\ Steady'
  BY <1>1 DEF control, counts, OnTrack, Steady
<1>4. stage = "abort" /\ Is1(toPico, Abort) /\ (Is0(Way) \/ Is1(Way, Room("PLAYING")))
  <2>1. stage = "abort" /\ Cutting
    BY <1>1, StagesApart DEF OnTrack, Stopping, Resting, Missed
  <2> QED
    BY <1>1, <2>1 DEF Cutting
<1>5. Is3(Way', Finished, Metrics, Over) \/ Is4(Way', Room("PLAYING"), Finished, Metrics, Over)
  BY <1>2, <1>4, SomeAdded
<1>6. \A i \in 1..Len(Way') : Way'[i] \in {Room("PLAYING"), Finished, Metrics, Over}
  BY <1>5 DEF Is3, Is4
<1>7. \A x \in {Room("PLAYING"), Finished, Metrics, Over} : x.type # "PLAY_ABORTED" /\ ~IsError(x)
  BY FrameKinds DEF IsError
<1>8. \A i \in 1..Len(Way') : Way'[i].type # "PLAY_ABORTED" /\ ~IsError(Way'[i])
  BY <1>6, <1>7
<1>9. Missed'
  BY <1>1, <1>4, <1>8 DEF Missed, Abort, IsError, Is1
<1> QED
  BY <1>3, <1>4, <1>9, AtStopping, AtWait, StagesApart

LEMMA RunEndTracks ==
    ASSUME SessionInv, OnTrack, RunEnds
    PROVE  OnTrack' /\ UNCHANGED counts
<1>1. /\ mode = "PLAYING" /\ closed /\ mode' = "ARMED" /\ closed' = FALSE
      /\ UNCHANGED <<runs, toPico, control, counts>>
  BY EndTold
<1>2. PICK f : Is3(f, Finished, Metrics, Over) /\ Halves(Way', Way, f)
  BY EndTold
<1>0. CASE stage \in Aborting
  BY <1>0, StoppingRunEnd
<1> SUFFICES ASSUME stage \notin Aborting PROVE OnTrack' /\ UNCHANGED counts
  BY <1>0
<1>3. UNCHANGED <<stage, long>> /\ Steady' /\ long \in BOOLEAN /\ stage \in Stages
  BY <1>1 DEF control, counts, OnTrack, Steady, SessionInv, ControlTypes
<1>4. Finished' = Finished /\ Metrics' = Metrics /\ Over' = Over
  BY <1>1 DEF Finished, Metrics, Over, OfRun
<1>5. \/ stage = "start" /\ ~long /\ Is0(toPico) /\ Is2(Way, Playing, Started)
      \/ stage = "started" /\ ~long /\ Is0(toPico) /\ Is1(Way, Started)
      \/ stage = "outcome" /\ ~long /\ Is0(toPico) /\ Is0(Way)
      \/ stage = "outcome" /\ long /\ Is0(toPico) /\ Is1(Way, Room("PLAYING"))
  <2>1. /\ ~Asked("PASS", FALSE, SetMode("ARMED")) /\ ~Resting("ARMED", FALSE) /\ ~Resting("PASS", FALSE)
        /\ ~Resting("ARMED", TRUE) /\ ~Resting("PLAYING", FALSE)
        /\ \A over, request : ~Asked("ARMED", over, request) /\ ~Asked("PASS", over, request)
        /\ \A request : ~Asked("PLAYING", FALSE, request)
    BY <1>1 DEF Asked, Resting
  <2>2. stage \in {"start", "started", "outcome"}
    <3>1. stage \notin {"idle", "arm", "clear", "feed", "ready", "closing"}
      BY <2>1 DEF OnTrack, Opening
    <3>2. stage \notin {"metrics", "ended", "pass", "cleanup"}
      BY <2>1 DEF OnTrack, Ending
    <3>3. stage # "stream"
      BY <2>1 DEF OnTrack, Running
    <3> QED
      BY <1>3, <3>1, <3>2, <3>3, StageNames, StagesApart DEF Stages, OnTrack
  <2>3. long => ~Resting("PLAYING", ~long)
    BY <1>1 DEF Resting
  <2>4. \A state, over : Resting(state, over) => Is0(toPico)
    BY DEF Resting
  <2> QED
    BY <1>3, <2>1, <2>2, <2>3, <2>4 DEF OnTrack, Running
<1>6. Resting("ARMED", FALSE)'
  BY <1>1, <1>5 DEF Resting, Is0
<1>7. CASE stage = "start" /\ ~long /\ Is2(Way, Playing, Started)
  <2>1. Is5(Way', Playing, Started, Finished, Metrics, Over)
    BY <1>2, <1>7, SomeAdded
  <2>2. Is5(Way, Playing, Started, Finished, Metrics, Over)'
    BY <1>4, <2>1 DEF Playing, Started
  <2> QED
    BY <1>1, <1>3, <1>6, <1>7, <2>2, AtRunning, AtWait
<1>8. CASE stage = "started" /\ ~long /\ Is1(Way, Started)
  <2>1. Is4(Way', Started, Finished, Metrics, Over)
    BY <1>2, <1>8, SomeAdded
  <2>2. Is4(Way, Started, Finished, Metrics, Over)'
    BY <1>4, <2>1 DEF Started
  <2> QED
    BY <1>1, <1>3, <1>6, <1>8, <2>2, AtRunning, AtWait
<1>9. CASE stage = "outcome" /\ ~long /\ Is0(Way)
  <2>1. Is3(Way', Finished, Metrics, Over)
    BY <1>2, <1>9, SomeAdded
  <2>2. Is3(Way, Finished, Metrics, Over)'
    BY <1>4, <2>1
  <2> QED
    BY <1>1, <1>3, <1>6, <1>9, <2>2, AtRunning, AtWait
<1>10. CASE stage = "outcome" /\ long /\ Is1(Way, Room("PLAYING"))
  <2>1. Is4(Way', Room("PLAYING"), Finished, Metrics, Over)
    BY <1>2, <1>10, SomeAdded
  <2>2. Is4(Way, Room("PLAYING"), Finished, Metrics, Over)'
    BY <1>4, <2>1 DEF Room
  <2> QED
    BY <1>1, <1>3, <1>6, <1>10, <2>2, AtRunning, AtWait
<1> QED
  BY <1>1, <1>5, <1>7, <1>8, <1>9, <1>10

LEMMA StopTracks ==
    ASSUME SessionInv, OnTrack, StopRequested, stops \in Nat
    PROVE  OnTrack'
<1>1. UNCHANGED <<mode, closed, runs, toPico, fromPico, pending, stage, long>> /\ stops' = stops + 1
  BY DEF StopRequested, pico, link
<1>2. Way' = Way /\ Finished' = Finished /\ Metrics' = Metrics /\ Cut' = Cut
  BY <1>1 DEF Way, Finished, Metrics, Cut, OfRun
<1>3. Steady'
  BY <1>1 DEF OnTrack, Steady
<1>4. Opening'
  BY <1>1, <1>2 DEF OnTrack, Opening, Asked, Resting
<1>5. Running'
  BY <1>1, <1>2 DEF OnTrack, Running, Asked, Resting
<1>6. Ending'
  BY <1>1, <1>2 DEF OnTrack, Ending, Asked, Resting
<1>7. Stopping'
  <2>1. Cutting' = Cutting /\ Missed' = Missed
    BY <1>1, <1>2 DEF Cutting, Missed, Room, Abort, IsError
  <2>2. Room("PLAYING")' = Room("PLAYING") /\ Gone' = Gone
    BY DEF Room, Gone
  <2> QED
    BY <1>1, <1>2, <2>1, <2>2 DEF OnTrack, Stopping, Resting
<1> QED
  BY <1>3, <1>4, <1>5, <1>6, <1>7 DEF OnTrack

LEMMA IdleTracks ==
    ASSUME OnTrack, UNCHANGED sessionVars
    PROVE  OnTrack'
<1>1. UNCHANGED <<mode, closed, runs, toPico, fromPico, pending, stage, long, cancel, failure, stops>>
  BY DEF sessionVars, pico, link, control, counts
<1>2. Way' = Way /\ Finished' = Finished /\ Metrics' = Metrics /\ Cut' = Cut
  BY <1>1 DEF Way, Finished, Metrics, Cut, OfRun
<1>3. Steady'
  BY <1>1 DEF OnTrack, Steady
<1>4. Opening'
  BY <1>1, <1>2 DEF OnTrack, Opening, Asked, Resting
<1>5. Running'
  BY <1>1, <1>2 DEF OnTrack, Running, Asked, Resting
<1>6. Ending'
  BY <1>1, <1>2 DEF OnTrack, Ending, Asked, Resting
<1>7. Stopping'
  <2>1. Cutting' = Cutting /\ Missed' = Missed
    BY <1>1, <1>2 DEF Cutting, Missed, Room, Abort, IsError
  <2>2. Room("PLAYING")' = Room("PLAYING") /\ Gone' = Gone
    BY DEF Room, Gone
  <2> QED
    BY <1>1, <1>2, <2>1, <2>2 DEF OnTrack, Stopping, Resting
<1> QED
  BY <1>3, <1>4, <1>5, <1>6, <1>7 DEF OnTrack

-----------------------------------------------------------------------------
(* The run a session reads of is its own. *)

LEMMA RunFrames ==
    ASSUME NEW n \in Nat, NEW frame \in Answer(n),
           frame.type \notin {"PLAY_FINISHED", "PLAY_ABORTED", "PLAY_METRICS"}
    PROVE  RunOf(frame) = {}
  BY DEF Answer, RunOf

LEMMA AnswerIsOwn ==
    ASSUME SessionInv, OnTrack, Answered
    PROVE  \E k \in 1..Len(Way) :
              /\ IsAnswer(k)
              /\ RunOf(Way[k]) # {} =>
                    stage \in Streaming \cup Aborting /\ Way[k] \in {Finished, Metrics, Cut}
<1>1. Waiting /\ Settled /\ ~(stage = "abort" /\ Missed) /\ runs \in Nat
  BY AnswerSettles, MissedUnanswered DEF Answered, SessionInv, PicoTypes
<1>2. CASE stage \in {"outcome", "metrics", "ended"}
  <2>1. IsAnswer(Place) /\ Place \in 1..Len(Way) /\ Place = (IF long THEN 2 ELSE 1)
    BY <1>1, <1>2, EndingAnswers DEF IsAnswer, Place
  <2>2. stage \in {"outcome", "metrics"} => Way[Place] \in {Finished, Metrics, Cut}
    BY <1>1, <1>2, <2>1, EndingAnswers DEF Is2, Is3, Is4
  <2>3. stage = "ended" => RunOf(Way[Place]) = {}
    <3>1. stage = "ended" => Way[Place] = Over
      BY <1>1, <1>2, <2>1, EndingAnswers DEF Is1, Is2
    <3> QED
      BY <1>1, <2>1, <3>1, FrameKinds, RunFrames, WayTypes DEF SessionInv
  <2> QED
    BY <1>2, <2>1, <2>2, <2>3, StagesApart
<1>3. CASE stage \in Aborting
  <2>1. PICK k \in {1, 2} : IsAnswer(k) /\ ((k = 1 /\ CutAlone) \/ (k = 2 /\ CutBehind))
    BY <1>1, <1>3, StoppingAnswers
  <2>2. k \in 1..Len(Way)
    BY <2>1 DEF IsAnswer
  <2>3. stage \in {"abort", "partial"} => Way[k] \in {Finished, Metrics, Cut}
    BY <2>1 DEF CutAlone, CutBehind, Is2, Is3, Is4
  <2>4. stage = "aborted" => RunOf(Way[k]) = {}
    <3>1. stage = "aborted" => Way[k] = Gone
      BY <2>1 DEF CutAlone, CutBehind, Is1, Is2
    <3> QED
      BY <1>1, <2>2, <3>1, FrameKinds, RunFrames, WayTypes DEF SessionInv
  <2> QED
    BY <1>3, <2>1, <2>2, <2>3, <2>4, StagesApart
<1>4. CASE stage \notin {"outcome", "metrics", "ended"} \cup Aborting
  <2>1. PICK k \in 1..Len(Way) : IsAnswer(k)
    BY <1>1, SomeAnswer
  <2>2. Way[k].type = Awaits[stage].type /\ Way[k] \in Answer(runs)
    BY <2>1, WayTypes DEF IsAnswer, Meets, SessionInv
  <2>3. Awaits[stage].type \notin {"PLAY_FINISHED", "PLAY_ABORTED", "PLAY_METRICS"}
    BY <1>1, <1>4, StageNames, StagesApart, Needs, FrameKinds DEF Waiting
  <2> QED
    BY <1>1, <2>1, <2>2, <2>3, RunFrames
<1> QED
  BY <1>2, <1>3, <1>4

LEMMA AnsweredOwns ==
    ASSUME SessionInv, OnTrack, OwnRun, Answered
    PROVE  OwnRun'
<1>1. PICK k \in 1..Len(Way) :
         /\ IsAnswer(k)
         /\ RunOf(Way[k]) # {} => stage \in Streaming \cup Aborting /\ Way[k] \in {Finished, Metrics, Cut}
  BY AnswerIsOwn
<1>2. /\ stage' = Following[stage] /\ toPico' = toPico \o Requests(Following[stage])
      /\ heard' = heard \cup RunOf(Way[k]) /\ UNCHANGED <<before, runs>>
  BY <1>1, AnswerTaken DEF IsAnswer, Proceed
<1>3. RunOf(Way[k]) # {} => before < runs /\ RunOf(Way[k]) = {runs}
  BY <1>1 DEF OwnRun, RunOf, Finished, Metrics, Cut, OfRun
<1>4. \A run \in heard' : before' < run
  BY <1>2, <1>3 DEF OwnRun
<1>5. stage \in DOMAIN Awaits /\ long \in BOOLEAN /\ toPico \in Seq(Request)
  BY DEF Answered, Waiting, SessionInv, ControlTypes, LinkTypes
<1>6. ASSUME stage' \in {"started"} \cup Streaming \cup Aborting PROVE before < runs
  <2>1. stage \in {"start", "started"} \cup Streaming \cup Aborting
    BY <1>2, <1>5, <1>6, StageNames DEF Following, Streaming, Aborting
  <2>2. stage = "start" => Is0(toPico)
    BY RunningAnswers, AnswerSettles DEF Resting
  <2> QED
    BY <2>1, <2>2 DEF OwnRun
<1>7. ASSUME stage' = "start", Is0(toPico') PROVE FALSE
  <2>1. stage \in {"feed", "closing"}
    BY <1>2, <1>5, <1>7, StageNames DEF Following
  <2>2. Is0(toPico) /\ Requests("start") = <<Plain("PLAY_START")>>
    BY <2>1, OpeningAnswers, AnswerSettles DEF Resting, Requests
  <2>3. Is1(toPico', Plain("PLAY_START"))
    BY <1>2, <1>5, <1>7, <2>2, RequestWritten
  <2> QED
    BY <1>7, <2>3 DEF Is0, Is1
<1> QED
  BY <1>2, <1>4, <1>6, <1>7 DEF OwnRun

LEMMA CommandOwns ==
    ASSUME SessionInv, OnTrack, OwnRun, HandleCommand
    PROVE  OwnRun'
<1>1. UNCHANGED <<stage, heard, before>> /\ runs \in Nat /\ runs' \in Nat /\ runs =< runs'
  <2>1. runs' = runs \/ runs' = runs + 1
    BY DEF HandleCommand, ModeSet, PlayStart, PlayAbort, Queue, Fault, Enter, Answers
  <2> QED
    BY <2>1 DEF HandleCommand, control, SessionInv, PicoTypes
<1>2. ASSUME stage = "start" PROVE runs' = runs + 1
  <2>1. ~Is0(toPico)
    BY EmptySeq DEF HandleCommand, SessionInv, LinkTypes, Is0
  <2>2. Asked("ARMED", ~long, Plain("PLAY_START"))
    BY <1>2, <2>1 DEF OnTrack, Running, Resting
  <2> DEFINE over == ~long
  <2>3. Asked("ARMED", over, Plain("PLAY_START"))
    BY <2>2
  <2> HIDE DEF over
  <2> QED
    BY <2>3, StartTold
<1> QED
  BY <1>1, <1>2 DEF OwnRun

LEMMA FailOwns ==
    ASSUME SessionInv, OwnRun, TimesOut \/ Cancelled, stage # "pass"
    PROVE  OwnRun'
<1>1. UNCHANGED <<runs, heard, before>>
  BY DEF TimesOut, Cancelled, GivesUp, Fail, pico
<1>2. CASE stage' = Cleanup(stage)
  <2>1. stage' \in {"started"} \cup Streaming \cup Aborting => stage \in Streaming
    BY <1>2 DEF Cleanup, Streaming, Aborting
  <2>2. stage' # "start"
    BY <1>2 DEF Cleanup
  <2> QED
    BY <1>1, <2>1, <2>2 DEF OwnRun
<1>3. CASE CanRetry /\ UNCHANGED stage
  <2>1. stage' \notin {"started", "start"} \cup Streaming \cup Aborting
    BY <1>3 DEF CanRetry, Exchanges, Streaming, Aborting
  <2> QED
    BY <1>1, <2>1 DEF OwnRun
<1> QED
  BY <1>2, <1>3 DEF TimesOut, Cancelled, GivesUp, Fail, Proceed

LEMMA BeginOwns ==
    ASSUME SessionInv, StartSession \/ SafeStop
    PROVE  OwnRun'
<1>1. stage' \in {"arm", "cleanup"} /\ before' = runs /\ runs' = runs /\ heard' = {} /\ runs \in Nat
  BY DEF StartSession, SafeStop, Begin, Proceed, pico, SessionInv, PicoTypes
<1> QED
  BY <1>1 DEF OwnRun, Streaming, Aborting

LEMMA OthersOwn ==
    ASSUME OwnRun, UNCHANGED sessionVars \/ RunEnds \/ ReadChunk \/ StopRequested
    PROVE  OwnRun'
<1>1. UNCHANGED <<runs, toPico, stage, heard, before>>
  BY DEF sessionVars, RunEnds, ReadChunk, StopRequested, pico, link, control
<1> QED
  BY <1>1 DEF OwnRun

-----------------------------------------------------------------------------
(* Every step keeps it all. *)

LEMMA CalmStep ==
    ASSUME SessionInv, CalmInv, [SessionNext]_sessionVars
    PROVE  CalmInv'
<1>1. /\ stops \in Nat /\ late \in Nat /\ (Calm => OnTrack /\ OwnRun)
      /\ Quiet /\ stops = 0 => Calm
  BY DEF CalmInv
<1>2. CASE UNCHANGED sessionVars
  <2>1. UNCHANGED <<stops, trouble, late, cancelled>>
    BY <1>2 DEF sessionVars, counts
  <2> QED
    BY <1>1, <1>2, <2>1, IdleTracks, OthersOwn DEF CalmInv, Calm, Quiet
<1>3. CASE HandleCommand \/ RunEnds \/ Answered \/ StartSession \/ SafeStop
  <2>1. UNCHANGED counts
    BY <1>3 DEF HandleCommand, RunEnds, Answered, StartSession, SafeStop, Begin
  <2>2. UNCHANGED <<stops, trouble, late, cancelled>>
    BY <2>1 DEF counts
  <2>3. OnTrack => OnTrack'
    BY <1>3, CommandTracks, RunEndTracks, AnsweredTracks, BeginTracks
  <2>4. OnTrack /\ OwnRun => OwnRun'
    BY <1>3, CommandOwns, OthersOwn, AnsweredOwns, BeginOwns
  <2> QED
    BY <1>1, <2>2, <2>3, <2>4 DEF CalmInv, Calm, Quiet
<1>4. CASE ReadChunk
  <2>1. UNCHANGED <<stops, trouble, late, cancelled>>
    BY <1>4 DEF ReadChunk, counts
  <2> QED
    BY <1>1, <1>4, <2>1, ReadTracks, OthersOwn DEF CalmInv, Calm, Quiet
<1>5. CASE LinkFault \/ DamagedRead
  <2>1. trouble' # {} /\ UNCHANGED <<stops, late>>
    BY <1>5 DEF LinkFault, DamagedRead, Meet
  <2> QED
    BY <1>1, <2>1 DEF CalmInv, Calm, Quiet
<1>6. CASE StopRequested
  <2>1. stops' = stops + 1 /\ UNCHANGED <<trouble, late, cancelled>>
    BY <1>6 DEF StopRequested
  <2> QED
    BY <1>1, <1>6, <2>1, StopTracks, OthersOwn DEF CalmInv, Calm, Quiet
<1>7. CASE TimesOut
  <2>1. UNCHANGED <<stops, trouble, late, cancelled>>
    BY <1>7 DEF TimesOut, GivesUp
  <2>2. ASSUME OnTrack PROVE stage # "pass"
    BY <1>7, <2>2, FrameIsComing DEF TimesOut, GivesUp
  <2> QED
    BY <1>1, <1>7, <2>1, <2>2, TimesOutTracks, FailOwns DEF CalmInv, Calm, Quiet
<1>8. CASE TimesOutEarly
  <2>1. UNCHANGED stops /\ late' = late + 1
    BY <1>8 DEF TimesOutEarly, GivesUp
  <2> QED
    BY <1>1, <2>1 DEF CalmInv, Calm, Quiet
<1>9. CASE Cancelled
  <2>1. UNCHANGED <<stops, trouble, late>> /\ cancelled' = cancelled \cup {stage}
    BY <1>9 DEF Cancelled, GivesUp
  <2>2. Calm' => Calm /\ stage # "pass"
    BY <2>1 DEF Calm, Quiet
  <2>3. ~(Quiet' /\ stops' = 0)
    BY <1>1, <1>9, <2>1 DEF Quiet, Cancelled, OnTrack, Steady
  <2> QED
    BY <1>1, <1>9, <2>1, <2>2, <2>3, CancelledTracks, FailOwns DEF CalmInv
<1> QED
  BY <1>2, <1>3, <1>4, <1>5, <1>6, <1>7, <1>8, <1>9 DEF SessionNext

LEMMA CalmInitially ==
    ASSUME SessionInit
    PROVE  CalmInv
<1>1. Way = <<>> /\ Len(<<>>) = 0
  BY DEF SessionInit, Way
<1>2. Steady /\ Opening
  BY <1>1 DEF SessionInit, Steady, Opening, Resting, Is0, Aborting
<1>3. Running /\ Ending /\ Stopping
  BY DEF SessionInit, Running, Ending, Stopping
<1>4. OwnRun
  BY DEF SessionInit, OwnRun, Streaming, Aborting
<1> QED
  BY <1>2, <1>3, <1>4 DEF SessionInit, CalmInv, OnTrack, Calm, Quiet

\* While the link has no trouble and no stop request ended the wait for a
\* session's PASS, the Pico and the frames on their way are where the table of
\* the waits says, and the run that the session reads of is its own.
THEOREM CalmInvariance == SessionSpec => []CalmInv
<1> QED
  BY CalmInitially, CalmStep, SessionInvariance, PTL DEF SessionSpec

\* Over a link without trouble and lateness, a session that nobody stops passes
\* every wait of start() and finish(), whatever _read_frame returns with what,
\* and so do the sessions after it.
THEOREM UndisturbedSessionSucceedsAlways == SessionSpec => []UndisturbedSessionSucceeds
<1>1. CalmInv => UndisturbedSessionSucceeds
  BY DEF CalmInv, OnTrack, Steady, UndisturbedSessionSucceeds
<1> QED
  BY <1>1, CalmInvariance, PTL

\* finish() and abort() read the outcome and metrics of the session's own run,
\* also after sessions that were stopped at any moment before their last wait.
THEOREM HeardIsOwnAlways == SessionSpec => []HeardIsOwn
<1>1. CalmInv => HeardIsOwn
  <2> SUFFICES ASSUME CalmInv, Calm, NEW run \in heard PROVE run > before
    BY DEF HeardIsOwn, Calm
  <2>1. before < run
    BY DEF CalmInv, OwnRun
  <2> QED
    BY <2>1
<1> QED
  BY <1>1, CalmInvariance, PTL

=============================================================================
