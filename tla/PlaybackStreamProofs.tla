------------------------ MODULE PlaybackStreamProofs ------------------------
(***************************************************************************)
(* What one playback run keeps, for every recording, pipeline window,      *)
(* queue and ring capacity: the feeder stays within the Pico's queue and   *)
(* command ring, the PC is given the events in order, and the way a        *)
(* session ends is true.                                                   *)
(*                                                                         *)
(* The inductive invariant StreamInv says what the two streams between the *)
(* machines can hold in each stage of the feeder.  Its parts: Links, types *)
(* of what is on its way; Feeder, the feeder's own counters; Rows, the     *)
(* commands and the frames each stage may find, as long as the Pico is not *)
(* in ERROR; Doomed, what is left of that once it is; Answers, where the   *)
(* frame a stage is waiting for stands; CreditInv, how the statuses on     *)
(* their way number the events the feeder still has to count.              *)
(*                                                                         *)
(* The proof goes: a step of the Pico is one of the twelve kinds of        *)
(* PicoKind (PicoKinds), each kind keeps StreamInv (PicoKept); each action *)
(* of the Zero keeps it (ZeroKept); the firmware's own IInv comes from     *)
(* PicoFirmwareProofs, since every step is one of the firmware's           *)
(* (StepIsFirmware).                                                       *)
(***************************************************************************)
EXTENDS PlaybackStream, PicoFirmwareProofs, SequenceLemmas, FiniteSetTheorems

-----------------------------------------------------------------------------
(* The inductive invariant. *)

\* What travels from the Pico to the Zero, and back.
Frame ==
    [type : {"MODE_CHANGED"}, state : Modes, reason : Reasons]
        \cup [type : {"BUFFER_STATUS"}, state : Modes, free : 0..QueueCapacity]
        \cup [type : {"PLAY_UNDERRUN"}, free : {QueueCapacity}]
        \cup [type : {"PLAY_READY", "PLAY_STARTED", "PLAY_FINISHED", "PLAY_ABORTED", "PLAY_METRICS"}]

SetMode(target) == [type |-> "MODE_SET", target |-> target]
Event(n) == [type |-> "QUEUE_EVENT", report |-> n]

Request == {SetMode("ARMED"), SetMode("PASS"), Plain("QUEUE_CLEAR"), Plain("QUEUE_END"), Plain("PLAY_START")}
             \cup {Event(n) : n \in 1..TotalEvents}

IsStatus(x) == x.type = "BUFFER_STATUS"
IsUnderrun(x) == x.type = "PLAY_UNDERRUN"

ArmedNews == ModeChanged("ARMED", "OK")
StartNews == ModeChanged("PLAYING", "OK")
FinishedNews == ModeChanged("ARMED", "FINISHED")
PassNews == ModeChanged("PASS", "OK")

\* All the frames the Zero has still to read, in the order they were sent.
Way == (deferred \o pending) \o fromPico
OnWay == Range(Way)
Fresh == deferred = <<>> /\ pending = <<>>

\* The streams hold what the two machines say to each other; a latched fault
\* is taken up in the same turn of the loop.
Links ==
    /\ toPico \in Seq(Request)
    /\ fromPico \in Seq(Frame) /\ pending \in Seq(Frame) /\ deferred \in Seq(Frame)
    /\ backlog =< Len(toPico)
    /\ uartFault => loop = "fault" /\ mode \in {"PLAYING", "ERROR"}
    /\ capture = <<>> /\ mode # "RECORD"

Early == {"begin", "arming", "clearing", "ready", "endAck", "accepted", "epoch"}
Late == {"outcome", "metrics", "finished", "returning", "done"}

\* The feeder's counters, stage by stage.
Feeder ==
    /\ stage \in Stages /\ streaming \in BOOLEAN /\ staleCredit \in BOOLEAN
    /\ prebuffer \in 1..TotalEvents /\ nextEvent \in 0..TotalEvents
    /\ credit \in 0..QueueCapacity /\ batch \in 0..PipelineWindow /\ acksDue \in 0..batch
    /\ played \in 0..TotalEvents
    /\ stage \in Early => ~streaming
    /\ stage \in Late => streaming
    /\ nextEvent =< StopAt
    /\ stage = "acks" => acksDue > 0 /\ nextEvent + batch =< StopAt
    /\ stage \notin {"acks", "failed"} => acksDue = 0
    /\ stage \notin DOMAIN Awaited \cup {"credit"} => deferred = <<>>
    /\ staleCredit => streaming

\* The queue goes on where the PC is.
InOrder == \A i \in 1..Len(queue) : queue[i] = played + i

\* The wire holds the events up to n that Pico has not taken
Events(n) ==
    /\ played + Len(queue) + Len(toPico) = n
    /\ \A i \in 1..Len(toPico) : toPico[i] = Event(played + Len(queue) + i)
\* The wire holds them, and then c.
EventsThen(n, c) ==
    /\ toPico # <<>>
    /\ played + Len(queue) + Len(toPico) - 1 = n
    /\ \A i \in 1..(Len(toPico) - 1) : toPico[i] = Event(played + Len(queue) + i)
    /\ toPico[Len(toPico)] = c

\* Nothing on the wire can take the Pico out of ERROR.
NoModeSet == \A i \in 1..Len(toPico) : toPico[i].type # "MODE_SET"

\* The run has ended by itself.
Over == mode = "ARMED" /\ played = TotalEvents /\ queue = <<>> /\ toPico = <<>> /\ ~ended

\* The stages in which the queue is being loaded, before PLAY_START.
Setup == {"clearing", "ready", "endAck"} \cup (IF streaming THEN {} ELSE {"feed", "acks", "credit"})
Running == mode = "PLAYING" /\ played + Len(queue) = nextEvent /\ (ended <=> nextEvent = TotalEvents)
Feeding == streaming /\ stage \in {"feed", "acks", "credit"}
Closing == {"outcome", "metrics", "finished"}

Unfed == played = 0 /\ nextEvent = 0 /\ queue = <<>> /\ ~ended

\* What is on the two streams in each stage, as long as all is well.
Beginning ==
    /\ stage = "begin" => mode = "PASS" /\ toPico = <<>> /\ Fresh /\ fromPico = <<>> /\ Unfed
    /\ stage = "arming" =>
          /\ Fresh /\ Unfed
          /\ \/ mode = "PASS" /\ toPico = <<SetMode("ARMED")>> /\ fromPico = <<>>
             \/ mode = "ARMED" /\ toPico = <<>> /\ fromPico \in {<<>>, <<ArmedNews>>}

Loading ==
    stage \in Setup =>
       /\ mode = "ARMED" /\ ~uartFault /\ played = 0
       /\ pending = <<>>
       /\ stage # "ready" => deferred = <<>>
       /\ \A x \in OnWay : IsStatus(x) \/ x = Plain("PLAY_READY")
       /\ stage = "clearing" => /\ toPico \in {<<>>, <<Plain("QUEUE_CLEAR")>>} /\ Unfed
                                /\ \A x \in OnWay : IsStatus(x) => x.free = QueueCapacity
       /\ stage \in {"feed", "credit"} => ~ended /\ Events(nextEvent)
       /\ stage = "acks" => ~ended /\ Events(nextEvent + batch)
       /\ stage = "ready" => /\ nextEvent = TotalEvents /\ Len(queue) = nextEvent
                             /\ \/ toPico = <<Plain("QUEUE_END")>> /\ ~ended /\ deferred = <<>> /\ fromPico = <<>>
                                \/ toPico = <<>> /\ ended
       /\ stage = "endAck" => nextEvent = TotalEvents /\ Len(queue) = nextEvent /\ toPico = <<>> /\ ended
                              /\ Plain("PLAY_READY") \notin OnWay

Starting ==
    /\ stage = "accepted" =>
          \/ /\ mode = "ARMED" /\ ~uartFault /\ toPico = <<Plain("PLAY_START")>>
             /\ Fresh /\ fromPico = <<>>
             /\ played = 0 /\ Len(queue) = nextEvent /\ (ended <=> nextEvent = TotalEvents)
          \/ toPico = <<>> /\ (Running \/ Over)
    /\ stage = "accepted" => nextEvent = prebuffer
    /\ stage = "epoch" => toPico = <<>> /\ (Running \/ Over)
    /\ stage \in {"accepted", "epoch"} /\ Over => nextEvent = TotalEvents

Playing ==
    /\ Feeding =>
          /\ mode = "PLAYING" /\ ~ended /\ NoModeSet
          /\ ~uartFault => Events(IF stage = "acks" THEN nextEvent + batch ELSE nextEvent)
    /\ stage \in Closing =>
          \/ Over
          \/ /\ mode = "PLAYING" /\ NoModeSet
             /\ ~uartFault => \/ ended /\ Events(TotalEvents) /\ toPico = <<>>
                              \/ ~ended /\ EventsThen(TotalEvents, Plain("QUEUE_END"))
    /\ stage \in Closing => nextEvent = TotalEvents

Leaving ==
    /\ stage \in {"returning", "done"} =>
          /\ played = TotalEvents /\ queue = <<>> /\ ~ended /\ pending = <<>> /\ deferred = <<>>
          /\ \/ stage = "returning" /\ mode = "ARMED" /\ toPico = <<SetMode("PASS")>> /\ fromPico = <<>>
             \/ mode = "PASS" /\ toPico = <<>> /\ fromPico \in {<<>>, <<PassNews>>}
    /\ stage = "failed" => mode = "ARMED" /\ toPico = <<>> /\ queue = <<>> /\ ~ended

\* What a run says.
RunFrame(x) ==
    \/ IsStatus(x) /\ x.state = "PLAYING"
    \/ IsUnderrun(x)
    \/ x.type \in {"PLAY_STARTED", "PLAY_FINISHED", "PLAY_METRICS"}
    \/ x = FinishedNews

Said ==
    /\ stage = "accepted" => \A x \in OnWay : RunFrame(x) \/ x = StartNews
    /\ stage \in {"epoch"} \cup Closing \/ Feeding => \A x \in OnWay : RunFrame(x) \/ x.type = "PLAY_READY"
    /\ FinishedNews \in OnWay => Over
    /\ \A i \in 1..Len(Way) : Way[i] = FinishedNews => i = Len(Way)

Rows ==
    /\ InOrder
    /\ Beginning /\ Loading /\ Starting /\ Playing /\ Leaving /\ Said

\* In ERROR no command revives the run, and its end is not announced.
Doomed ==
    /\ stage \notin {"begin", "arming", "returning", "done"}
    /\ NoModeSet /\ FinishedNews \notin OnWay

\* The frame that ends the wait of a stage of the start.
Answer == [ready |-> Plain("PLAY_READY"), accepted |-> StartNews, epoch |-> Plain("PLAY_STARTED")]

\* It is the next frame, and comes once.
Answers ==
    /\ stage \in DOMAIN Answer /\ Answer[stage] \in OnWay =>
          /\ toPico = <<>> /\ Fresh /\ fromPico[1] = Answer[stage]
          /\ \A i \in 2..Len(fromPico) : fromPico[i] # Answer[stage]
          /\ stage = "accepted" /\ Plain("PLAY_STARTED") \in OnWay =>
                /\ Len(fromPico) > 1 /\ fromPico[2] = Plain("PLAY_STARTED")
                /\ \A i \in 3..Len(fromPico) : fromPico[i] # Plain("PLAY_STARTED")
    /\ stage \in Setup => \A x \in OnWay : /\ x # StartNews /\ x.type # "PLAY_STARTED"
                                           /\ IsStatus(x) => x.state = "ARMED"
                                           /\ stage \in {"clearing", "feed", "acks", "credit"} => x.type # "PLAY_READY"
    /\ stage = "accepted" /\ toPico # <<>> => StartNews \notin OnWay /\ Plain("PLAY_STARTED") \notin OnWay

\* The acknowledgements the feeder is still to consume.
Due == IF stage = "acks" THEN acksDue ELSE IF stage \in {"clearing", "ready", "endAck"} THEN 1 ELSE 0

\* The statuses of w are numbered upwards, with m at most.
Numbers(f, w, m) ==
    /\ f \in [1..Len(w) -> Nat]
    /\ \A i \in 1..Len(w) : IsStatus(w[i]) => f[i] \in 1..m
    /\ \A i, j \in 1..Len(w) : i < j /\ IsStatus(w[i]) /\ IsStatus(w[j]) => f[i] < f[j]

\* At most m statuses are on w.
Outstanding(w, m) == \E f \in [1..Len(w) -> Nat] : Numbers(f, w, m)

\* All commands are taken: status d is the last acknowledgement, and what it
\* says is free still is; status d + 1 is a notice that a full queue has space.
Frees(f, w, d, q, c) ==
    \A i \in 1..Len(w) : IsStatus(w[i]) =>
        /\ f[i] >= d => w[i].free + q =< QueueCapacity
        /\ f[i] = d + 1 =>
              /\ w[i].free > 0 /\ w[i].state = "PLAYING"
              /\ d = 0 => c = 0
              /\ \A k \in 1..Len(w) : IsStatus(w[k]) /\ f[k] = d => w[k].free = 0

\* An underrun is followed by an acknowledgement, or is still true.
Underruns(f, w, d, q) ==
    \A j \in 1..Len(w) : IsUnderrun(w[j]) =>
        \/ \E k \in (j + 1)..Len(w) : IsStatus(w[k]) /\ f[k] =< d
        \/ q = 0 /\ \A k \in (j + 1)..Len(w) : ~IsStatus(w[k])

Settled(w, d, q, c) ==
    \E f \in [1..Len(w) -> Nat] : Numbers(f, w, d + 1) /\ Frees(f, w, d, q, c) /\ Underruns(f, w, d, q)

\* The stages in which the feeder relies on the statuses on their way.
Counting ==
    \/ stage \in {"clearing", "feed", "acks", "credit", "endAck"}
    \/ stage \in DOMAIN Answer /\ (toPico # <<>> \/ Answer[stage] \in OnWay)

\* No status has been passed over; what the feeder takes for free is, once it
\* has read its acknowledgements.
Counted ==
    /\ \A i \in 1..Len(pending) : ~IsStatus(pending[i])
    /\ \A i \in 1..Len(deferred) : ~IsStatus(deferred[i])
    /\ Due = 0 => credit + Len(queue) =< QueueCapacity
    /\ toPico # <<>> => Outstanding(fromPico, Due - Len(toPico))
    /\ toPico = <<>> => Settled(fromPico, Due, Len(queue), credit)

NoEvents == \A i \in 1..Len(toPico) : toPico[i].type # "QUEUE_EVENT"

\* The feeder is within the limits, and why.
CountOK ==
    /\ ~uartFault
    /\ Len(toPico) =< PipelineWindow
    /\ NoEvents \/ Len(queue) + Len(toPico) =< QueueCapacity
    /\ stage \in {"feed", "credit"} => toPico = <<>>
    /\ stage = "acks" => Len(toPico) =< acksDue
    /\ stage \in {"begin", "arming", "credit"} => credit = 0
    /\ Counting => Counted

CreditInv == ~staleCredit => CountOK

StreamInv ==
    /\ Links /\ Feeder
    /\ mode # "ERROR" => Rows
    /\ mode = "ERROR" => Doomed
    /\ Answers /\ CreditInv


-----------------------------------------------------------------------------
(* What a step of the Pico is to the Zero. *)

Silent == tx'.sent = <<>>
NoFault == ~uartFault /\ ~uartFault'
SameWire == toPico' = toPico
HeadTaken == toPico # <<>> /\ toPico' = Tail(toPico)

PicoQuiet ==
    /\ NoFault /\ SameWire /\ Silent
    /\ UNCHANGED <<mode, queue, ended, played>>

PicoOverrun ==
    /\ ~uartFault /\ uartFault' /\ Silent
    /\ UNCHANGED <<mode, queue, ended, played>>
    /\ Len(toPico) > CommandCapacity
    /\ toPico' # <<>>
    /\ \A i \in 1..Len(toPico') : \E j \in 1..Len(toPico) : toPico'[i] = toPico[j]

Ending(x) == x.type \in {"PLAY_ABORTED", "PLAY_METRICS"} \/ (x.type = "MODE_CHANGED" /\ x.state = "ERROR")

PicoStop ==
    /\ mode # "PASS" /\ mode' = "ERROR" /\ queue' = <<>> /\ ended' = FALSE /\ played' = played
    /\ ~uartFault'
    /\ \/ SameWire /\ mode \in {"PLAYING", "ERROR"}
       \/ HeadTaken /\ Head(toPico).type # "MODE_SET"
    /\ \A i \in 1..Len(tx'.sent) :
          \/ Ending(tx'.sent[i])
          \/ /\ i = 1 /\ tx'.sent[1] = Plain("PLAY_READY")
             /\ mode = "ARMED" /\ HeadTaken /\ Head(toPico) = Plain("QUEUE_END") /\ ~uartFault

PicoFinish ==
    /\ NoFault /\ SameWire
    /\ mode = "PLAYING" /\ ended /\ played' = played + Len(queue)
    /\ mode' = "ARMED" /\ queue' = <<>> /\ ended' = FALSE
    /\ \A i \in 1..Len(tx'.sent) :
          \/ tx'.sent[i].type \in {"PLAY_FINISHED", "PLAY_METRICS"}
          \/ tx'.sent[i] = FinishedNews /\ i = Len(tx'.sent)

PicoStarve ==
    /\ NoFault /\ SameWire
    /\ mode = "PLAYING" /\ queue = <<>>
    /\ UNCHANGED <<mode, queue, ended, played>>
    /\ tx'.sent = <<PlayUnderrun(QueueCapacity)>>

PicoPlay ==
    /\ NoFault /\ SameWire
    /\ mode = "PLAYING" /\ queue # <<>>
    /\ UNCHANGED <<mode, ended>>
    /\ queue' = Tail(queue) /\ played' = played + 1
    /\ \E b, u \in Seq(Frame) :
          /\ tx'.sent = b \o u
          /\ b = <<>> \/ (Len(queue) = QueueCapacity /\ ~ended /\ b = <<BufferStatus("PLAYING", 1)>>)
          /\ u = <<>> \/ (queue' = <<>> /\ u = <<PlayUnderrun(QueueCapacity)>>)

PicoArm ==
    /\ NoFault /\ HeadTaken /\ Head(toPico) = SetMode("ARMED")
    /\ mode = "PASS" /\ mode' = "ARMED" /\ queue' = <<>> /\ ended' = FALSE /\ played' = played
    /\ tx'.sent = <<>> \/ tx'.sent = <<ArmedNews>>

PicoPass ==
    /\ NoFault /\ HeadTaken /\ Head(toPico) = SetMode("PASS")
    /\ mode = "ARMED" /\ mode' = "PASS" /\ queue' = <<>> /\ ended' = FALSE /\ played' = played
    /\ tx'.sent = <<>> \/ tx'.sent = <<PassNews>>

PicoClear ==
    /\ NoFault /\ HeadTaken /\ Head(toPico) = Plain("QUEUE_CLEAR")
    /\ mode = "ARMED" /\ mode' = "ARMED" /\ queue' = <<>> /\ ended' = FALSE /\ played' = played
    /\ tx'.sent = <<BufferStatus("ARMED", QueueCapacity)>>

PicoAccept ==
    /\ NoFault /\ HeadTaken /\ Head(toPico).type = "QUEUE_EVENT"
    /\ mode \in {"ARMED", "PLAYING"} /\ Len(queue) < QueueCapacity
    /\ queue' = Append(queue, Head(toPico).report)
    /\ UNCHANGED <<mode, ended, played>>
    /\ tx'.sent = <<BufferStatus(mode, QueueCapacity - Len(queue) - 1)>>

PicoClose ==
    /\ NoFault /\ HeadTaken /\ Head(toPico) = Plain("QUEUE_END")
    /\ mode \in {"ARMED", "PLAYING"} /\ ended' = TRUE
    /\ UNCHANGED <<mode, queue, played>>
    /\ \/ tx'.sent = <<BufferStatus(mode, QueueCapacity - Len(queue))>>
       \/ /\ mode = "ARMED"
          /\ tx'.sent = <<Plain("PLAY_READY"), BufferStatus(mode, QueueCapacity - Len(queue))>>

PicoStart ==
    /\ NoFault /\ HeadTaken /\ Head(toPico) = Plain("PLAY_START")
    /\ mode = "ARMED" /\ queue # <<>> /\ mode' = "PLAYING"
    /\ UNCHANGED <<queue, ended, played>>
    /\ \/ tx'.sent = <<>> \/ tx'.sent = <<StartNews>>
       \/ tx'.sent = <<Plain("PLAY_STARTED")>> \/ tx'.sent = <<StartNews, Plain("PLAY_STARTED")>>
    /\ RoomForRun => tx'.sent # <<>> /\ tx'.sent[1] = StartNews

PicoKind ==
    \/ PicoQuiet \/ PicoOverrun \/ PicoStop \/ PicoFinish \/ PicoStarve \/ PicoPlay
    \/ PicoArm \/ PicoPass \/ PicoClear \/ PicoAccept \/ PicoClose \/ PicoStart

\* What the kinds need to know of the command at the head of the wire.
Suits(c) ==
    /\ c = SetMode("ARMED") => mode = "PASS"
    /\ c = SetMode("PASS") => mode = "ARMED"
    /\ c = Plain("QUEUE_CLEAR") => mode \in {"ARMED", "ERROR"}
    /\ c = Plain("PLAY_START") => mode = "ERROR" \/ (mode = "ARMED" /\ queue # <<>>)
    /\ c.type \in {"QUEUE_EVENT", "QUEUE_END"} => mode # "PASS"

Suited == toPico # <<>> /\ ~uartFault => Suits(Head(toPico))

-----------------------------------------------------------------------------
(* What the handlers say. *)

EndFrames == {x \in Frame : Ending(x)}

LEMMA FramesAre ==
    ASSUME NEW reason \in Reasons, NEW state \in Modes, NEW n \in 0..QueueCapacity
    PROVE  /\ ModeChanged(state, reason) \in Frame
           /\ BufferStatus(state, n) \in Frame
           /\ PlayUnderrun(QueueCapacity) \in Frame
           /\ Plain("PLAY_READY") \in Frame /\ Plain("PLAY_STARTED") \in Frame
           /\ Plain("PLAY_FINISHED") \in Frame
           /\ Plain("PLAY_ABORTED") \in EndFrames /\ Plain("PLAY_METRICS") \in EndFrames
           /\ ModeChanged("ERROR", reason) \in EndFrames
<1>1. "ERROR" \in Modes
  BY DEF Modes
<1> QED
  BY <1>1 DEF Frame, EndFrames, Ending, ModeChanged, BufferStatus, PlayUnderrun, Plain

LEMMA QueuedIn ==
    ASSUME NEW X, NEW STATE ring, ring.sent \in Seq(X), NEW STATE frame, frame \in X
    PROVE  QueueFrame(ring, frame).sent \in Seq(X)
  BY DEF QueueFrame

LEMMA QuietSaid == ASSUME NEW X PROVE Quiet.sent = <<>> /\ Quiet.sent \in Seq(X)
  BY DEF Quiet

LEMMA QueuedOnto ==
    ASSUME NEW STATE ring, NEW STATE frame
    PROVE  \/ QueueFrame(ring, frame).sent = ring.sent
           \/ QueueFrame(ring, frame).sent = Append(ring.sent, frame)
  BY DEF QueueFrame

LEMMA CompletedIn ==
    ASSUME NEW X, NEW STATE ring, ring.sent \in Seq(X), NEW outcome, Plain(outcome) \in X,
           Plain("PLAY_METRICS") \in X
    PROVE  CompleteRun(ring, outcome).sent \in Seq(X)
<1> DEFINE r == QueueFrame(ring, Plain(outcome))
<1>1. r.sent \in Seq(X)
  BY QueuedIn
<1> HIDE DEF r
<1>2. QueueFrame(r, Plain("PLAY_METRICS")).sent \in Seq(X)
  BY <1>1, QueuedIn
<1> QED
  BY <1>2 DEF CompleteRun, r

LEMMA EndFramesEnd ==
    ASSUME NEW STATE s, s \in Seq(EndFrames)
    PROVE  s \in Seq(Frame) /\ \A i \in 1..Len(s) : Ending(s[i])
  BY DEF EndFrames

LEMMA ErrorStops ==
    ASSUME CoreInv, mode # "PASS", NEW reason \in Reasons, EnterError(reason, Quiet)
    PROVE  /\ mode' = "ERROR" /\ queue' = <<>> /\ ended' = FALSE /\ (capture = <<>> => capture' = <<>>)
           /\ tx'.sent \in Seq(Frame) /\ \A i \in 1..Len(tx'.sent) : Ending(tx'.sent[i])
<1> DEFINE bad == ModeChanged("ERROR", reason)
<1>0. bad \in EndFrames /\ Plain("PLAY_ABORTED") \in EndFrames /\ Plain("PLAY_METRICS") \in EndFrames
  <2>1. "ERROR" \in Modes /\ 0 \in 0..QueueCapacity
    BY CapacityAssumption DEF Modes
  <2> QED
    BY <2>1, FramesAre
<1>1. CASE mode = "ERROR"
  <2>1. tx' = QueueFrame(Quiet, bad) /\ UNCHANGED core
    BY <1>1 DEF EnterError, Notify
  <2>2. queue = <<>> /\ ended = FALSE
    BY <1>1 DEF CoreInv, CoreTypeOK, NothingLeftBehind
  <2>3. UNCHANGED <<mode, queue, ended, capture>>
    BY <2>1 DEF core, capturing, playback
  <2>4. tx'.sent \in Seq(EndFrames)
    BY <1>0, <2>1, QuietSaid, QueuedIn
  <2> QED
    BY <1>1, <2>2, <2>3, <2>4, EndFramesEnd
<1>2. CASE mode # "ERROR"
  <2>1. EnterMode("ERROR", reason, Quiet)
    BY <1>2 DEF EnterError
  <2>2. mode' = "ERROR" /\ queue' = <<>> /\ ended' = FALSE /\ capture' = <<>>
    BY <2>1 DEF EnterMode, ClearReleaseAndQueue, ClearAndRelease
  <2>3. StopRun(Quiet).sent \in Seq(EndFrames)
    BY <1>0, QuietSaid, CompletedIn DEF StopRun
  <2>4. tx'.sent \in Seq(EndFrames)
    BY <1>0, <2>1, <2>3, QueuedIn DEF EnterMode
  <2> QED
    BY <2>2, <2>4, EndFramesEnd
<1> QED
  BY <1>1, <1>2

\* A run that ends by itself.
LEMMA FinishSaid ==
    ASSUME NEW STATE ring, ring.sent = <<>>, FinishRun(ring)
    PROVE  /\ mode' = "ARMED" /\ queue' = <<>> /\ ended' = FALSE /\ capture' = <<>>
           /\ tx'.sent \in Seq(Frame)
           /\ \A i \in 1..Len(tx'.sent) :
                 \/ tx'.sent[i].type \in {"PLAY_FINISHED", "PLAY_METRICS"}
                 \/ tx'.sent[i] = FinishedNews /\ i = Len(tx'.sent)
<1>1. mode' = "ARMED" /\ queue' = <<>> /\ ended' = FALSE /\ capture' = <<>>
  BY DEF FinishRun, ClearReleaseAndQueue, ClearAndRelease
<1> DEFINE X == {Plain("PLAY_FINISHED"), Plain("PLAY_METRICS")}
           r == CompleteRun(ring, "PLAY_FINISHED")
<1>2. r.sent \in Seq(X)
  <2>1. Plain("PLAY_FINISHED") \in X /\ Plain("PLAY_METRICS") \in X /\ ring.sent \in Seq(X)
    OBVIOUS
  <2> HIDE DEF X
  <2> QED
    BY <2>1, CompletedIn
<1>3. tx' = QueueFrame(r, FinishedNews)
  BY DEF FinishRun, FinishedNews
<1>4. X \subseteq Frame /\ FinishedNews \in Frame /\ \A x \in X : x.type \in {"PLAY_FINISHED", "PLAY_METRICS"}
  <2>1. "ARMED" \in Modes /\ "FINISHED" \in Reasons /\ 0 \in 0..QueueCapacity
    BY CapacityAssumption DEF Modes, Reasons
  <2> QED
    BY <2>1, FramesAre DEF FinishedNews, Plain, EndFrames
<1> HIDE DEF X, r
<1>5. tx'.sent = r.sent \/ tx'.sent = Append(r.sent, FinishedNews)
  BY <1>3, QueuedOnto
<1>6. r.sent \in Seq(Frame) /\ \A i \in 1..Len(r.sent) : r.sent[i] \in X
  BY <1>2, <1>4
<1>7. CASE tx'.sent = r.sent
  BY <1>1, <1>4, <1>6, <1>7
<1>8. CASE tx'.sent = Append(r.sent, FinishedNews)
  <2> DEFINE s == r.sent
  <2>1. s \in Seq(Frame) /\ \A i \in 1..Len(s) : s[i] \in X
    BY <1>6
  <2> HIDE DEF s
  <2>2. /\ Append(s, FinishedNews) \in Seq(Frame) /\ Len(Append(s, FinishedNews)) = Len(s) + 1
        /\ Append(s, FinishedNews)[Len(s) + 1] = FinishedNews
        /\ \A i \in 1..Len(s) : Append(s, FinishedNews)[i] = s[i]
        /\ Len(s) \in Nat
    BY <1>4, <2>1, AppendProperties, LenProperties
  <2>3. tx'.sent = Append(s, FinishedNews)
    BY <1>8 DEF s
  <2> HIDE DEF FinishedNews
  <2>4. ASSUME NEW i \in 1..Len(tx'.sent)
        PROVE  \/ tx'.sent[i].type \in {"PLAY_FINISHED", "PLAY_METRICS"}
               \/ tx'.sent[i] = FinishedNews /\ i = Len(tx'.sent)
    <3>1. i \in 1..Len(s) \/ i = Len(s) + 1
      BY <2>2, <2>3
    <3> QED
      BY <1>4, <2>1, <2>2, <2>3, <3>1
  <2> QED
    BY <1>1, <2>2, <2>3, <2>4
<1> QED
  BY <1>5, <1>7, <1>8

\* A run that goes on.
LEMMA ContinueSaid ==
    ASSUME NEW STATE events, NEW STATE starving, starving \in BOOLEAN, NEW STATE lost, NEW STATE ring,
           ContinueRun(events, starving, lost, ring)
    PROVE  /\ mode' = "PLAYING" /\ queue' = events /\ ended' = ended
           /\ \/ tx'.sent = ring.sent
              \/ events = <<>> /\ tx'.sent = Append(ring.sent, PlayUnderrun(QueueCapacity))
<1>1. mode' = "PLAYING" /\ queue' = events /\ ended' = ended
  BY DEF ContinueRun
<1>2. tx' = ring \/ (events = <<>> /\ tx' = QueueFrame(ring, PlayUnderrun(QueueCapacity)))
  BY DEF ContinueRun
<1> QED
  BY <1>1, <1>2, QueuedOnto

-----------------------------------------------------------------------------
(* Every step of the Pico is one of the kinds. *)

\* The part of a kind that is about the wires and the keyboard.
Tidy ==
    /\ toPico' \in Seq(Request) /\ tx'.sent \in Seq(Frame)
    /\ backlog' =< Len(toPico')
    /\ uartFault' => loop' = "fault"
    /\ capture' = <<>>

\* What the kinds of steps are told from.
Base == IInv /\ Links /\ played \in Nat

LEMMA BaseFacts ==
    ASSUME Base
    PROVE  /\ CoreInv /\ mode \in Modes /\ queue \in Seq(Reports) /\ Len(queue) =< QueueCapacity
           /\ toPico \in Seq(Request) /\ backlog \in Nat /\ Len(toPico) \in Nat /\ backlog =< Len(toPico)
           /\ uartFault \in BOOLEAN /\ running \in BOOLEAN /\ ended \in BOOLEAN
           /\ (running <=> mode = "PLAYING")
           /\ capture = <<>> /\ (uartFault => loop = "fault" /\ mode \in {"PLAYING", "ERROR"})
           /\ mode # "RECORD"
  BY CapacityAssumption
  DEF Base, IInv, Links, CoreInv, CoreTypeOK, RunMatchesMode, Placed, LoopTypeOK

LEMMA EmptyIsSeq == ASSUME NEW S PROVE <<>> \in Seq(S) /\ Len(<<>>) = 0
  OBVIOUS

\* The steps that change nothing but the place in the loop, the endpoint and the release.
LEMMA QuietKind ==
    ASSUME Base, SameWire, played' = played, backlog' = backlog, NoFault,
           UNCHANGED <<mode, queue, ended, capture>>, Silent
    PROVE  PicoKind /\ Tidy
<1>1. PicoQuiet
  BY DEF PicoQuiet
<1>2. Tidy
  BY BaseFacts, EmptyIsSeq DEF Tidy, SameWire, NoFault, Silent
<1> QED
  BY <1>1, <1>2 DEF PicoKind

LEMMA IdleKind ==
    ASSUME Base, SameWire, played' = played,
           \/ TudTask \/ TuhTaskDone \/ DispatchDone \/ PhysicalDone
           \/ SchedulerDone \/ WatchdogQuiet \/ TxTask \/ ReleaseService
    PROVE  PicoKind /\ Tidy
<1>1. UNCHANGED <<backlog, uartFault>> /\ loop # "fault"
  BY DEF TudTask, TuhTaskDone, DispatchDone, PhysicalDone, SchedulerDone, WatchdogQuiet, TxTask,
         ReleaseService, Goto
<1>2. UNCHANGED <<mode, queue, ended, capture>>
  BY DEF TudTask, TuhTaskDone, DispatchDone, PhysicalDone, SchedulerDone, WatchdogQuiet, TxTask,
         ReleaseService, core, capturing, playback
<1>3. Silent
  BY DEF TudTask, TuhTaskDone, DispatchDone, PhysicalDone, SchedulerDone, WatchdogQuiet, TxTask,
         ReleaseService, Quiet, Silent
<1>4. NoFault
  BY <1>1, BaseFacts DEF NoFault
<1> QED
  BY <1>1, <1>2, <1>3, <1>4, QuietKind

\* An error that is found between the commands.
LEMMA ErrorKind ==
    ASSUME Base, SameWire, played' = played, backlog' = backlog, uartFault' = FALSE,
           mode \in {"PLAYING", "ERROR"}, NEW reason \in Reasons, EnterError(reason, Quiet)
    PROVE  PicoKind /\ Tidy
<1>1. /\ mode' = "ERROR" /\ queue' = <<>> /\ ended' = FALSE /\ capture' = <<>>
      /\ tx'.sent \in Seq(Frame) /\ \A i \in 1..Len(tx'.sent) : Ending(tx'.sent[i])
  BY BaseFacts, ErrorStops
<1>2. PicoStop
  BY <1>1 DEF PicoStop
<1>3. Tidy
  BY <1>1, BaseFacts DEF Tidy, SameWire
<1> QED
  BY <1>2, <1>3 DEF PicoKind

LEMMA CheckKind ==
    ASSUME Base, Suited, SameWire, played' = played, TakeFault \/ FlowCheck \/ WatchdogExpires
    PROVE  PicoKind /\ Tidy
<1>0. {"UART_FAULT", "PROTOCOL_ERROR", "UNDERRUN"} \subseteq Reasons
  BY DEF Reasons
<1>1. CASE TakeFault
  <2>1. backlog' = backlog /\ uartFault' = FALSE
    BY <1>1 DEF TakeFault
  <2>2. CASE uartFault
    <3>1. EnterError("UART_FAULT", Quiet) /\ mode \in {"PLAYING", "ERROR"}
      BY <1>1, <2>2, BaseFacts DEF TakeFault
    <3> QED
      BY <1>0, <2>1, <3>1, ErrorKind
  <2>3. CASE ~uartFault
    <3>1. UNCHANGED core /\ tx' = Quiet
      BY <1>1, <2>3 DEF TakeFault
    <3>2. UNCHANGED <<mode, queue, ended, capture>> /\ Silent /\ NoFault
      BY <2>1, <2>3, <3>1 DEF core, capturing, playback, Silent, Quiet, NoFault
    <3> QED
      BY <2>1, <3>2, QuietKind
  <2> QED
    BY <2>2, <2>3
<1>2. CASE FlowCheck
  <2>1. backlog' = backlog /\ uartFault' = FALSE /\ ~uartFault
    BY <1>2, BaseFacts DEF FlowCheck, Goto
  <2>2. CASE flowFault
    <3>1. EnterError("PROTOCOL_ERROR", Quiet) /\ mode = "PLAYING"
      BY <1>2, <2>2, BaseFacts DEF FlowCheck, CoreInv, FlowFaultIsLive
    <3> QED
      BY <1>0, <2>1, <3>1, ErrorKind
  <2>3. CASE ~flowFault
    <3>1. UNCHANGED core /\ tx' = Quiet
      BY <1>2, <2>3 DEF FlowCheck
    <3>2. UNCHANGED <<mode, queue, ended, capture>> /\ Silent /\ NoFault
      BY <2>1, <3>1 DEF core, capturing, playback, Silent, Quiet, NoFault
    <3> QED
      BY <2>1, <3>2, QuietKind
  <2> QED
    BY <2>2, <2>3
<1>3. CASE WatchdogExpires
  <2>1. backlog' = backlog /\ uartFault' = FALSE /\ mode = "PLAYING" /\ EnterError("UNDERRUN", Quiet)
    BY <1>3, BaseFacts DEF WatchdogExpires, Goto
  <2> QED
    BY <1>0, <2>1, ErrorKind
<1> QED
  BY <1>1, <1>2, <1>3

LEMMA ResumeKind ==
    ASSUME Base, SameWire, played' = played, SchedulerResume
    PROVE  PicoKind /\ Tidy
<1>1. /\ backlog' = backlog /\ uartFault' = uartFault /\ ~uartFault /\ running
  BY BaseFacts DEF SchedulerResume, Goto
<1>2. mode = "PLAYING" /\ NoFault
  BY <1>1, BaseFacts DEF NoFault
<1>3. CASE Drained(queue) /\ FinishRun(Quiet)
  <2>1. ended /\ queue = <<>> /\ played' = played + Len(queue)
    <3>1. ended /\ queue = <<>>
      BY <1>3 DEF Drained
    <3>2. Len(queue) = 0 /\ played \in Nat
      BY <3>1, EmptyIsSeq DEF Base
    <3> QED
      BY <3>1, <3>2
  <2>2. /\ mode' = "ARMED" /\ queue' = <<>> /\ ended' = FALSE /\ capture' = <<>>
        /\ tx'.sent \in Seq(Frame)
        /\ \A i \in 1..Len(tx'.sent) :
              \/ tx'.sent[i].type \in {"PLAY_FINISHED", "PLAY_METRICS"}
              \/ tx'.sent[i] = FinishedNews /\ i = Len(tx'.sent)
    BY <1>3, QuietSaid, FinishSaid
  <2>3. PicoFinish
    BY <1>2, <2>1, <2>2 DEF PicoFinish
  <2>4. Tidy
    BY <1>1, <1>2, <2>2, BaseFacts DEF Tidy, SameWire, NoFault
  <2> QED
    BY <2>3, <2>4 DEF PicoKind
<1>4. CASE /\ ContinueRun(queue, underrun, flowFault, Quiet)
           /\ UNCHANGED <<releasePending, capturing>>
  <2>0. underrun \in BOOLEAN /\ capture' = capture
    BY <1>4, BaseFacts DEF CoreInv, CoreTypeOK, capturing
  <2>1. /\ mode' = "PLAYING" /\ queue' = queue /\ ended' = ended
        /\ \/ tx'.sent = Quiet.sent
           \/ queue = <<>> /\ tx'.sent = Append(Quiet.sent, PlayUnderrun(QueueCapacity))
    BY <1>4, <2>0, ContinueSaid
  <2>2. CASE tx'.sent = Quiet.sent
    <3>1. Silent
      BY <2>2, QuietSaid DEF Silent
    <3> QED
      BY <1>1, <1>2, <2>0, <2>1, <3>1, QuietKind
  <2>3. CASE queue = <<>> /\ tx'.sent = Append(Quiet.sent, PlayUnderrun(QueueCapacity))
    <3>1. tx'.sent = <<PlayUnderrun(QueueCapacity)>>
      BY <2>3, AppendTo0 DEF Quiet
    <3>2. PicoStarve
      BY <1>2, <2>1, <2>3, <3>1 DEF PicoStarve
    <3>3. PlayUnderrun(QueueCapacity) \in Frame
      BY DEF PlayUnderrun, Frame
    <3>4. Tidy
      BY <1>1, <1>2, <2>0, <3>1, <3>3, BaseFacts DEF Tidy, SameWire, NoFault
    <3> QED
      BY <3>2, <3>4 DEF PicoKind
  <2> QED
    BY <2>1, <2>2, <2>3
<1> QED
  BY <1>3, <1>4 DEF SchedulerResume

LEMMA PlayKind ==
    ASSUME Base, SameWire, played' = played + 1, SchedulerDispatch
    PROVE  PicoKind /\ Tidy
<1> DEFINE rest == Tail(queue)
           edge == QueueWasFull /\ ~ended
           b == BufferStatus(mode, QueueCapacity - Len(rest))
           ring == IF edge THEN QueueFrame(Quiet, b) ELSE Quiet
           lost == flowFault \/ (edge /\ ~Fits(Quiet, "BUFFER_STATUS"))
           u == PlayUnderrun(QueueCapacity)
<1>1. /\ backlog' = backlog /\ uartFault' = uartFault /\ ~uartFault /\ running /\ queue # <<>>
  BY BaseFacts DEF SchedulerDispatch, Goto
<1>2. mode = "PLAYING" /\ NoFault
  BY <1>1, BaseFacts DEF NoFault
<1>3. rest \in Seq(Reports) /\ Len(rest) = Len(queue) - 1 /\ Len(queue) \in Nat /\ Len(queue) > 0
  BY <1>1, BaseFacts, HeadTailProperties
<1>4. ~edge => ring.sent = <<>>
  BY DEF Quiet
<1>5. edge => ring.sent = <<>> \/ ring.sent = <<b>>
  BY AppendTo0, QueuedOnto DEF Quiet
<1>6. \/ Drained(rest) /\ FinishRun(ring)
      \/ /\ ~Drained(rest)
         /\ ContinueRun(rest, underrun, lost, ring)
         /\ UNCHANGED <<releasePending, capturing>>
  BY DEF SchedulerDispatch
<1>7. edge => b = BufferStatus("PLAYING", 1) /\ Len(queue) = QueueCapacity
  BY <1>2, <1>3, CapacityAssumption DEF QueueWasFull
<1>8. b \in Frame /\ u \in Frame
  <2>1. QueueCapacity - Len(rest) \in 0..QueueCapacity
    BY <1>3, BaseFacts, CapacityAssumption
  <2> QED
    BY <2>1, BaseFacts DEF Frame, BufferStatus, PlayUnderrun
<1> HIDE DEF rest, ring, lost, u, b
<1>9. CASE Drained(rest) /\ FinishRun(ring)
  <2>1. ended /\ Len(queue) = 1
    <3>1. ended /\ rest = <<>>
      BY <1>9 DEF Drained
    <3>2. Len(rest) = 0
      BY <3>1, EmptyIsSeq
    <3> QED
      BY <1>3, <3>1, <3>2
  <2>2. ring.sent = <<>>
    BY <1>4, <2>1
  <2>3. /\ mode' = "ARMED" /\ queue' = <<>> /\ ended' = FALSE /\ capture' = <<>>
        /\ tx'.sent \in Seq(Frame)
        /\ \A i \in 1..Len(tx'.sent) :
              \/ tx'.sent[i].type \in {"PLAY_FINISHED", "PLAY_METRICS"}
              \/ tx'.sent[i] = FinishedNews /\ i = Len(tx'.sent)
    BY <1>9, <2>2, FinishSaid
  <2>4. PicoFinish
    BY <1>2, <2>1, <2>3 DEF PicoFinish
  <2>5. Tidy
    BY <1>1, <1>2, <2>3, BaseFacts DEF Tidy, SameWire, NoFault
  <2> QED
    BY <2>4, <2>5 DEF PicoKind
<1>10. CASE ContinueRun(rest, underrun, lost, ring) /\ UNCHANGED capturing
  <2>0. underrun \in BOOLEAN /\ capture' = capture
    BY <1>10, BaseFacts DEF CoreInv, CoreTypeOK, capturing
  <2>1. /\ mode' = "PLAYING" /\ queue' = rest /\ ended' = ended
        /\ tx'.sent = ring.sent \/ (rest = <<>> /\ tx'.sent = Append(ring.sent, u))
    BY <1>10, <2>0, ContinueSaid DEF u
  <2>2. ring.sent \in Seq(Frame)
    <3>1. <<>> \in Seq(Frame) /\ <<b>> \in Seq(Frame)
      BY <1>8
    <3> QED
      BY <1>4, <1>5, <3>1
  <2>3. PICK v \in Seq(Frame) : tx'.sent = ring.sent \o v /\ (v = <<>> \/ (rest = <<>> /\ v = <<u>>))
    <3>1. <<>> \in Seq(Frame) /\ <<u>> \in Seq(Frame)
      BY <1>8
    <3>2. ring.sent \o <<>> = ring.sent /\ ring.sent \o <<u>> = Append(ring.sent, u)
      BY <1>8, <2>2
    <3> QED
      BY <2>1, <3>1, <3>2
  <2>4. ring.sent = <<>> \/ (Len(queue) = QueueCapacity /\ ~ended /\ ring.sent = <<BufferStatus("PLAYING", 1)>>)
    BY <1>4, <1>5, <1>7
  <2>5. PicoPlay
    BY <1>1, <1>2, <2>1, <2>2, <2>3, <2>4, Zenon DEF PicoPlay, rest, u
  <2>6. tx'.sent \in Seq(Frame)
    BY <2>2, <2>3, ConcatProperties
  <2>7. Tidy
    BY <1>1, <1>2, <2>0, <2>6, BaseFacts DEF Tidy, SameWire, NoFault
  <2> QED
    BY <2>5, <2>7 DEF PicoKind
<1> QED
  BY <1>6, <1>9, <1>10

\* Commands that arrive; what does not fit in the command ring is lost.
LEMMA PollKind ==
    ASSUME Base, NEW n \in 0..Len(toPico), StreamPoll(n), played' = played
    PROVE  PicoKind /\ Tidy
<1> DEFINE kept == Least(n, CommandCapacity)
           a == SubSeq(toPico, 1, kept)
           b == SubSeq(toPico, n + 1, Len(toPico))
<1>1. /\ n \in Nat /\ kept \in 0..n /\ kept =< CommandCapacity /\ (kept < n => kept = CommandCapacity)
      /\ Len(toPico) \in Nat /\ CommandCapacity > 0 /\ CommandCapacity \in Nat
      /\ n =< Len(toPico)
  BY BaseFacts, CapacityAssumption DEF Least
<1>2. /\ backlog' = kept /\ uartFault' = (uartFault \/ n > kept) /\ toPico' = a \o b
      /\ loop = "poll" /\ loop' = "fault" /\ Silent /\ UNCHANGED <<mode, queue, ended, capture>>
  BY DEF StreamPoll, UartPoll, Goto, core, capturing, playback, Quiet, Silent
<1>3. ~uartFault
  BY <1>2, BaseFacts
<1> HIDE DEF kept
<1>4. /\ a \in Seq(Request) /\ Len(a) = kept /\ \A i \in 1..kept : a[i] = toPico[i]
  BY <1>1, BaseFacts, SubSeqProperties
<1>5. /\ b \in Seq(Request) /\ Len(b) = Len(toPico) - n /\ \A i \in 1..Len(b) : b[i] = toPico[n + i]
  <2>1. \A i \in (n + 1)..Len(toPico) : toPico[i] \in Request
    BY <1>1, BaseFacts
  <2>2. n + 1 \in Int /\ Len(toPico) \in Int
    BY <1>1
  <2> HIDE DEF b
  <2>3. b \in Seq(Request) /\ Len(b) = (IF n + 1 =< Len(toPico) THEN Len(toPico) - (n + 1) + 1 ELSE 0)
        /\ \A i \in 1..(Len(toPico) - (n + 1) + 1) : b[i] = toPico[n + 1 + i - 1]
    BY <2>1, <2>2, SubSeqProperties DEF b
  <2> QED
    BY <1>1, <2>3
<1> HIDE DEF a, b
<1>6. /\ toPico' \in Seq(Request) /\ Halves(toPico', a, b)
  BY <1>2, <1>4, <1>5, ConcatProperties, ConcatHalves
<1>7. Tidy
  <2>1. Len(toPico') = kept + (Len(toPico) - n)
    BY <1>4, <1>5, <1>6 DEF Halves
  <2> QED
    BY <1>1, <1>2, <1>6, <2>1, BaseFacts, EmptyIsSeq DEF Tidy, Silent
<1>8. CASE kept = n
  <2>1. NoFault
    <3>1. ~(n > kept)
      BY <1>1, <1>8
    <3> QED
      BY <1>2, <1>3, <3>1, Zenon DEF NoFault
  <2>2. toPico' = toPico
    <3>1. Len(toPico') = Len(toPico)
      BY <1>1, <1>4, <1>5, <1>6, <1>8 DEF Halves
    <3>2. ASSUME NEW i \in 1..Len(toPico) PROVE toPico'[i] = toPico[i]
      <4>1. CASE i =< n
        BY <1>1, <1>4, <1>6, <1>8, <4>1 DEF Halves
      <4>2. CASE i > n
        <5> DEFINE j == i - n
        <5>1. j \in 1..Len(b) /\ i = n + j
          BY <1>1, <1>5, <4>2
        <5> HIDE DEF j
        <5>2. toPico'[n + j] = b[j] /\ b[j] = toPico[n + j]
          BY <1>4, <1>5, <1>6, <1>8, <5>1 DEF Halves
        <5> QED
          BY <5>1, <5>2
      <4> QED
        BY <1>1, <4>1, <4>2
    <3> QED
      BY <1>6, <3>1, <3>2, BaseFacts, SeqEqual
  <2>3. PicoQuiet
    BY <1>2, <2>1, <2>2 DEF PicoQuiet, SameWire
  <2> QED
    BY <1>7, <2>3 DEF PicoKind
<1>9. CASE kept < n
  <2>1. Len(toPico') > 0 /\ Len(toPico') = kept + Len(b) /\ Len(b) \in Nat /\ Len(toPico) > CommandCapacity
    BY <1>1, <1>4, <1>5, <1>6, <1>9 DEF Halves
  <2>2. toPico' # <<>>
    BY <2>1, EmptyIsSeq
  <2>3. ASSUME NEW i \in 1..Len(toPico') PROVE \E j \in 1..Len(toPico) : toPico'[i] = toPico[j]
    <3>1. CASE i =< kept
      BY <1>1, <1>4, <1>6, <3>1 DEF Halves
    <3>2. CASE i > kept
      <4> DEFINE j == i - kept
      <4>1. j \in 1..Len(b) /\ i = kept + j /\ n + j \in 1..Len(toPico)
        BY <1>1, <1>5, <2>1, <3>2
      <4> HIDE DEF j
      <4>2. toPico'[kept + j] = b[j] /\ b[j] = toPico[n + j]
        BY <1>4, <1>5, <1>6, <4>1 DEF Halves
      <4> QED
        BY <4>1, <4>2
    <3> QED
      BY <1>1, <2>1, <3>1, <3>2
  <2>4. PicoOverrun
    BY <1>2, <1>3, <1>1, <1>9, <2>1, <2>2, <2>3 DEF PicoOverrun
  <2> QED
    BY <1>7, <2>4 DEF PicoKind
<1> QED
  BY <1>1, <1>8, <1>9

-----------------------------------------------------------------------------
(* Commands. *)

LEMMA RequestTypes ==
    /\ SetMode("ARMED").type = "MODE_SET" /\ SetMode("ARMED").target = "ARMED"
    /\ SetMode("PASS").type = "MODE_SET" /\ SetMode("PASS").target = "PASS"
    /\ \A t : Plain(t).type = t
    /\ \A n : Event(n).type = "QUEUE_EVENT" /\ Event(n).report = n
  BY DEF SetMode, Plain, Event

LEMMA RequestKinds ==
    ASSUME NEW c \in Request
    PROVE  /\ c.type = "MODE_SET" => c = SetMode("ARMED") \/ c = SetMode("PASS")
           /\ c.type = "QUEUE_CLEAR" => c = Plain("QUEUE_CLEAR")
           /\ c.type = "QUEUE_END" => c = Plain("QUEUE_END")
           /\ c.type = "PLAY_START" => c = Plain("PLAY_START")
           /\ c.type = "QUEUE_EVENT" => \E n \in 1..TotalEvents : c = Event(n)
           /\ c.type \in {"MODE_SET", "QUEUE_CLEAR", "QUEUE_END", "PLAY_START", "QUEUE_EVENT"}
  BY RequestTypes DEF Request

LEMMA RequestIsCommand == Request \subseteq Commands
<1>1. ASSUME NEW c \in Request PROVE c \in Commands
  <2>1. /\ \A n \in 1..TotalEvents : n \in Reports
        /\ "ARMED" \in Modes /\ "PASS" \in Modes
    BY StreamAssumption DEF Modes
  <2>2. CASE c \in {SetMode("ARMED"), SetMode("PASS")}
    BY <2>1, <2>2 DEF SetMode, Commands
  <2>3. CASE c \in {Plain("QUEUE_CLEAR"), Plain("QUEUE_END"), Plain("PLAY_START")}
    BY <2>3 DEF Plain, Commands
  <2>4. CASE \E n \in 1..TotalEvents : c = Event(n)
    BY <2>1, <2>4 DEF Event, Commands
  <2> QED
    BY <2>2, <2>3, <2>4 DEF Request
<1> QED
  BY <1>1

\* The facts of every command step.
Handling(c) ==
    /\ Base /\ Suits(c) /\ toPico # <<>> /\ c = Head(toPico) /\ toPico' = Tail(toPico)
    /\ c \in Request /\ NoFault /\ backlog > 0 /\ backlog' = backlog - 1 /\ played' = played

LEMMA HandlingFacts ==
    ASSUME NEW STATE c, Handling(c)
    PROVE  /\ HeadTaken /\ toPico' \in Seq(Request) /\ backlog' =< Len(toPico')
           /\ NoFault /\ Head(toPico) = c /\ played' = played
<1>1. toPico' \in Seq(Request) /\ Len(toPico') = Len(toPico) - 1
  BY BaseFacts, HeadTailProperties DEF Handling
<1>2. backlog' =< Len(toPico')
  BY <1>1, BaseFacts DEF Handling
<1> QED
  BY <1>1, <1>2 DEF Handling, HeadTaken

LEMMA HandledTidy ==
    ASSUME NEW STATE c, Handling(c), tx'.sent \in Seq(Frame), capture' = <<>>, PicoKind
    PROVE  PicoKind /\ Tidy
  BY HandlingFacts DEF Tidy, NoFault

\* A command that is refused, or whose answer has no room.
LEMMA RefusedKind ==
    ASSUME NEW STATE c, Handling(c), c.type # "MODE_SET", mode # "PASS", NEW reason \in Reasons,
           EnterError(reason, Quiet)
    PROVE  PicoKind /\ Tidy
<1>1. /\ mode' = "ERROR" /\ queue' = <<>> /\ ended' = FALSE /\ capture' = <<>>
      /\ tx'.sent \in Seq(Frame) /\ \A i \in 1..Len(tx'.sent) : Ending(tx'.sent[i])
  BY BaseFacts, ErrorStops DEF Handling
<1>2. PicoStop
  BY <1>1, HandlingFacts DEF PicoStop, NoFault
<1> QED
  BY <1>1, <1>2, HandledTidy DEF PicoKind

LEMMA OneIsSeq == ASSUME NEW S, NEW a \in S PROVE <<a>> \in Seq(S) /\ Len(<<a>>) = 1 /\ <<a>>[1] = a
  OBVIOUS

LEMMA TwoIsSeq ==
    ASSUME NEW S, NEW a \in S, NEW b \in S
    PROVE  <<a, b>> \in Seq(S) /\ Len(<<a, b>>) = 2 /\ <<a, b>>[1] = a /\ <<a, b>>[2] = b
  OBVIOUS

LEMMA FirstSaid ==
    ASSUME NEW STATE frame
    PROVE  /\ QueueFrame(Quiet, frame).sent = <<>> \/ QueueFrame(Quiet, frame).sent = <<frame>>
           /\ Fits(Quiet, frame.type) => QueueFrame(Quiet, frame).sent = <<frame>>
  BY AppendTo0 DEF QueueFrame, Quiet

LEMMA ModeSetKind ==
    ASSUME NEW STATE c, Handling(c), c.type = "MODE_SET", ModeSet(c.target)
    PROVE  PicoKind /\ Tidy
<1>0. "OK" \in Reasons /\ {"ARMED", "PASS"} \subseteq Modes /\ 0 \in 0..QueueCapacity
  BY CapacityAssumption DEF Reasons, Modes
<1>1. ASSUME NEW target \in {"ARMED", "PASS"}, c = SetMode(target), NEW old \in {"ARMED", "PASS"},
             mode = old, target # old
      PROVE  /\ mode' = target /\ queue' = <<>> /\ ended' = FALSE /\ capture' = <<>>
             /\ tx'.sent = <<>> \/ tx'.sent = <<ModeChanged(target, "OK")>>
             /\ tx'.sent \in Seq(Frame)
  <2>1. c.target = target
    BY <1>1, RequestTypes
  <2>2. EnterMode(target, "OK", Quiet)
    BY <1>1, <2>1 DEF ModeSet, SettableModes
  <2>3. mode' = target /\ queue' = <<>> /\ ended' = FALSE /\ capture' = <<>>
    BY <2>2 DEF EnterMode, ClearReleaseAndQueue, ClearAndRelease
  <2>4. ~running
    BY <1>1, BaseFacts DEF Handling
  <2>5. tx' = QueueFrame(Quiet, ModeChanged(target, "OK"))
    BY <2>2, <2>4 DEF EnterMode, StopRun
  <2>6. ModeChanged(target, "OK") \in Frame
    BY <1>0, FramesAre
  <2>7. tx'.sent = <<>> \/ tx'.sent = <<ModeChanged(target, "OK")>>
    BY <2>5, FirstSaid
  <2> QED
    BY <2>3, <2>6, <2>7, EmptyIsSeq, OneIsSeq
<1>2. CASE c = SetMode("ARMED")
  <2>1. mode = "PASS"
    BY <1>2 DEF Handling, Suits
  <2>2. /\ mode' = "ARMED" /\ queue' = <<>> /\ ended' = FALSE /\ capture' = <<>>
        /\ tx'.sent = <<>> \/ tx'.sent = <<ArmedNews>>
        /\ tx'.sent \in Seq(Frame)
    BY <1>1, <1>2, <2>1 DEF ArmedNews
  <2>3. PicoArm
    BY <1>2, <2>1, <2>2, HandlingFacts DEF PicoArm
  <2> QED
    BY <2>2, <2>3, HandledTidy DEF PicoKind
<1>3. CASE c = SetMode("PASS")
  <2>1. mode = "ARMED"
    BY <1>3 DEF Handling, Suits
  <2>2. /\ mode' = "PASS" /\ queue' = <<>> /\ ended' = FALSE /\ capture' = <<>>
        /\ tx'.sent = <<>> \/ tx'.sent = <<PassNews>>
        /\ tx'.sent \in Seq(Frame)
    BY <1>1, <1>3, <2>1 DEF PassNews
  <2>3. PicoPass
    BY <1>3, <2>1, <2>2, HandlingFacts DEF PicoPass
  <2> QED
    BY <2>2, <2>3, HandledTidy DEF PicoKind
<1> QED
  BY <1>2, <1>3, RequestKinds DEF Handling

LEMMA BytesOfRun ==
    \A t \in {"MODE_CHANGED", "PLAY_STARTED", "PLAY_FINISHED", "PLAY_METRICS"} : FrameBytes(t) \in Nat
  BY FrameBytesNat DEF PicoToZero, PayloadLen

LEMMA StartKind ==
    ASSUME NEW STATE c, Handling(c), c.type = "PLAY_START", PlayStart
    PROVE  PicoKind /\ Tidy
<1>0. c = Plain("PLAY_START") /\ Base
  BY RequestKinds DEF Handling
<1>1. CASE mode = "ERROR"
  <2>1. Notify("INVALID_TRANSITION", Quiet) /\ "INVALID_TRANSITION" \in Reasons /\ mode # "PASS"
    BY <1>1 DEF PlayStart, Reasons
  <2>2. EnterError("INVALID_TRANSITION", Quiet)
    BY <1>1, <2>1 DEF EnterError
  <2> QED
    BY <2>1, <2>2, RefusedKind
<1>2. CASE mode = "ARMED" /\ queue # <<>>
  <2> DEFINE r == QueueFrame(Quiet, StartNews)
             ring == QueueFrame(r, Plain("PLAY_STARTED"))
  <2>1. ClearAndRelease /\ ContinueRun(queue, FALSE, flowFault, ring)
    BY <1>2 DEF PlayStart, Drained, StartNews
  <2>2. r.sent = <<>> \/ r.sent = <<StartNews>>
    BY FirstSaid
  <2>10. RoomForRun => r.sent = <<StartNews>>
    <3>1. StartNews.type = "MODE_CHANGED" /\ Quiet.used = tx.used
      BY DEF StartNews, ModeChanged, Quiet
    <3>2. RoomForRun => Fits(Quiet, StartNews.type)
      <4>1. /\ FrameBytes("MODE_CHANGED") \in Nat /\ FrameBytes("PLAY_STARTED") \in Nat
            /\ FrameBytes("PLAY_FINISHED") \in Nat /\ FrameBytes("PLAY_METRICS") \in Nat
        BY BytesOfRun
      <4>2. tx.used \in Nat /\ TxCapacity \in Nat
        BY <1>0, CapacityAssumption DEF Base, IInv, RingOK
      <4>3. RoomForRun => tx.used + FrameBytes("MODE_CHANGED") =< TxCapacity
        BY <4>1, <4>2 DEF RoomForRun, RunStartBytes, RunEndBytes
      <4> QED
        BY <3>1, <4>3 DEF Fits
    <3> QED
      BY <3>2, FirstSaid
  <2>3. ring.sent = r.sent \/ ring.sent = Append(r.sent, Plain("PLAY_STARTED"))
    BY QueuedOnto
  <2> HIDE DEF r, ring
  <2>4. /\ mode' = "PLAYING" /\ queue' = queue /\ ended' = ended /\ tx'.sent = ring.sent
    BY <1>2, <2>1, ContinueSaid
  <2>5. \/ tx'.sent = <<>> \/ tx'.sent = <<StartNews>>
        \/ tx'.sent = <<Plain("PLAY_STARTED")>> \/ tx'.sent = <<StartNews, Plain("PLAY_STARTED")>>
    BY <2>2, <2>3, <2>4, AppendTo0, AppendTo1
  <2>6. StartNews \in Frame /\ Plain("PLAY_STARTED") \in Frame
    <3>1. "OK" \in Reasons /\ "PLAYING" \in Modes /\ 0 \in 0..QueueCapacity
      BY CapacityAssumption DEF Reasons, Modes
    <3> QED
      BY <3>1, FramesAre DEF StartNews
  <2>7. tx'.sent \in Seq(Frame)
    <3> DEFINE a == StartNews
               b == Plain("PLAY_STARTED")
    <3>1. a \in Frame /\ b \in Frame
      BY <2>6
    <3>2. tx'.sent = <<>> \/ tx'.sent = <<a>> \/ tx'.sent = <<b>> \/ tx'.sent = <<a, b>>
      BY <2>5
    <3> HIDE DEF a, b
    <3>3. <<>> \in Seq(Frame) /\ <<a>> \in Seq(Frame) /\ <<b>> \in Seq(Frame) /\ <<a, b>> \in Seq(Frame)
      BY <3>1, EmptyIsSeq, OneIsSeq, TwoIsSeq
    <3> QED
      BY <3>2, <3>3
  <2>11. RoomForRun => tx'.sent # <<>> /\ tx'.sent[1] = StartNews
    BY <2>3, <2>4, <2>10, AppendTo1
  <2>8. PicoStart
    BY <1>0, <1>2, <2>4, <2>5, <2>11, HandlingFacts, Zenon DEF PicoStart
  <2>9. capture' = <<>>
    BY <2>1 DEF ClearAndRelease
  <2> QED
    BY <2>7, <2>8, <2>9, HandledTidy DEF PicoKind
<1> QED
  BY <1>0, <1>1, <1>2 DEF Handling, Suits

LEMMA ClearKind ==
    ASSUME NEW STATE c, Handling(c), c.type = "QUEUE_CLEAR", QueueCommand(c)
    PROVE  PicoKind /\ Tidy
<1>0. c = Plain("QUEUE_CLEAR") /\ mode \in {"ARMED", "ERROR"} /\ Base /\ "PROTOCOL_ERROR" \in Reasons
  BY RequestKinds DEF Handling, Suits, Reasons
<1>1. CASE EnterError("PROTOCOL_ERROR", Quiet)
  BY <1>0, <1>1, RequestTypes, RefusedKind
<1>2. CASE QueueCommandAllowed(c.type, mode) /\ QueueClear /\ ~EnterError("PROTOCOL_ERROR", Quiet)
  <2>1. mode = "ARMED" /\ Fits(Quiet, "BUFFER_STATUS") /\ ~running
    BY <1>0, <1>2, BaseFacts DEF QueueCommandAllowed, QueueClear
  <2> DEFINE b == BufferStatus("ARMED", QueueCapacity)
  <2>2. /\ queue' = <<>> /\ ended' = FALSE /\ mode' = "ARMED" /\ capture' = capture
        /\ tx' = QueueFrame(Quiet, b)
    BY <1>2, <2>1 DEF QueueClear, capturing
  <2>3. b.type = "BUFFER_STATUS" /\ b \in Frame
    BY CapacityAssumption DEF BufferStatus, Frame, Modes
  <2> HIDE DEF b
  <2>4. tx'.sent = <<b>>
    BY <2>1, <2>2, <2>3, FirstSaid
  <2>5. PicoClear
    BY <1>0, <2>1, <2>2, <2>4, HandlingFacts DEF PicoClear, b
  <2>6. tx'.sent \in Seq(Frame)
    BY <2>3, <2>4, OneIsSeq
  <2>7. capture' = <<>>
    BY <1>0, <2>2, BaseFacts
  <2> QED
    BY <2>5, <2>6, <2>7, HandledTidy DEF PicoKind
<1> QED
  BY <1>0, <1>1, <1>2 DEF QueueCommand, Plain

LEMMA EventKind ==
    ASSUME NEW STATE c, Handling(c), c.type = "QUEUE_EVENT", QueueCommand(c)
    PROVE  PicoKind /\ Tidy
<1>0. mode # "PASS" /\ Base /\ "PROTOCOL_ERROR" \in Reasons
  BY DEF Handling, Suits, Reasons
<1>1. CASE EnterError("PROTOCOL_ERROR", Quiet)
  BY <1>0, <1>1, RequestTypes, RefusedKind
<1>2. CASE QueueCommandAllowed(c.type, mode) /\ QueueEvent(c.report) /\ ~EnterError("PROTOCOL_ERROR", Quiet)
  <2>1. mode \in {"ARMED", "PLAYING"} /\ Fits(Quiet, "BUFFER_STATUS") /\ Len(queue) < QueueCapacity
    BY <1>2 DEF QueueCommandAllowed, QueueEvent
  <2> DEFINE b == BufferStatus(mode, QueueCapacity - Len(queue) - 1)
  <2>2. /\ queue' = Append(queue, c.report) /\ ended' = ended /\ mode' = mode /\ capture' = capture
        /\ tx' = QueueFrame(Quiet, b)
    BY <1>2, <2>1 DEF QueueEvent, capturing
  <2>3. b.type = "BUFFER_STATUS" /\ b \in Frame
    <3>1. QueueCapacity - Len(queue) - 1 \in 0..QueueCapacity
      BY <1>0, <2>1, BaseFacts, CapacityAssumption
    <3>2. mode \in Modes
      BY <1>0, BaseFacts
    <3> QED
      BY <3>1, <3>2 DEF BufferStatus, Frame
  <2> HIDE DEF b
  <2>4. tx'.sent = <<b>>
    BY <2>1, <2>2, <2>3, FirstSaid
  <2>5. PicoAccept
    BY <1>0, <2>1, <2>2, <2>4, HandlingFacts DEF PicoAccept, b
  <2>6. tx'.sent \in Seq(Frame)
    BY <2>3, <2>4, OneIsSeq
  <2>7. capture' = <<>>
    BY <1>0, <2>2, BaseFacts
  <2> QED
    BY <2>5, <2>6, <2>7, HandledTidy DEF PicoKind
<1> QED
  BY <1>1, <1>2 DEF QueueCommand

LEMMA CloseKind ==
    ASSUME NEW STATE c, Handling(c), c.type = "QUEUE_END", QueueCommand(c)
    PROVE  PicoKind /\ Tidy
<1> DEFINE ready == Plain("PLAY_READY")
           ring == IF mode = "ARMED" THEN QueueFrame(Quiet, ready) ELSE Quiet
           b == BufferStatus(mode, QueueCapacity - Len(queue))
           bad == ModeChanged("ERROR", "PROTOCOL_ERROR")
<1>0. c = Plain("QUEUE_END") /\ mode # "PASS" /\ Base /\ "PROTOCOL_ERROR" \in Reasons
  BY RequestKinds DEF Handling, Suits, Reasons
<1>1. CASE EnterError("PROTOCOL_ERROR", Quiet)
  BY <1>0, <1>1, RequestTypes, RefusedKind
<1>2. /\ b.type = "BUFFER_STATUS" /\ b \in Frame /\ ready \in Frame
      /\ bad \in Frame /\ Ending(bad)
  <2>1. QueueCapacity - Len(queue) \in 0..QueueCapacity /\ mode \in Modes
    BY <1>0, BaseFacts, CapacityAssumption
  <2>2. bad \in EndFrames
    BY <1>0, <2>1, FramesAre
  <2> QED
    BY <1>0, <2>1, <2>2, FramesAre DEF BufferStatus, EndFrames
<1>3. mode # "ARMED" => ring.sent = <<>> /\ ring = Quiet
  BY DEF Quiet
<1>4. mode = "ARMED" => ring.sent = <<>> \/ ring.sent = <<ready>>
  BY FirstSaid
<1>5. CASE QueueCommandAllowed(c.type, mode) /\ QueueEnd
  <2>1. mode \in {"ARMED", "PLAYING"}
    BY <1>0, <1>5 DEF QueueCommandAllowed, Plain
  <2>2. CASE Fits(ring, "BUFFER_STATUS")
    <3>1. /\ ended' = TRUE /\ mode' = mode /\ queue' = queue /\ capture' = capture
          /\ tx' = QueueFrame(ring, b)
      BY <1>5, <2>2 DEF QueueEnd, capturing
    <3>2. tx'.sent = Append(ring.sent, b)
      BY <1>2, <2>2, <3>1 DEF QueueFrame
    <3> HIDE DEF ring, b, ready
    <3>3. tx'.sent = <<b>> \/ (mode = "ARMED" /\ tx'.sent = <<ready, b>>)
      BY <1>3, <1>4, <3>2, AppendTo0, AppendTo1
    <3>4. PicoClose
      BY <1>0, <2>1, <3>1, <3>3, HandlingFacts DEF PicoClose, b, ready
    <3>5. tx'.sent \in Seq(Frame)
      <4>1. <<b>> \in Seq(Frame) /\ <<ready, b>> \in Seq(Frame)
        BY <1>2, OneIsSeq, TwoIsSeq
      <4> QED
        BY <3>3, <4>1
    <3>6. capture' = <<>>
      BY <1>0, <3>1, BaseFacts
    <3> QED
      BY <3>4, <3>5, <3>6, HandledTidy DEF PicoKind
  <2>3. CASE ~Fits(ring, "BUFFER_STATUS")
    <3>1. EnterError("PROTOCOL_ERROR", ring)
      BY <1>5, <2>3 DEF QueueEnd
    <3>2. CASE mode = "PLAYING"
      <4>1. EnterError("PROTOCOL_ERROR", Quiet)
        BY <1>3, <3>1, <3>2
      <4> QED
        BY <1>0, <4>1, RequestTypes, RefusedKind
    <3>3. CASE mode = "ARMED"
      <4>1. EnterMode("ERROR", "PROTOCOL_ERROR", ring) /\ ~running
        BY <1>0, <3>1, <3>3, BaseFacts DEF EnterError
      <4>2. /\ mode' = "ERROR" /\ queue' = <<>> /\ ended' = FALSE /\ capture' = <<>>
            /\ tx' = QueueFrame(ring, bad)
        BY <4>1 DEF EnterMode, ClearReleaseAndQueue, ClearAndRelease, StopRun
      <4> HIDE DEF ring, ready, bad
      <4>3. tx'.sent = ring.sent \/ tx'.sent = Append(ring.sent, bad)
        BY <4>2, QueuedOnto
      <4>4. tx'.sent = <<>> \/ tx'.sent = <<bad>> \/ tx'.sent = <<ready>> \/ tx'.sent = <<ready, bad>>
        BY <1>4, <3>3, <4>3, AppendTo0, AppendTo1
      <4>5. /\ <<>> \in Seq(Frame) /\ <<bad>> \in Seq(Frame) /\ <<ready>> \in Seq(Frame)
            /\ <<ready, bad>> \in Seq(Frame)
        BY <1>2, EmptyIsSeq, OneIsSeq, TwoIsSeq
      <4>6. tx'.sent \in Seq(Frame)
        BY <4>4, <4>5
      <4>7. ASSUME NEW i \in 1..Len(tx'.sent)
            PROVE  Ending(tx'.sent[i]) \/ (i = 1 /\ tx'.sent[1] = ready)
        BY <1>2, <4>4
      <4>8. PicoStop
        BY <1>0, <3>3, <4>2, <4>7, HandlingFacts, RequestTypes DEF PicoStop, NoFault, ready
      <4> QED
        BY <4>2, <4>6, <4>8, HandledTidy DEF PicoKind
    <3> QED
      BY <2>1, <3>2, <3>3
  <2> QED
    BY <2>2, <2>3
<1> QED
  BY <1>0, <1>1, <1>5 DEF QueueCommand, Plain

LEMMA DispatchKind ==
    ASSUME Base, Suited, DispatchNext, played' = played
    PROVE  PicoKind /\ Tidy
<1> DEFINE c == Head(toPico)
<1>1. toPico \in Seq(Request) /\ toPico # <<>> /\ c \in Request
  <2>1. Len(toPico) > 0 /\ toPico \in Seq(Request)
    BY BaseFacts DEF DispatchNext
  <2>2. toPico # <<>>
    BY <2>1, EmptyIsSeq
  <2> QED
    BY <2>1, <2>2, HeadTailProperties
<1>2. NoFault /\ backlog > 0 /\ backlog' = backlog - 1 /\ Dispatch(c) /\ toPico' = Tail(toPico)
  BY BaseFacts DEF DispatchNext, DispatchCommand, NoFault, Goto
<1>3. Suits(c)
  BY <1>1, <1>2 DEF Suited, NoFault
<1>4. c.type \in {"MODE_SET", "QUEUE_CLEAR", "QUEUE_END", "PLAY_START", "QUEUE_EVENT"}
  BY <1>1, RequestKinds
<1> HIDE DEF c
<1>5. Handling(c)
  BY <1>1, <1>2, <1>3 DEF Handling, c
<1>6. CASE c.type = "MODE_SET"
  BY <1>2, <1>5, <1>6, ModeSetKind DEF Dispatch, QueueCommands
<1>7. CASE c.type = "PLAY_START"
  BY <1>2, <1>5, <1>7, StartKind DEF Dispatch, QueueCommands
<1>8. CASE c.type = "QUEUE_CLEAR"
  BY <1>2, <1>5, <1>8, ClearKind DEF Dispatch
<1>9. CASE c.type = "QUEUE_EVENT"
  BY <1>2, <1>5, <1>9, EventKind DEF Dispatch
<1>10. CASE c.type = "QUEUE_END"
  BY <1>2, <1>5, <1>10, CloseKind DEF Dispatch
<1> QED
  BY <1>4, <1>6, <1>7, <1>8, <1>9, <1>10

\* Every step of the Pico is one of the twelve kinds.
LEMMA PicoKinds ==
    ASSUME Base, Suited, PicoStep
    PROVE  PicoKind /\ Tidy /\ fromPico' = fromPico \o tx'.sent /\ UNCHANGED feeder
<1>1. CASE LoopBody /\ UNCHANGED <<toPico, played>>
  <2>1. SameWire /\ played' = played
    BY <1>1 DEF SameWire
  <2>2. ~RecordHead /\ ~ForwardHead
    BY BaseFacts DEF RecordHead, ForwardHead, MustRecordHead, MayForwardHead
  <2> QED
    BY <1>1, <2>1, <2>2, IdleKind, CheckKind, ResumeKind DEF LoopBody, PicoStep
<1>2. CASE PlayNext
  <2>1. SameWire /\ played' = played + 1 /\ SchedulerDispatch
    BY <1>2 DEF PlayNext, SameWire
  <2> QED
    BY <2>1, PlayKind DEF PicoStep
<1>3. CASE \E n \in 0..Len(toPico) : StreamPoll(n) /\ UNCHANGED played
  BY <1>3, PollKind DEF PicoStep
<1>4. CASE DispatchNext /\ UNCHANGED played
  BY <1>4, DispatchKind DEF PicoStep
<1> QED
  BY <1>1, <1>2, <1>3, <1>4 DEF PicoStep

-----------------------------------------------------------------------------
(* The acknowledgements on the wire, numbered. *)

\* Frames that number nothing.
NoStatus(w) == \A i \in 1..Len(w) : ~IsStatus(w[i])
NoUnderrun(w) == \A i \in 1..Len(w) : ~IsUnderrun(w[i])
\* The last frame, and no other, is a status.
LastStatus(w) ==
    /\ Len(w) > 0 /\ IsStatus(w[Len(w)])
    /\ \A i \in 1..(Len(w) - 1) : ~IsStatus(w[i])

LEMMA KindsDiffer == ASSUME NEW x, IsStatus(x) PROVE ~IsUnderrun(x)
  BY DEF IsStatus, IsUnderrun

LEMMA JoinedFrames ==
    ASSUME NEW w \in Seq(Frame), NEW s \in Seq(Frame)
    PROVE  /\ w \o s \in Seq(Frame) /\ Len(w) \in Nat /\ Len(s) \in Nat
           /\ Len(w \o s) = Len(w) + Len(s)
           /\ \A i \in 1..Len(w) : (w \o s)[i] = w[i]
           /\ \A i \in 1..(Len(w) + Len(s)) :
                 i > Len(w) => i - Len(w) \in 1..Len(s) /\ (w \o s)[i] = s[i - Len(w)]
<1>1. w \o s \in Seq(Frame) /\ Halves(w \o s, w, s) /\ Len(w) \in Nat /\ Len(s) \in Nat
  <2> DEFINE X == Frame
  <2>1. w \in Seq(X) /\ s \in Seq(X)
    OBVIOUS
  <2> HIDE DEF X
  <2>2. w \o s \in Seq(X) /\ Halves(w \o s, w, s) /\ Len(w) \in Nat /\ Len(s) \in Nat
    BY <2>1, ConcatHalves, ConcatProperties, LenProperties
  <2> QED
    BY <2>2 DEF X
<1> DEFINE v == w \o s
<1>2. Halves(v, w, s)
  BY <1>1
<1> HIDE DEF v
<1>3. ASSUME NEW i \in 1..(Len(w) + Len(s)), i > Len(w)
      PROVE  i - Len(w) \in 1..Len(s) /\ v[i] = s[i - Len(w)]
  <2> DEFINE j == i - Len(w)
  <2>1. j \in 1..Len(s) /\ i = Len(w) + j
    BY <1>1, <1>3
  <2> HIDE DEF j
  <2>2. v[Len(w) + j] = s[j]
    BY <1>2, <2>1 DEF Halves
  <2> QED
    BY <2>1, <2>2 DEF j
<1>4. Len(v) = Len(w) + Len(s) /\ \A i \in 1..Len(w) : v[i] = w[i]
  BY <1>2 DEF Halves
<1>5. v \in Seq(Frame)
  BY <1>1 DEF v
<1>6. \A i \in 1..(Len(w) + Len(s)) : i > Len(w) => i - Len(w) \in 1..Len(s) /\ v[i] = s[i - Len(w)]
  BY <1>3
<1> QED
  BY <1>1, <1>4, <1>5, <1>6 DEF v

LEMMA OutstandingGrows ==
    ASSUME NEW w \in Seq(Frame), NEW s \in Seq(Frame), NoStatus(s), NEW m \in Int, NEW n \in Int, m =< n,
           Outstanding(w, m)
    PROVE  Outstanding(w \o s, n)
<1> DEFINE v == w \o s
<1>1. /\ Len(w) \in Nat /\ Len(s) \in Nat /\ Len(v) = Len(w) + Len(s)
      /\ \A i \in 1..Len(w) : v[i] = w[i]
      /\ \A i \in 1..(Len(w) + Len(s)) : i > Len(w) => i - Len(w) \in 1..Len(s) /\ v[i] = s[i - Len(w)]
  BY JoinedFrames
<1>2. PICK f \in [1..Len(w) -> Nat] : Numbers(f, w, m)
  BY DEF Outstanding
<1> HIDE DEF v
<1> DEFINE g == [i \in 1..Len(v) |-> IF i =< Len(w) THEN f[i] ELSE 0]
<1>3. g \in [1..Len(v) -> Nat]
  BY <1>1
<1>3a. \A i \in 1..Len(w) : g[i] = f[i]
  BY <1>1
<1> HIDE DEF g
<1>4. \A i \in 1..Len(v) : IsStatus(v[i]) => i \in 1..Len(w) /\ v[i] = w[i] /\ g[i] = f[i]
  <2>1. ASSUME NEW i \in 1..Len(v), IsStatus(v[i]) PROVE i \in 1..Len(w)
    <3>1. ASSUME i > Len(w) PROVE FALSE
      <4>1. i - Len(w) \in 1..Len(s) /\ v[i] = s[i - Len(w)]
        BY <1>1, <2>1, <3>1
      <4> QED
        BY <2>1, <4>1 DEF NoStatus
    <3> QED
      BY <1>1, <2>1, <3>1
  <2> QED
    BY <1>1, <1>3a, <2>1
<1>5. Numbers(g, v, n)
  <2>1. ASSUME NEW i \in 1..Len(v), IsStatus(v[i]) PROVE g[i] \in 1..n
    <3>1. i \in 1..Len(w) /\ IsStatus(w[i]) /\ g[i] = f[i]
      BY <1>4, <2>1
    <3>2. f[i] \in 1..m
      BY <1>2, <3>1 DEF Numbers
    <3> QED
      BY <3>1, <3>2
  <2>2. ASSUME NEW i \in 1..Len(v), NEW j \in 1..Len(v), i < j, IsStatus(v[i]), IsStatus(v[j])
        PROVE  g[i] < g[j]
    <3>1. /\ i \in 1..Len(w) /\ IsStatus(w[i]) /\ g[i] = f[i]
          /\ j \in 1..Len(w) /\ IsStatus(w[j]) /\ g[j] = f[j]
      BY <1>4, <2>2
    <3>2. f[i] < f[j]
      BY <1>2, <2>2, <3>1 DEF Numbers
    <3> QED
      BY <3>1, <3>2
  <2> QED
    BY <1>3, <2>1, <2>2 DEF Numbers
<1> QED
  BY <1>3, <1>5 DEF Outstanding, v

\* The label of the last acknowledgement.
LEMMA AckNumbered ==
    ASSUME NEW w \in Seq(Frame), NEW s \in Seq(Frame), LastStatus(s), NEW m \in Nat, Outstanding(w, m)
    PROVE  \E g \in [1..Len(w \o s) -> Nat] :
              /\ Numbers(g, w \o s, m + 1)
              /\ g[Len(w \o s)] = m + 1
              /\ \A i \in 1..Len(w \o s) :
                    IsStatus((w \o s)[i]) /\ i # Len(w \o s) => g[i] =< m /\ i =< Len(w)
<1> DEFINE v == w \o s
<1>1. /\ Len(w) \in Nat /\ Len(s) \in Nat /\ Len(v) = Len(w) + Len(s)
      /\ \A i \in 1..Len(w) : v[i] = w[i]
      /\ \A i \in 1..(Len(w) + Len(s)) : i > Len(w) => i - Len(w) \in 1..Len(s) /\ v[i] = s[i - Len(w)]
  BY JoinedFrames
<1>2. PICK f \in [1..Len(w) -> Nat] : Numbers(f, w, m)
  BY DEF Outstanding
<1> HIDE DEF v
<1> DEFINE g == [i \in 1..Len(v) |-> IF i =< Len(w) THEN f[i] ELSE m + 1]
<1>3. g \in [1..Len(v) -> Nat] /\ Len(s) > 0 /\ g[Len(v)] = m + 1
  BY <1>1 DEF LastStatus
<1>4. \A i \in 1..Len(v) : IsStatus(v[i]) /\ i # Len(v) => i \in 1..Len(w) /\ v[i] = w[i] /\ g[i] = f[i]
  <2>1. ASSUME NEW i \in 1..Len(v), IsStatus(v[i]), i # Len(v), i > Len(w) PROVE FALSE
    <3>1. i - Len(w) \in 1..(Len(s) - 1) /\ v[i] = s[i - Len(w)]
      BY <1>1, <2>1
    <3> QED
      BY <2>1, <3>1 DEF LastStatus
  <2> QED
    BY <1>1, <2>1
<1> HIDE DEF g
<1>5. Numbers(g, v, m + 1)
  <2>1. \A i \in 1..Len(v) : IsStatus(v[i]) => g[i] \in 1..(m + 1)
    BY <1>1, <1>2, <1>3, <1>4 DEF Numbers
  <2>2. ASSUME NEW i \in 1..Len(v), NEW j \in 1..Len(v), i < j, IsStatus(v[i]), IsStatus(v[j])
        PROVE  g[i] < g[j]
    <3>1. i # Len(v) /\ i \in 1..Len(w) /\ g[i] = f[i] /\ f[i] \in 1..m
      BY <1>1, <1>2, <1>4, <2>2 DEF Numbers
    <3>2. CASE j = Len(v)
      BY <1>3, <3>1, <3>2
    <3>3. CASE j # Len(v)
      <4>1. j \in 1..Len(w) /\ g[j] = f[j]
        BY <1>4, <2>2, <3>3
      <4> QED
        BY <1>2, <1>4, <2>2, <3>1, <3>3, <4>1 DEF Numbers
    <3> QED
      BY <3>2, <3>3
  <2> QED
    BY <1>3, <2>1, <2>2 DEF Numbers
<1>6. \A i \in 1..Len(v) : IsStatus(v[i]) /\ i # Len(v) => g[i] =< m /\ i =< Len(w)
  BY <1>1, <1>2, <1>4 DEF Numbers
<1> QED
  BY <1>3, <1>5, <1>6 DEF v

LEMMA OutstandingAcked ==
    ASSUME NEW w \in Seq(Frame), NEW s \in Seq(Frame), LastStatus(s), NEW m \in Nat, Outstanding(w, m)
    PROVE  Outstanding(w \o s, m + 1)
  BY AckNumbered DEF Outstanding

LEMMA AckSettles ==
    ASSUME NEW w \in Seq(Frame), NEW s \in Seq(Frame), LastStatus(s), NoUnderrun(s),
           NEW d \in Nat, d > 0, Outstanding(w, d - 1), NEW q \in Nat, NEW c,
           s[Len(s)].free + q =< QueueCapacity
    PROVE  Settled(w \o s, d, q, c)
<1> DEFINE v == w \o s
<1>1. /\ Len(w) \in Nat /\ Len(s) \in Nat /\ Len(v) = Len(w) + Len(s)
      /\ \A i \in 1..Len(w) : v[i] = w[i]
      /\ \A i \in 1..(Len(w) + Len(s)) : i > Len(w) => i - Len(w) \in 1..Len(s) /\ v[i] = s[i - Len(w)]
  BY JoinedFrames
<1> DEFINE m == d - 1
<1>2. m \in Nat /\ m + 1 = d /\ Outstanding(w, m)
  OBVIOUS
<1> HIDE DEF m
<1>3. PICK g \in [1..Len(v) -> Nat] :
              /\ Numbers(g, v, d)
              /\ g[Len(v)] = d
              /\ \A i \in 1..Len(v) : IsStatus(v[i]) /\ i # Len(v) => g[i] =< m /\ i =< Len(w)
  <2>1. \E g \in [1..Len(v) -> Nat] :
              /\ Numbers(g, v, m + 1)
              /\ g[Len(v)] = m + 1
              /\ \A i \in 1..Len(v) : IsStatus(v[i]) /\ i # Len(v) => g[i] =< m /\ i =< Len(w)
    BY <1>2, AckNumbered, Zenon
  <2> QED
    BY <1>2, <2>1
<1> HIDE DEF v
<1>4. Len(s) > 0 /\ v[Len(v)] = s[Len(s)] /\ IsStatus(v[Len(v)]) /\ Len(v) \in 1..Len(v)
  <2>1. Len(s) > 0 /\ Len(v) \in 1..(Len(w) + Len(s)) /\ Len(v) > Len(w) /\ Len(v) - Len(w) = Len(s)
    BY <1>1 DEF LastStatus
  <2> QED
    BY <1>1, <2>1 DEF LastStatus
<1>5. Numbers(g, v, d + 1)
  BY <1>3 DEF Numbers
<1>6. Frees(g, v, d, q, c)
  BY <1>2, <1>3, <1>4 DEF Frees
<1>7. Underruns(g, v, d, q)
  <2>1. ASSUME NEW j \in 1..Len(v), IsUnderrun(v[j])
        PROVE  \E k \in (j + 1)..Len(v) : IsStatus(v[k]) /\ g[k] =< d
    <3>1. j # Len(v)
      BY <1>4, <2>1, KindsDiffer
    <3>2. Len(v) \in (j + 1)..Len(v)
      BY <1>1, <3>1
    <3> QED
      BY <1>3, <1>4, <3>2
  <2> QED
    BY <2>1 DEF Underruns
<1> QED
  BY <1>5, <1>6, <1>7 DEF Settled, v

LEMMA LostSettles ==
    ASSUME NEW w \in Seq(Frame), NEW s \in Seq(Frame), NoStatus(s),
           NEW d \in Nat, Outstanding(w, d - 1), NEW c
    PROVE  Settled(w \o s, d, 0, c)
<1> DEFINE v == w \o s
<1>1. d - 1 \in Int /\ d - 1 =< d - 1
  OBVIOUS
<1>2. Outstanding(v, d - 1)
  BY <1>1, OutstandingGrows
<1> HIDE DEF v
<1>3. PICK g \in [1..Len(v) -> Nat] : Numbers(g, v, d - 1)
  BY <1>2 DEF Outstanding
<1>4. Numbers(g, v, d + 1)
  BY <1>3 DEF Numbers
<1>5. \A i \in 1..Len(v) : IsStatus(v[i]) => g[i] =< d - 1
  BY <1>3 DEF Numbers
<1>6. Frees(g, v, d, 0, c)
  BY <1>5 DEF Frees
<1>7. Underruns(g, v, d, 0)
  <2>1. ASSUME NEW j \in 1..Len(v), NEW k \in (j + 1)..Len(v), IsStatus(v[k])
        PROVE  g[k] =< d
    <3>1. k \in 1..Len(v)
      BY <2>1
    <3> QED
      BY <1>5, <2>1, <3>1
  <2> QED
    BY <2>1 DEF Underruns
<1> QED
  BY <1>4, <1>6, <1>7 DEF Settled, v

LEMMA FrameFields ==
    ASSUME NEW x \in Frame
    PROVE  /\ IsStatus(x) => x.free \in 0..QueueCapacity /\ x.state \in Modes
           /\ IsUnderrun(x) => x.free = QueueCapacity
  BY CapacityAssumption DEF Frame, IsStatus, IsUnderrun

\* Frames without a status follow, and the queue has not grown.
LEMMA SettledGrows ==
    ASSUME NEW w \in Seq(Frame), NEW s \in Seq(Frame), NoStatus(s), NEW d \in Nat,
           NEW q \in Nat, NEW p \in Nat, p =< q, NoUnderrun(s) \/ p = 0, NEW c, Settled(w, d, q, c)
    PROVE  Settled(w \o s, d, p, c)
<1> DEFINE v == w \o s
<1>1. /\ Len(w) \in Nat /\ Len(s) \in Nat /\ Len(v) = Len(w) + Len(s)
      /\ \A i \in 1..Len(w) : v[i] = w[i]
      /\ \A i \in 1..(Len(w) + Len(s)) : i > Len(w) => i - Len(w) \in 1..Len(s) /\ v[i] = s[i - Len(w)]
  BY JoinedFrames
<1>2. PICK f \in [1..Len(w) -> Nat] : Numbers(f, w, d + 1) /\ Frees(f, w, d, q, c) /\ Underruns(f, w, d, q)
  BY DEF Settled
<1> HIDE DEF v
<1> DEFINE g == [i \in 1..Len(v) |-> IF i =< Len(w) THEN f[i] ELSE 0]
<1>3. g \in [1..Len(v) -> Nat]
  BY <1>1
<1>4. \A i \in 1..Len(v) : IsStatus(v[i]) => i \in 1..Len(w) /\ v[i] = w[i] /\ g[i] = f[i]
  <2>1. ASSUME NEW i \in 1..Len(v), i > Len(w) PROVE ~IsStatus(v[i])
    <3>1. i - Len(w) \in 1..Len(s) /\ v[i] = s[i - Len(w)]
      BY <1>1, <2>1
    <3> QED
      BY <3>1 DEF NoStatus
  <2>2. ASSUME NEW i \in 1..Len(v), i =< Len(w) PROVE i \in 1..Len(w) /\ v[i] = w[i] /\ g[i] = f[i]
    BY <1>1, <2>2
  <2>3. \A i \in 1..Len(v) : i > Len(w) \/ i =< Len(w)
    BY <1>1
  <2> QED
    BY <2>1, <2>2, <2>3
<1>4a. \A i \in 1..Len(w) : i \in 1..Len(v) /\ v[i] = w[i] /\ g[i] = f[i]
  BY <1>1
<1> HIDE DEF g
<1>5. Numbers(g, v, d + 1)
  BY <1>1, <1>2, <1>3, <1>4 DEF Numbers
<1>6. Frees(g, v, d, p, c)
  <2>1. ASSUME NEW i \in 1..Len(v), IsStatus(v[i]), g[i] >= d PROVE v[i].free + p =< QueueCapacity
    <3>1. i \in 1..Len(w) /\ v[i] = w[i] /\ f[i] >= d
      BY <1>4, <2>1
    <3>2. w[i].free + q =< QueueCapacity /\ w[i].free \in 0..QueueCapacity
      BY <1>2, <2>1, <3>1, FrameFields, ElementOfSeq DEF Frees
    <3> QED
      BY <3>1, <3>2, CapacityAssumption
  <2>2. ASSUME NEW i \in 1..Len(v), IsStatus(v[i]), g[i] = d + 1
        PROVE  /\ v[i].free > 0 /\ v[i].state = "PLAYING" /\ (d = 0 => c = 0)
               /\ \A k \in 1..Len(v) : IsStatus(v[k]) /\ g[k] = d => v[k].free = 0
    <3>1. i \in 1..Len(w) /\ v[i] = w[i] /\ f[i] = d + 1
      BY <1>4, <2>2
    <3> QED
      BY <1>2, <1>4, <2>2, <3>1 DEF Frees
  <2> QED
    BY <2>1, <2>2 DEF Frees
<1>7. Underruns(g, v, d, p)
  <2>1. ASSUME NEW j \in 1..Len(v), IsUnderrun(v[j]), j > Len(w)
        PROVE  p = 0 /\ \A k \in (j + 1)..Len(v) : ~IsStatus(v[k])
    <3>1. j - Len(w) \in 1..Len(s) /\ v[j] = s[j - Len(w)]
      BY <1>1, <2>1
    <3>2. p = 0
      BY <2>1, <3>1 DEF NoUnderrun
    <3>3. ASSUME NEW k \in (j + 1)..Len(v), IsStatus(v[k]) PROVE FALSE
      <4>1. k \in 1..Len(v) /\ k > Len(w)
        BY <1>1, <2>1, <3>3
      <4>2. k \in 1..Len(w)
        BY <1>4, <3>3, <4>1
      <4> QED
        BY <1>1, <4>1, <4>2
    <3> QED
      BY <3>2, <3>3
  <2>2. ASSUME NEW j \in 1..Len(v), IsUnderrun(v[j]), j =< Len(w)
        PROVE  \/ \E k \in (j + 1)..Len(v) : IsStatus(v[k]) /\ g[k] =< d
               \/ p = 0 /\ \A k \in (j + 1)..Len(v) : ~IsStatus(v[k])
    <3>1. j \in 1..Len(w) /\ IsUnderrun(w[j])
      BY <1>1, <2>2
    <3>2. CASE \E k \in (j + 1)..Len(w) : IsStatus(w[k]) /\ f[k] =< d
      <4>1. PICK k \in (j + 1)..Len(w) : IsStatus(w[k]) /\ f[k] =< d
        BY <3>2
      <4>2. k \in (j + 1)..Len(v) /\ k \in 1..Len(w)
        BY <1>1, <4>1
      <4> QED
        BY <1>4a, <4>1, <4>2
    <3>3. CASE q = 0 /\ \A k \in (j + 1)..Len(w) : ~IsStatus(w[k])
      <4>1. p = 0
        BY <3>3
      <4>2. ASSUME NEW k \in (j + 1)..Len(v), IsStatus(v[k]) PROVE FALSE
        <5>1. k \in 1..Len(v)
          BY <1>1, <4>2
        <5>2. k \in 1..Len(w) /\ v[k] = w[k]
          BY <1>4, <4>2, <5>1
        <5>3. k \in (j + 1)..Len(w)
          BY <1>1, <4>2, <5>2
        <5> QED
          BY <3>3, <4>2, <5>2, <5>3
      <4> QED
        BY <4>1, <4>2
    <3> QED
      BY <1>2, <3>1, <3>2, <3>3 DEF Underruns
  <2>3. \A j \in 1..Len(v) : j > Len(w) \/ j =< Len(w)
    BY <1>1
  <2> QED
    BY <2>1, <2>2, <2>3 DEF Underruns
<1> QED
  BY <1>3, <1>5, <1>6, <1>7 DEF Settled, v

\* The notice that a full queue has space.
LEMMA SettledNotice ==
    ASSUME NEW w \in Seq(Frame), NEW s \in Seq(Frame), Len(s) = 1, IsStatus(s[1]), NEW d \in Nat,
           s[1].free = 1, s[1].state = "PLAYING", NEW q \in Nat, q = QueueCapacity, q > 0,
           NEW c, d = 0 => c = 0, Settled(w, d, q, c)
    PROVE  Settled(w \o s, d, q - 1, c)
<1> DEFINE v == w \o s
           n == Len(w) + 1
<1>1. /\ Len(w) \in Nat /\ Len(v) = Len(w) + 1
      /\ \A i \in 1..Len(w) : v[i] = w[i]
      /\ v[n] = s[1]
  <2>1. /\ Len(w) \in Nat /\ Len(s) \in Nat /\ Len(v) = Len(w) + Len(s)
        /\ \A i \in 1..Len(w) : v[i] = w[i]
        /\ \A i \in 1..(Len(w) + Len(s)) : i > Len(w) => i - Len(w) \in 1..Len(s) /\ v[i] = s[i - Len(w)]
    BY JoinedFrames
  <2>2. n \in 1..(Len(w) + Len(s)) /\ n > Len(w) /\ n - Len(w) = 1
    BY <2>1
  <2> QED
    BY <2>1, <2>2
<1>2. PICK f \in [1..Len(w) -> Nat] : Numbers(f, w, d + 1) /\ Frees(f, w, d, q, c) /\ Underruns(f, w, d, q)
  BY DEF Settled
<1> HIDE DEF v
<1>2a. \A i \in 1..Len(v) : i \in 1..Len(w) \/ i = n
  BY <1>1
<1>2b. n \in 1..Len(v) /\ \A i \in 1..Len(w) : i \in 1..Len(v) /\ i < n
  BY <1>1
<1> DEFINE g == [i \in 1..Len(v) |-> IF i =< Len(w) THEN f[i] ELSE d + 1]
<1>3. g \in [1..Len(v) -> Nat] /\ g[n] = d + 1 /\ \A i \in 1..Len(w) : g[i] = f[i] /\ v[i] = w[i]
  BY <1>1, <1>2b
<1> HIDE DEF g
<1>4. \A i \in 1..Len(w) : IsStatus(w[i]) => w[i].free \in 0..QueueCapacity
  BY FrameFields, ElementOfSeq
<1>5. \A i \in 1..Len(w) : IsStatus(w[i]) => f[i] \in 1..d
  <2>1. ASSUME NEW i \in 1..Len(w), IsStatus(w[i]), f[i] = d + 1 PROVE FALSE
    <3>1. w[i].free > 0 /\ w[i].free + q =< QueueCapacity /\ w[i].free \in 0..QueueCapacity
      BY <1>2, <1>4, <2>1 DEF Frees
    <3> QED
      BY <3>1, CapacityAssumption
  <2> QED
    BY <1>2, <2>1 DEF Numbers
<1>6. \A i \in 1..Len(w) : IsStatus(w[i]) /\ f[i] = d => w[i].free = 0
  <2>1. ASSUME NEW i \in 1..Len(w), IsStatus(w[i]), f[i] = d PROVE w[i].free = 0
    <3>1. w[i].free + q =< QueueCapacity /\ w[i].free \in 0..QueueCapacity
      BY <1>2, <1>4, <2>1 DEF Frees
    <3> QED
      BY <3>1, CapacityAssumption
  <2> QED
    BY <2>1
<1> HIDE DEF n
<1>7. Numbers(g, v, d + 1)
  <2>1. \A i \in 1..Len(v) : IsStatus(v[i]) => g[i] \in 1..(d + 1)
    BY <1>2a, <1>3, <1>5
  <2>2. ASSUME NEW i \in 1..Len(v), NEW j \in 1..Len(v), i < j, IsStatus(v[i]), IsStatus(v[j])
        PROVE  g[i] < g[j]
    <3>1. i \in 1..Len(w)
      BY <1>1, <1>2a, <2>2 DEF n
    <3>2. g[i] = f[i] /\ IsStatus(w[i]) /\ f[i] \in 1..d
      BY <1>3, <1>5, <2>2, <3>1
    <3>3. CASE j = n
      BY <1>3, <3>2, <3>3
    <3>4. CASE j \in 1..Len(w)
      BY <1>2, <1>3, <2>2, <3>1, <3>2, <3>4 DEF Numbers
    <3> QED
      BY <1>2a, <3>3, <3>4
  <2> QED
    BY <1>3, <2>1, <2>2 DEF Numbers
<1>8. Frees(g, v, d, q - 1, c)
  <2>1. ASSUME NEW i \in 1..Len(v), IsStatus(v[i]), g[i] >= d PROVE v[i].free + (q - 1) =< QueueCapacity
    <3>1. CASE i = n
      BY <1>1, <3>1
    <3>2. CASE i \in 1..Len(w)
      <4>1. w[i].free + q =< QueueCapacity /\ w[i].free \in 0..QueueCapacity
        BY <1>2, <1>3, <1>4, <2>1, <3>2 DEF Frees
      <4> QED
        BY <1>3, <3>2, <4>1, CapacityAssumption
    <3> QED
      BY <1>2a, <3>1, <3>2
  <2>2. ASSUME NEW i \in 1..Len(v), IsStatus(v[i]), g[i] = d + 1
        PROVE  /\ v[i].free > 0 /\ v[i].state = "PLAYING" /\ (d = 0 => c = 0)
               /\ \A k \in 1..Len(v) : IsStatus(v[k]) /\ g[k] = d => v[k].free = 0
    <3>1. i = n
      <4>1. i \in 1..Len(w) => f[i] \in 1..d /\ f[i] = d + 1
        BY <1>3, <1>5, <2>2
      <4>2. i \notin 1..Len(w)
        BY <4>1
      <4> QED
        BY <1>2a, <4>2
    <3>2. ASSUME NEW k \in 1..Len(v), IsStatus(v[k]), g[k] = d PROVE v[k].free = 0
      <4>1. k # n
        BY <1>3, <3>2
      <4>2. k \in 1..Len(w)
        BY <1>2a, <4>1
      <4> QED
        BY <1>3, <1>6, <3>2, <4>2
    <3>3. v[i].free > 0 /\ v[i].state = "PLAYING" /\ (d = 0 => c = 0)
      BY <1>1, <3>1
    <3> QED
      BY <3>2, <3>3
  <2> QED
    BY <2>1, <2>2 DEF Frees
<1>9. Underruns(g, v, d, q - 1)
  <2>1. ASSUME NEW j \in 1..Len(v), IsUnderrun(v[j])
        PROVE  \E k \in (j + 1)..Len(v) : IsStatus(v[k]) /\ g[k] =< d
    <3>1. j # n
      BY <1>1, <2>1, KindsDiffer
    <3>2. j \in 1..Len(w) /\ IsUnderrun(w[j])
      BY <1>2a, <1>3, <2>1, <3>1
    <3>3. PICK k \in (j + 1)..Len(w) : IsStatus(w[k]) /\ f[k] =< d
      BY <1>2, <3>2 DEF Underruns
    <3>4. k \in (j + 1)..Len(v) /\ k \in 1..Len(w)
      BY <1>1, <3>2, <3>3
    <3> QED
      BY <1>3, <3>3, <3>4
  <2> QED
    BY <2>1 DEF Underruns
<1> QED
  BY <1>3, <1>7, <1>8, <1>9 DEF Settled, v

LEMMA TailFrames ==
    ASSUME NEW w \in Seq(Frame), w # <<>>
    PROVE  /\ Tail(w) \in Seq(Frame) /\ Len(w) \in Nat /\ Len(w) > 0 /\ Len(Tail(w)) \in Nat
           /\ Len(Tail(w)) = Len(w) - 1
           /\ \A i \in 1..Len(Tail(w)) : i + 1 \in 1..Len(w) /\ Tail(w)[i] = w[i + 1]
           /\ Head(w) = w[1] /\ w[1] \in Frame
  OBVIOUS

LEMMA NoneOutstanding ==
    ASSUME NEW w \in Seq(Frame), NEW m \in Int
    PROVE  /\ m =< 0 /\ Outstanding(w, m) => NoStatus(w)
           /\ NoStatus(w) => Outstanding(w, m)
<1>1. ASSUME m =< 0, Outstanding(w, m) PROVE NoStatus(w)
  <2>1. PICK f \in [1..Len(w) -> Nat] : Numbers(f, w, m)
    BY <1>1 DEF Outstanding
  <2> QED
    BY <1>1, <2>1 DEF Numbers, NoStatus
<1>2. ASSUME NoStatus(w) PROVE Outstanding(w, m)
  <2> DEFINE f == [i \in 1..Len(w) |-> 0]
  <2>1. f \in [1..Len(w) -> Nat] /\ Numbers(f, w, m)
    BY <1>2 DEF Numbers, NoStatus
  <2> QED
    BY <2>1 DEF Outstanding
<1> QED
  BY <1>1, <1>2

LEMMA NoneSettled ==
    ASSUME NEW w \in Seq(Frame), NoStatus(w), NEW d \in Nat, NEW q \in Nat, NEW c, NoUnderrun(w) \/ q = 0
    PROVE  Settled(w, d, q, c)
<1> DEFINE f == [i \in 1..Len(w) |-> 0]
<1>1. f \in [1..Len(w) -> Nat]
  OBVIOUS
<1> HIDE DEF f
<1>2. Numbers(f, w, d + 1) /\ Frees(f, w, d, q, c)
  BY <1>1 DEF Numbers, Frees, NoStatus
<1>3. Underruns(f, w, d, q)
  <2>1. Len(w) \in Nat
    OBVIOUS
  <2>2. \A j \in 1..Len(w) : \A k \in (j + 1)..Len(w) : ~IsStatus(w[k])
    BY <2>1 DEF NoStatus
  <2> QED
    BY <2>2 DEF Underruns, NoUnderrun
<1> QED
  BY <1>1, <1>2, <1>3 DEF Settled

LEMMA OutstandingRead ==
    ASSUME NEW w \in Seq(Frame), w # <<>>, NEW m \in Int, Outstanding(w, m)
    PROVE  /\ ~IsStatus(w[1]) => Outstanding(Tail(w), m)
           /\ IsStatus(w[1]) => m >= 1 /\ Outstanding(Tail(w), m - 1)
<1> DEFINE t == Tail(w)
<1>1. /\ Len(w) \in Nat /\ Len(w) > 0 /\ Len(t) \in Nat /\ Len(t) = Len(w) - 1 /\ 1 \in 1..Len(w)
      /\ \A i \in 1..Len(t) : i + 1 \in 1..Len(w) /\ t[i] = w[i + 1]
  BY TailFrames
<1>2. PICK f \in [1..Len(w) -> Nat] : Numbers(f, w, m)
  BY DEF Outstanding
<1> HIDE DEF t
<1>3. ASSUME ~IsStatus(w[1]) PROVE Outstanding(t, m)
  <2> DEFINE g == [i \in 1..Len(t) |-> f[i + 1]]
  <2>1. g \in [1..Len(t) -> Nat] /\ \A i \in 1..Len(t) : g[i] = f[i + 1]
    BY <1>1
  <2> HIDE DEF g
  <2>2. Numbers(g, t, m)
    <3>1. \A i \in 1..Len(t) : IsStatus(t[i]) => g[i] \in 1..(m)
      BY <1>1, <1>2, <2>1 DEF Numbers
    <3>2. ASSUME NEW i \in 1..Len(t), NEW j \in 1..Len(t), i < j, IsStatus(t[i]), IsStatus(t[j])
          PROVE  g[i] < g[j]
      <4>1. /\ i + 1 \in 1..Len(w) /\ j + 1 \in 1..Len(w) /\ i + 1 < j + 1
            /\ IsStatus(w[i + 1]) /\ IsStatus(w[j + 1])
        BY <1>1, <3>2
      <4> QED
        BY <1>1, <1>2, <2>1, <3>2, <4>1 DEF Numbers
    <3> QED
      BY <2>1, <3>1, <3>2 DEF Numbers
  <2> QED
    BY <2>1, <2>2 DEF Outstanding
<1>4. ASSUME IsStatus(w[1]) PROVE m >= 1 /\ Outstanding(t, m - 1)
  <2> DEFINE g == [i \in 1..Len(t) |-> IF IsStatus(t[i]) THEN f[i + 1] - 1 ELSE 0]
  <2>1. f[1] \in 1..m /\ m >= 1
    BY <1>1, <1>2, <1>4 DEF Numbers
  <2>2. \A i \in 1..Len(t) : IsStatus(t[i]) => f[i + 1] \in 2..m
    <3>1. ASSUME NEW i \in 1..Len(t), IsStatus(t[i]) PROVE f[i + 1] \in 2..m
      <4>1. i + 1 \in 1..Len(w) /\ IsStatus(w[i + 1]) /\ 1 < i + 1
        BY <1>1, <3>1
      <4>2. f[i + 1] \in 1..m /\ f[1] < f[i + 1]
        BY <1>1, <1>2, <1>4, <4>1 DEF Numbers
      <4> QED
        BY <2>1, <4>2
    <3> QED
      BY <3>1
  <2>3. g \in [1..Len(t) -> Nat] /\ \A i \in 1..Len(t) : IsStatus(t[i]) => g[i] = f[i + 1] - 1
    BY <2>2
  <2> HIDE DEF g
  <2>4. Numbers(g, t, m - 1)
    <3>1. \A i \in 1..Len(t) : IsStatus(t[i]) => g[i] \in 1..(m - 1)
      BY <2>2, <2>3
    <3>2. ASSUME NEW i \in 1..Len(t), NEW j \in 1..Len(t), i < j, IsStatus(t[i]), IsStatus(t[j])
          PROVE  g[i] < g[j]
      <4>1. /\ i + 1 \in 1..Len(w) /\ j + 1 \in 1..Len(w) /\ i + 1 < j + 1
            /\ IsStatus(w[i + 1]) /\ IsStatus(w[j + 1])
        BY <1>1, <3>2
      <4>2. f[i + 1] < f[j + 1]
        BY <1>2, <4>1 DEF Numbers
      <4> QED
        BY <2>2, <2>3, <3>2, <4>2
    <3> QED
      BY <2>3, <3>1, <3>2 DEF Numbers
  <2> QED
    BY <2>1, <2>3, <2>4 DEF Outstanding
<1> QED
  BY <1>3, <1>4 DEF t

\* A frame that is no status is read.
LEMMA SettledRead ==
    ASSUME NEW w \in Seq(Frame), w # <<>>, ~IsStatus(w[1]), NEW d \in Nat, NEW q \in Nat, NEW c,
           Settled(w, d, q, c)
    PROVE  Settled(Tail(w), d, q, c)
<1> DEFINE t == Tail(w)
<1>1. /\ Len(w) \in Nat /\ Len(w) > 0 /\ Len(t) \in Nat /\ Len(t) = Len(w) - 1 /\ 1 \in 1..Len(w)
      /\ \A i \in 1..Len(t) : i + 1 \in 1..Len(w) /\ t[i] = w[i + 1]
  BY TailFrames
<1>2. PICK f \in [1..Len(w) -> Nat] : Numbers(f, w, d + 1) /\ Frees(f, w, d, q, c) /\ Underruns(f, w, d, q)
  BY DEF Settled
<1> HIDE DEF t
<1> DEFINE g == [i \in 1..Len(t) |-> f[i + 1]]
<1>3. g \in [1..Len(t) -> Nat] /\ \A i \in 1..Len(t) : g[i] = f[i + 1]
  BY <1>1
<1> HIDE DEF g
<1>4. Numbers(g, t, d + 1)
  <2>1. \A i \in 1..Len(t) : IsStatus(t[i]) => g[i] \in 1..(d + 1)
    BY <1>1, <1>2, <1>3 DEF Numbers
  <2>2. ASSUME NEW i \in 1..Len(t), NEW j \in 1..Len(t), i < j, IsStatus(t[i]), IsStatus(t[j])
        PROVE  g[i] < g[j]
    <3>1. /\ i + 1 \in 1..Len(w) /\ j + 1 \in 1..Len(w) /\ i + 1 < j + 1
          /\ IsStatus(w[i + 1]) /\ IsStatus(w[j + 1])
      BY <1>1, <2>2
    <3> QED
      BY <1>1, <1>2, <1>3, <2>2, <3>1 DEF Numbers
  <2> QED
    BY <1>3, <2>1, <2>2 DEF Numbers
<1>5. Frees(g, t, d, q, c)
  <2>1. ASSUME NEW i \in 1..Len(t), IsStatus(t[i])
        PROVE  /\ g[i] >= d => t[i].free + q =< QueueCapacity
               /\ g[i] = d + 1 => t[i].free > 0 /\ t[i].state = "PLAYING" /\ (d = 0 => c = 0)
               /\ g[i] = d + 1 => \A k \in 1..Len(t) : IsStatus(t[k]) /\ g[k] = d => t[k].free = 0
    <3> DEFINE j == i + 1
    <3>1. j \in 1..Len(w) /\ t[i] = w[j] /\ g[i] = f[j] /\ IsStatus(w[j])
      BY <1>1, <1>3, <2>1
    <3> HIDE DEF j
    <3>2. /\ f[j] >= d => w[j].free + q =< QueueCapacity
          /\ f[j] = d + 1 =>
                /\ w[j].free > 0 /\ w[j].state = "PLAYING"
                /\ d = 0 => c = 0
                /\ \A k \in 1..Len(w) : IsStatus(w[k]) /\ f[k] = d => w[k].free = 0
      BY <1>2, <3>1 DEF Frees
    <3>3. ASSUME g[i] = d + 1, NEW k \in 1..Len(t), IsStatus(t[k]), g[k] = d PROVE t[k].free = 0
      <4> DEFINE l == k + 1
      <4>1. l \in 1..Len(w) /\ t[k] = w[l] /\ g[k] = f[l]
        BY <1>1, <1>3, <3>3
      <4> HIDE DEF l
      <4>2. f[j] = d + 1 /\ IsStatus(w[l]) /\ f[l] = d
        BY <3>1, <3>3, <4>1
      <4>3. w[l].free = 0
        BY <3>2, <4>1, <4>2
      <4> QED
        BY <4>1, <4>3
    <3>4. /\ g[i] >= d => t[i].free + q =< QueueCapacity
          /\ g[i] = d + 1 => t[i].free > 0 /\ t[i].state = "PLAYING" /\ (d = 0 => c = 0)
      BY <3>1, <3>2
    <3> QED
      BY <3>3, <3>4
  <2> QED
    BY <2>1 DEF Frees
<1>6. Underruns(g, t, d, q)
  <2>1. ASSUME NEW j \in 1..Len(t), IsUnderrun(t[j])
        PROVE  \/ \E k \in (j + 1)..Len(t) : IsStatus(t[k]) /\ g[k] =< d
               \/ q = 0 /\ \A k \in (j + 1)..Len(t) : ~IsStatus(t[k])
    <3>1. j + 1 \in 1..Len(w) /\ IsUnderrun(w[j + 1])
      BY <1>1, <2>1
    <3>2. CASE \E k \in (j + 1 + 1)..Len(w) : IsStatus(w[k]) /\ f[k] =< d
      <4>1. PICK k \in (j + 1 + 1)..Len(w) : IsStatus(w[k]) /\ f[k] =< d
        BY <3>2
      <4>2. k - 1 \in (j + 1)..Len(t) /\ k - 1 \in 1..Len(t) /\ (k - 1) + 1 = k
        BY <1>1, <2>1, <4>1
      <4>3. t[k - 1] = w[k] /\ g[k - 1] = f[k]
        BY <1>1, <1>3, <4>2
      <4> QED
        BY <4>1, <4>2, <4>3
    <3>3. CASE q = 0 /\ \A k \in (j + 1 + 1)..Len(w) : ~IsStatus(w[k])
      <4>1. ASSUME NEW k \in (j + 1)..Len(t) PROVE ~IsStatus(t[k])
        <5>1. k \in 1..Len(t) /\ k + 1 \in (j + 1 + 1)..Len(w)
          BY <1>1, <2>1, <4>1
        <5> QED
          BY <1>1, <3>3, <5>1
      <4> QED
        BY <3>3, <4>1
    <3> QED
      BY <1>2, <3>1, <3>2, <3>3 DEF Underruns
  <2> QED
    BY <2>1 DEF Underruns
<1> QED
  BY <1>3, <1>4, <1>5, <1>6 DEF Settled, t

\* An acknowledgement that is due is read.
LEMMA SettledAck ==
    ASSUME NEW w \in Seq(Frame), w # <<>>, IsStatus(w[1]), NEW d \in Nat, d > 0, NEW q \in Nat, NEW c, NEW e,
           Settled(w, d, q, c), d = 1 => e = w[1].free
    PROVE  /\ d = 1 => w[1].free + q =< QueueCapacity
           /\ Settled(Tail(w), d - 1, q, e)
<1> DEFINE t == Tail(w)
<1>1. /\ Len(w) \in Nat /\ Len(w) > 0 /\ Len(t) \in Nat /\ Len(t) = Len(w) - 1 /\ 1 \in 1..Len(w)
      /\ \A i \in 1..Len(t) : i + 1 \in 1..Len(w) /\ t[i] = w[i + 1]
  BY TailFrames
<1>2. PICK f \in [1..Len(w) -> Nat] : Numbers(f, w, d + 1) /\ Frees(f, w, d, q, c) /\ Underruns(f, w, d, q)
  BY DEF Settled
<1> HIDE DEF t
<1>3. f[1] \in 1..(d + 1)
  BY <1>1, <1>2 DEF Numbers
<1>4. d = 1 => w[1].free + q =< QueueCapacity
  BY <1>1, <1>2, <1>3 DEF Frees
<1>5. \A i \in 1..Len(t) : IsStatus(t[i]) => f[i + 1] \in 2..(d + 1)
  <2>1. ASSUME NEW i \in 1..Len(t), IsStatus(t[i]) PROVE f[i + 1] \in 2..(d + 1)
    <3>1. i + 1 \in 1..Len(w) /\ IsStatus(w[i + 1]) /\ 1 < i + 1
      BY <1>1, <2>1
    <3>2. f[i + 1] \in 1..(d + 1) /\ f[1] < f[i + 1]
      BY <1>1, <1>2, <3>1 DEF Numbers
    <3> QED
      BY <1>3, <3>2
  <2> QED
    BY <2>1
<1> DEFINE g == [i \in 1..Len(t) |-> IF IsStatus(t[i]) THEN f[i + 1] - 1 ELSE 0]
<1>6. g \in [1..Len(t) -> Nat] /\ \A i \in 1..Len(t) : IsStatus(t[i]) => g[i] = f[i + 1] - 1
  <2>1. \A i \in 1..Len(t) : IsStatus(t[i]) => f[i + 1] - 1 \in Nat
    <3> SUFFICES ASSUME NEW i \in 1..Len(t), IsStatus(t[i]) PROVE f[i + 1] - 1 \in Nat
      OBVIOUS
    <3>1. f[i + 1] \in 2..(d + 1)
      BY <1>5
    <3> QED
      BY <3>1
  <2>2. \A i \in 1..Len(t) : (IF IsStatus(t[i]) THEN f[i + 1] - 1 ELSE 0) \in Nat
    BY <2>1
  <2> QED
    BY <2>2
<1> HIDE DEF g
<1>7. Numbers(g, t, (d - 1) + 1)
  <2>1. \A i \in 1..Len(t) : IsStatus(t[i]) => g[i] \in 1..((d - 1) + 1)
    BY <1>5, <1>6
  <2>2. ASSUME NEW i \in 1..Len(t), NEW j \in 1..Len(t), i < j, IsStatus(t[i]), IsStatus(t[j])
        PROVE  g[i] < g[j]
    <3>1. /\ i + 1 \in 1..Len(w) /\ j + 1 \in 1..Len(w) /\ i + 1 < j + 1
          /\ IsStatus(w[i + 1]) /\ IsStatus(w[j + 1])
      BY <1>1, <2>2
    <3>2. f[i + 1] < f[j + 1]
      BY <1>2, <3>1 DEF Numbers
    <3> QED
      BY <1>5, <1>6, <2>2, <3>2
  <2> QED
    BY <1>6, <2>1, <2>2 DEF Numbers
<1>8. Frees(g, t, d - 1, q, e)
  <2>1. ASSUME NEW i \in 1..Len(t), IsStatus(t[i]), g[i] >= d - 1 PROVE t[i].free + q =< QueueCapacity
    <3>1. i + 1 \in 1..Len(w) /\ IsStatus(w[i + 1]) /\ t[i] = w[i + 1] /\ f[i + 1] >= d
      BY <1>1, <1>5, <1>6, <2>1
    <3> QED
      BY <1>2, <3>1 DEF Frees
  <2>2. ASSUME NEW i \in 1..Len(t), IsStatus(t[i]), g[i] = (d - 1) + 1
        PROVE  /\ t[i].free > 0 /\ t[i].state = "PLAYING" /\ (d - 1 = 0 => e = 0)
               /\ \A k \in 1..Len(t) : IsStatus(t[k]) /\ g[k] = d - 1 => t[k].free = 0
    <3>1. i + 1 \in 1..Len(w) /\ IsStatus(w[i + 1]) /\ t[i] = w[i + 1] /\ f[i + 1] = d + 1
      BY <1>1, <1>5, <1>6, <2>2
    <3>2. /\ w[i + 1].free > 0 /\ w[i + 1].state = "PLAYING"
          /\ \A k \in 1..Len(w) : IsStatus(w[k]) /\ f[k] = d => w[k].free = 0
      BY <1>2, <3>1 DEF Frees
    <3>3. d - 1 = 0 => e = 0
      <4>1. ASSUME d = 1 PROVE e = 0
        <5>1. f[1] < f[i + 1]
          BY <1>1, <1>2, <3>1 DEF Numbers
        <5>2. f[1] = d
          BY <1>3, <3>1, <4>1, <5>1
        <5> QED
          BY <1>1, <3>2, <4>1, <5>2
      <4> QED
        BY <4>1
    <3>4. ASSUME NEW k \in 1..Len(t), IsStatus(t[k]), g[k] = d - 1 PROVE t[k].free = 0
      <4>1. k + 1 \in 1..Len(w) /\ t[k] = w[k + 1] /\ f[k + 1] = d
        BY <1>1, <1>5, <1>6, <3>4
      <4> QED
        BY <3>2, <3>4, <4>1
    <3> QED
      BY <3>1, <3>2, <3>3, <3>4
  <2> QED
    BY <2>1, <2>2 DEF Frees
<1>9. Underruns(g, t, d - 1, q)
  <2>1. ASSUME NEW j \in 1..Len(t), IsUnderrun(t[j])
        PROVE  \/ \E k \in (j + 1)..Len(t) : IsStatus(t[k]) /\ g[k] =< d - 1
               \/ q = 0 /\ \A k \in (j + 1)..Len(t) : ~IsStatus(t[k])
    <3>1. j + 1 \in 1..Len(w) /\ IsUnderrun(w[j + 1])
      BY <1>1, <2>1
    <3>2. CASE \E k \in (j + 1 + 1)..Len(w) : IsStatus(w[k]) /\ f[k] =< d
      <4>1. PICK k \in (j + 1 + 1)..Len(w) : IsStatus(w[k]) /\ f[k] =< d
        BY <3>2
      <4>2. k - 1 \in (j + 1)..Len(t) /\ k - 1 \in 1..Len(t) /\ (k - 1) + 1 = k
        BY <1>1, <2>1, <4>1
      <4>3. t[k - 1] = w[k] /\ IsStatus(t[k - 1])
        BY <1>1, <4>1, <4>2
      <4>4. g[k - 1] = f[k] - 1 /\ f[k] \in 2..(d + 1)
        BY <1>5, <1>6, <4>2, <4>3
      <4> QED
        BY <4>1, <4>2, <4>3, <4>4
    <3>3. CASE q = 0 /\ \A k \in (j + 1 + 1)..Len(w) : ~IsStatus(w[k])
      <4>1. ASSUME NEW k \in (j + 1)..Len(t) PROVE ~IsStatus(t[k])
        <5>1. k \in 1..Len(t) /\ k + 1 \in (j + 1 + 1)..Len(w)
          BY <1>1, <2>1, <4>1
        <5> QED
          BY <1>1, <3>3, <5>1
      <4> QED
        BY <3>3, <4>1
    <3> QED
      BY <1>2, <3>1, <3>2, <3>3 DEF Underruns
  <2> QED
    BY <2>1 DEF Underruns
<1> QED
  BY <1>4, <1>6, <1>7, <1>8, <1>9 DEF Settled, t

\* With no acknowledgement due, a status is a notice, and the credit is spent.
LEMMA SettledAtRest ==
    ASSUME NEW w \in Seq(Frame), NEW q \in Nat, NEW c, Settled(w, 0, q, c)
    PROVE  /\ NoStatus(w) \/ c = 0
           /\ \A i \in 1..Len(w) : IsStatus(w[i]) => /\ w[i].free > 0 /\ w[i].state = "PLAYING"
                                                     /\ w[i].free + q =< QueueCapacity
           /\ \A i, j \in 1..Len(w) : IsStatus(w[i]) /\ IsStatus(w[j]) => i = j
           /\ NoUnderrun(w) \/ q = 0
           /\ \A j \in 1..Len(w) : IsUnderrun(w[j]) => \A k \in (j + 1)..Len(w) : ~IsStatus(w[k])
<1>1. PICK f \in [1..Len(w) -> Nat] : Numbers(f, w, 0 + 1) /\ Frees(f, w, 0, q, c) /\ Underruns(f, w, 0, q)
  BY DEF Settled
<1>2. \A i \in 1..Len(w) : IsStatus(w[i]) => f[i] = 1
  BY <1>1 DEF Numbers
<1>3. \A i \in 1..Len(w) : IsStatus(w[i]) => /\ w[i].free > 0 /\ w[i].state = "PLAYING" /\ c = 0
                                             /\ w[i].free + q =< QueueCapacity
  BY <1>1, <1>2 DEF Frees
<1>4. ASSUME NEW i \in 1..Len(w), NEW j \in 1..Len(w), IsStatus(w[i]), IsStatus(w[j]) PROVE i = j
  <2>1. ~(i < j) /\ ~(j < i)
    BY <1>1, <1>2, <1>4 DEF Numbers
  <2> QED
    BY <2>1
<1>5. ASSUME NEW j \in 1..Len(w), IsUnderrun(w[j])
      PROVE  q = 0 /\ \A k \in (j + 1)..Len(w) : ~IsStatus(w[k])
  <2>1. \A k \in (j + 1)..Len(w) : k \in 1..Len(w)
    BY <1>5
  <2> QED
    BY <1>1, <1>2, <1>5, <2>1 DEF Underruns
<1> QED
  BY <1>3, <1>4, <1>5 DEF NoStatus, NoUnderrun

-----------------------------------------------------------------------------
(* What is on its way to the Zero. *)

LEMMA InRange ==
    ASSUME NEW S, NEW s \in Seq(S)
    PROVE  /\ Range(s) \subseteq S
           /\ \A x : x \in Range(s) <=> \E i \in 1..Len(s) : s[i] = x
  BY DEF Range

LEMMA RangeOfConcat ==
    ASSUME NEW a \in Seq(Frame), NEW b \in Seq(Frame)
    PROVE  Range(a \o b) = Range(a) \cup Range(b)
<1> DEFINE v == a \o b
<1>1. /\ v \in Seq(Frame) /\ Len(a) \in Nat /\ Len(b) \in Nat /\ Len(v) = Len(a) + Len(b)
      /\ \A i \in 1..Len(a) : v[i] = a[i]
      /\ \A i \in 1..(Len(a) + Len(b)) : i > Len(a) => i - Len(a) \in 1..Len(b) /\ v[i] = b[i - Len(a)]
  BY JoinedFrames
<1> HIDE DEF v
<1>2. ASSUME NEW x \in Range(v) PROVE x \in Range(a) \cup Range(b)
  <2>1. PICK i \in 1..Len(v) : v[i] = x
    BY <1>1, <1>2, InRange
  <2>2. CASE i =< Len(a)
    <3>1. i \in 1..Len(a) /\ a[i] = x
      BY <1>1, <2>1, <2>2
    <3> QED
      BY <3>1, InRange
  <2>3. CASE i > Len(a)
    <3>1. i - Len(a) \in 1..Len(b) /\ b[i - Len(a)] = x
      BY <1>1, <2>1, <2>3
    <3> QED
      BY <3>1, InRange
  <2> QED
    BY <1>1, <2>2, <2>3
<1>3. ASSUME NEW x \in Range(a) PROVE x \in Range(v)
  <2>1. PICK i \in 1..Len(a) : a[i] = x
    BY <1>3, InRange
  <2>2. i \in 1..Len(v) /\ v[i] = x
    BY <1>1, <2>1
  <2> QED
    BY <1>1, <2>2, InRange
<1>4. ASSUME NEW x \in Range(b) PROVE x \in Range(v)
  <2>1. PICK i \in 1..Len(b) : b[i] = x
    BY <1>4, InRange
  <2>2. Len(a) + i \in 1..(Len(a) + Len(b)) /\ Len(a) + i > Len(a) /\ (Len(a) + i) - Len(a) = i
    BY <1>1, <2>1
  <2>3. v[Len(a) + i] = x
    BY <1>1, <2>1, <2>2
  <2> QED
    BY <1>1, <2>2, <2>3, InRange
<1> QED
  BY <1>2, <1>3, <1>4 DEF v

\* The frames still to be read, taken together.
LEMMA WayFrames ==
    ASSUME Links
    PROVE  /\ Way \in Seq(Frame) /\ Len(Way) \in Nat
           /\ Len(Way) = Len(deferred) + Len(pending) + Len(fromPico)
           /\ OnWay = Range(deferred) \cup Range(pending) \cup Range(fromPico)
           /\ OnWay \subseteq Frame
           /\ \A i \in 1..Len(Way) : Way[i] \in OnWay
           /\ Fresh => Way = fromPico /\ OnWay = Range(fromPico)
<1> DEFINE a == deferred \o pending
<1>1. /\ a \in Seq(Frame) /\ fromPico \in Seq(Frame) /\ deferred \in Seq(Frame) /\ pending \in Seq(Frame)
      /\ Len(deferred) \in Nat /\ Len(pending) \in Nat /\ Len(fromPico) \in Nat
      /\ Len(a) = Len(deferred) + Len(pending)
  BY JoinedFrames, LenProperties DEF Links
<1>2. Range(a) = Range(deferred) \cup Range(pending)
  BY RangeOfConcat DEF Links
<1>3. Fresh => a = <<>>
  BY DEF Fresh
<1> HIDE DEF a
<1>4. /\ a \o fromPico \in Seq(Frame) /\ Len(a \o fromPico) = Len(a) + Len(fromPico)
      /\ Range(a \o fromPico) = Range(a) \cup Range(fromPico)
  BY <1>1, JoinedFrames, RangeOfConcat
<1>5. a = <<>> => a \o fromPico = fromPico
  BY <1>1
<1>6. Way = a \o fromPico
  BY DEF Way, a
<1>7. Way \in Seq(Frame) /\ Len(Way) = Len(deferred) + Len(pending) + Len(fromPico)
  BY <1>1, <1>4, <1>6
<1>8. OnWay = Range(deferred) \cup Range(pending) \cup Range(fromPico)
  BY <1>2, <1>4, <1>6 DEF OnWay
<1>9. OnWay \subseteq Frame /\ \A i \in 1..Len(Way) : Way[i] \in OnWay
  BY <1>7, InRange DEF OnWay
<1>10. Fresh => Way = fromPico /\ OnWay = Range(fromPico)
  BY <1>3, <1>5, <1>6 DEF OnWay
<1> QED
  BY <1>1, <1>7, <1>8, <1>9, <1>10

LEMMA WayGrows ==
    ASSUME Links, tx'.sent \in Seq(Frame), fromPico' = fromPico \o tx'.sent, UNCHANGED <<pending, deferred>>
    PROVE  /\ Way' = Way \o tx'.sent /\ OnWay' = OnWay \cup Range(tx'.sent)
           /\ fromPico' \in Seq(Frame) /\ Fresh' = Fresh
<1> DEFINE a == deferred \o pending
<1>1. a \in Seq(Frame) /\ Way = a \o fromPico /\ Way' = a \o (fromPico \o tx'.sent)
  BY JoinedFrames DEF Links, Way
<1> HIDE DEF a
<1>2. Way' = Way \o tx'.sent
  <2> DEFINE s == tx'.sent
  <2>1. a \in Seq(Frame) /\ fromPico \in Seq(Frame) /\ s \in Seq(Frame)
    BY <1>1 DEF Links
  <2> HIDE DEF s
  <2>2. (a \o fromPico) \o s = a \o (fromPico \o s)
    <3> HIDE DEF Frame
    <3> QED
      BY <2>1, ConcatAssociative
  <2> QED
    BY <1>1, <2>2 DEF s
<1>3. Way \in Seq(Frame) /\ fromPico \in Seq(Frame)
  BY WayFrames DEF Links
<1>4. OnWay' = OnWay \cup Range(tx'.sent)
  BY <1>2, <1>3, RangeOfConcat DEF OnWay
<1>5. fromPico' \in Seq(Frame)
  BY <1>3, JoinedFrames
<1> QED
  BY <1>2, <1>4, <1>5 DEF Fresh

LEMMA NextIsOnWay ==
    ASSUME Links, CanRead
    PROVE  /\ NextFrame \in OnWay /\ NextFrame \in Frame
           /\ pending = <<>> => fromPico # <<>> /\ NextFrame = fromPico[1]
           /\ pending # <<>> => NextFrame = pending[1] /\ pending[1] \in Range(pending)
           /\ Len(Way) > Len(deferred) /\ NextFrame = Way[Len(deferred) + 1]
<1>1. /\ pending \in Seq(Frame) /\ fromPico \in Seq(Frame) /\ deferred \in Seq(Frame)
  BY DEF Links
<1>2. ASSUME pending = <<>>
      PROVE  /\ fromPico # <<>> /\ NextFrame = fromPico[1] /\ fromPico[1] \in Range(fromPico)
             /\ Len(Way) > Len(deferred) /\ NextFrame = Way[Len(deferred) + 1]
  <2>1. pending \o fromPico = fromPico
    BY <1>1, <1>2
  <2>2. fromPico # <<>> /\ NextFrame = fromPico[1]
    BY <1>1, <2>1 DEF CanRead, NextFrame
  <2>3. 1 \in 1..Len(fromPico) /\ Len(deferred) \in Nat /\ Len(fromPico) \in Nat
    BY <1>1, <2>2
  <2>4. fromPico[1] \in Range(fromPico)
    BY <1>1, <2>3, InRange
  <2>5. Way = deferred \o fromPico
    BY <1>1, <1>2 DEF Way
  <2>6. (deferred \o fromPico)[Len(deferred) + 1] = fromPico[1] /\ Len(deferred \o fromPico) > Len(deferred)
    <3> DEFINE v == deferred \o fromPico
               k == Len(deferred) + 1
    <3>1. /\ Len(v) = Len(deferred) + Len(fromPico)
          /\ \A i \in 1..(Len(deferred) + Len(fromPico)) : i > Len(deferred) => v[i] = fromPico[i - Len(deferred)]
      BY <1>1, JoinedFrames
    <3> HIDE DEF v
    <3>2. k \in 1..(Len(deferred) + Len(fromPico)) /\ k > Len(deferred) /\ k - Len(deferred) = 1
      BY <2>3
    <3> QED
      BY <2>3, <3>1, <3>2 DEF v
  <2> QED
    BY <2>2, <2>4, <2>5, <2>6
<1>3. ASSUME pending # <<>>
      PROVE  /\ NextFrame = pending[1] /\ pending[1] \in Range(pending)
             /\ Len(Way) > Len(deferred) /\ NextFrame = Way[Len(deferred) + 1]
  <2>1. 1 \in 1..Len(pending) /\ Len(pending) \in Nat /\ Len(fromPico) \in Nat /\ Len(deferred) \in Nat
    BY <1>1, <1>3
  <2>2. Len(pending \o fromPico) = Len(pending) + Len(fromPico) /\ (pending \o fromPico)[1] = pending[1]
    BY <1>1, <2>1, JoinedFrames
  <2>3. NextFrame = pending[1]
    <3> DEFINE v == pending \o fromPico
    <3>1. v \in Seq(Frame) /\ v # <<>>
      BY <1>1, JoinedFrames DEF CanRead
    <3> HIDE DEF v
    <3>2. Head(v) = v[1]
      BY <3>1, TailFrames
    <3>3. NextFrame = Head(v)
      BY DEF NextFrame, v
    <3> QED
      BY <2>2, <3>2, <3>3 DEF v
  <2>4. pending[1] \in Range(pending)
    BY <1>1, <2>1, InRange
  <2>5. Len(Way) > Len(deferred) /\ Way[Len(deferred) + 1] = pending[1]
    <3> DEFINE v == deferred \o pending
               k == Len(deferred) + 1
    <3>1. /\ v \in Seq(Frame) /\ Len(v) = Len(deferred) + Len(pending)
          /\ \A i \in 1..(Len(deferred) + Len(pending)) : i > Len(deferred) => v[i] = pending[i - Len(deferred)]
      BY <1>1, JoinedFrames
    <3> HIDE DEF v
    <3>2. k \in 1..(Len(deferred) + Len(pending)) /\ k > Len(deferred) /\ k - Len(deferred) = 1
      BY <2>1
    <3>3. v[k] = pending[1] /\ k \in 1..Len(v)
      BY <3>1, <3>2
    <3> HIDE DEF k
    <3>4. Len(v \o fromPico) = Len(v) + Len(fromPico) /\ (v \o fromPico)[k] = v[k]
      <4>1. v \in Seq(Frame) /\ fromPico \in Seq(Frame)
        BY <1>1, <3>1
      <4>2. Len(v \o fromPico) = Len(v) + Len(fromPico) /\ \A i \in 1..Len(v) : (v \o fromPico)[i] = v[i]
        BY <4>1, JoinedFrames
      <4> QED
        BY <3>3, <4>2
    <3>5. Way = v \o fromPico
      BY DEF Way, v
    <3> QED
      BY <2>1, <3>1, <3>2, <3>3, <3>4, <3>5 DEF k
  <2> QED
    BY <2>3, <2>4, <2>5
<1>4. OnWay = Range(deferred) \cup Range(pending) \cup Range(fromPico) /\ OnWay \subseteq Frame
  BY WayFrames
<1> QED
  BY <1>2, <1>3, <1>4

\* A frame is taken, and those passed over are put back.
LEMMA WayTaken ==
    ASSUME Links, CanRead, Consume(deferred), deferred' = <<>>
    PROVE  /\ Removed(Way', Way, Len(deferred) + 1) /\ OnWay' \subseteq OnWay
           /\ pending' \in Seq(Frame) /\ fromPico' \in Seq(Frame) /\ deferred' \in Seq(Frame)
           /\ pending = <<>> => pending' = deferred /\ fromPico' = Tail(fromPico)
           /\ pending # <<>> => pending' = deferred \o Tail(pending) /\ fromPico' = fromPico
<1> DEFINE X == Frame
<1>1. pending \in Seq(X) /\ fromPico \in Seq(X) /\ deferred \in Seq(X) /\ <<>> \in Seq(X)
  BY DEF Links
<1>2. /\ pending = <<>> => pending' = deferred /\ fromPico' = Tail(fromPico) /\ fromPico # <<>>
      /\ pending # <<>> => pending' = deferred \o Tail(pending) /\ fromPico' = fromPico
  BY NextIsOnWay DEF Consume
<1> HIDE DEF X
<1>3. Way = Through(deferred, pending, fromPico) /\ Way' = Through(<<>>, pending', fromPico')
  BY DEF Way, Through
<1>4. ASSUME pending = <<>>
      PROVE  Removed(Way', Way, Len(deferred) + 1) /\ pending' \in Seq(X) /\ fromPico' \in Seq(X)
  <2>1. fromPico # <<>> /\ Tail(fromPico) \in Seq(X)
    BY <1>1, <1>2, <1>4, HeadTailProperties
  <2>2. Removed(Through(deferred, <<>>, Tail(fromPico)), Through(deferred, <<>>, fromPico),
                Len(deferred) + Len(<<>>) + 1)
    BY <1>1, <2>1, ThroughLost
  <2>3. Through(<<>>, deferred \o <<>>, Tail(fromPico)) = Through(deferred, <<>>, Tail(fromPico))
    BY <1>1, <2>1, ThroughPutBack
  <2>4. deferred \o <<>> = deferred /\ Len(deferred) + Len(<<>>) + 1 = Len(deferred) + 1
    BY <1>1, ConcatEmptySeq, LenProperties
  <2> QED
    BY <1>1, <1>2, <1>3, <1>4, <2>1, <2>2, <2>3, <2>4
<1>5. ASSUME pending # <<>>
      PROVE  Removed(Way', Way, Len(deferred) + 1) /\ pending' \in Seq(X) /\ fromPico' \in Seq(X)
  <2>1. Tail(pending) \in Seq(X)
    BY <1>1, <1>5, HeadTailProperties
  <2>2. Removed(Through(deferred, Tail(pending), fromPico), Through(deferred, pending, fromPico), Len(deferred) + 1)
    BY <1>1, <1>5, ThroughTaken
  <2>3. Through(<<>>, deferred \o Tail(pending), fromPico) = Through(deferred, Tail(pending), fromPico)
    BY <1>1, <2>1, ThroughPutBack
  <2>4. deferred \o Tail(pending) \in Seq(X)
    BY <1>1, <2>1, ConcatProperties
  <2> QED
    BY <1>1, <1>2, <1>3, <1>5, <2>2, <2>3, <2>4
<1>6. Removed(Way', Way, Len(deferred) + 1) /\ pending' \in Seq(Frame) /\ fromPico' \in Seq(Frame)
  BY <1>4, <1>5 DEF X
<1>7. OnWay' \subseteq OnWay
  <2>1. Way \in Seq(Frame) /\ Way' \in Seq(Frame)
    <3>1. Way' = (deferred' \o pending') \o fromPico' /\ deferred' \o pending' \in Seq(Frame)
      BY <1>1, <1>6, JoinedFrames DEF Way, X
    <3> QED
      BY <1>6, <3>1, WayFrames, JoinedFrames
  <2>2. ASSUME NEW x \in Range(Way') PROVE x \in Range(Way)
    <3>1. PICK i \in 1..Len(Way') : Way'[i] = x
      BY <2>1, <2>2, InRange
    <3>2. \E j \in 1..Len(Way) : Way[j] = x
      <4>1. Len(Way) \in Nat /\ Len(Way') = Len(Way) - 1
        BY <1>6, WayFrames DEF Removed
      <4>2. i \in 1..Len(Way) /\ i + 1 \in 1..Len(Way)
        BY <4>1
      <4> QED
        BY <1>6, <3>1, <4>2 DEF Removed
    <3> QED
      BY <2>1, <3>2, InRange
  <2> QED
    BY <2>2 DEF OnWay
<1> QED
  BY <1>1, <1>2, <1>6, <1>7 DEF X

\* A frame is passed over.
LEMMA WayDeferred ==
    ASSUME Links, CanRead, Consume(<<>>), deferred' = Append(deferred, NextFrame)
    PROVE  /\ Way' = Way /\ OnWay' = OnWay
           /\ pending' \in Seq(Frame) /\ fromPico' \in Seq(Frame) /\ deferred' \in Seq(Frame)
           /\ pending = <<>> => pending' = <<>> /\ fromPico' = Tail(fromPico)
           /\ pending # <<>> => pending' = Tail(pending) /\ fromPico' = fromPico
<1> DEFINE X == Frame
<1>1. pending \in Seq(X) /\ fromPico \in Seq(X) /\ deferred \in Seq(X) /\ <<>> \in Seq(X) /\ NextFrame \in X
  BY NextIsOnWay DEF Links
<1>2. /\ pending = <<>> => pending' = <<>> /\ fromPico' = Tail(fromPico) /\ fromPico # <<>> /\ NextFrame = Head(fromPico)
      /\ pending # <<>> => pending' = <<>> \o Tail(pending) /\ fromPico' = fromPico /\ NextFrame = Head(pending)
  <2>1. /\ fromPico # <<>> => Head(fromPico) = fromPico[1]
        /\ pending # <<>> => Head(pending) = pending[1]
    BY TailFrames DEF Links
  <2> QED
    BY <2>1, NextIsOnWay DEF Consume
<1> HIDE DEF X
<1>3. Way = Through(deferred, pending, fromPico) /\ Way' = Through(deferred', pending', fromPico')
  BY DEF Way, Through
<1>4. deferred' \in Seq(X)
  BY <1>1, AppendProperties
<1>5. ASSUME pending = <<>>
      PROVE  Way' = Way /\ pending' \in Seq(X) /\ fromPico' \in Seq(X)
  <2>1. fromPico # <<>> /\ Tail(fromPico) \in Seq(X)
    BY <1>1, <1>2, <1>5, HeadTailProperties
  <2>2. Through(Append(deferred, Head(fromPico)), Tail(fromPico), <<>>) = Through(deferred, fromPico, <<>>)
    BY <1>1, <2>1, ThroughMoved
  <2>3. \A a, b \in Seq(X) : Through(a, b, <<>>) = Through(a, <<>>, b)
    BY <1>1, ConcatEmptySeq, ConcatProperties DEF Through
  <2> QED
    BY <1>1, <1>2, <1>3, <1>4, <1>5, <2>1, <2>2, <2>3
<1>6. ASSUME pending # <<>>
      PROVE  Way' = Way /\ pending' = Tail(pending) /\ pending' \in Seq(X) /\ fromPico' \in Seq(X)
  <2>1. Tail(pending) \in Seq(X)
    BY <1>1, <1>6, HeadTailProperties
  <2>2. <<>> \o Tail(pending) = Tail(pending)
    BY <2>1, ConcatEmptySeq
  <2>3. Through(Append(deferred, Head(pending)), Tail(pending), fromPico) = Through(deferred, pending, fromPico)
    BY <1>1, <1>6, ThroughMoved
  <2> QED
    BY <1>1, <1>2, <1>3, <1>6, <2>1, <2>2, <2>3
<1> QED
  BY <1>2, <1>4, <1>5, <1>6 DEF X, OnWay

-----------------------------------------------------------------------------
(* What lies on the wire to the Pico. *)

\* The events the feeder has written.
Sent == IF stage = "acks" THEN nextEvent + batch ELSE nextEvent

\* The commands on the wire, by the mode that will take them.
WireIs ==
    \/ stage = "arming" /\ mode = "PASS" /\ toPico = <<SetMode("ARMED")>>
    \/ stage = "clearing" /\ mode = "ARMED" /\ toPico = <<Plain("QUEUE_CLEAR")>>
    \/ /\ stage \in {"feed", "acks", "credit"} /\ ~ended /\ Events(Sent)
       /\ \/ ~streaming /\ mode = "ARMED"
          \/ streaming /\ mode = "PLAYING"
    \/ stage = "ready" /\ mode = "ARMED" /\ ~ended /\ toPico = <<Plain("QUEUE_END")>>
    \/ stage = "accepted" /\ mode = "ARMED" /\ toPico = <<Plain("PLAY_START")>>
    \/ stage \in Closing /\ mode = "PLAYING" /\ ~ended /\ EventsThen(TotalEvents, Plain("QUEUE_END"))
    \/ stage = "returning" /\ mode = "ARMED" /\ toPico = <<SetMode("PASS")>>

LEMMA StageCases ==
    ASSUME stage \in Stages
    PROVE  stage \in {"begin", "arming", "clearing", "feed", "acks", "credit", "ready", "endAck", "accepted",
                      "epoch", "outcome", "metrics", "finished", "returning", "done", "failed"}
  BY DEF Stages, Awaited

LEMMA WireCases ==
    ASSUME Links, Feeder, Rows, toPico # <<>>, ~uartFault
    PROVE  WireIs
<1>1. stage \in {"begin", "arming", "clearing", "feed", "acks", "credit", "ready", "endAck", "accepted",
                 "epoch", "outcome", "metrics", "finished", "returning", "done", "failed"}
      /\ streaming \in BOOLEAN
  BY StageCases DEF Feeder
<1>2. Beginning /\ Loading /\ Starting /\ Playing /\ Leaving
  BY DEF Rows
<1>3. stage = "begin" \/ stage = "arming" => WireIs
  BY <1>2 DEF Beginning, WireIs
<1>4. stage = "clearing" \/ stage = "ready" \/ stage = "endAck" => WireIs
  BY <1>2 DEF Loading, Setup, WireIs
<1>5. stage \in {"feed", "acks", "credit"} => WireIs
  <2>1. CASE ~streaming
    <3> HIDE DEF Events
    <3> QED
      BY <1>2, <2>1 DEF Loading, Setup, WireIs, Sent
  <2>2. CASE streaming
    <3> HIDE DEF Events
    <3> QED
      BY <1>2, <2>2 DEF Playing, Feeding, WireIs, Sent
  <2> QED
    BY <1>1, <2>1, <2>2
<1>6. stage = "accepted" \/ stage = "epoch" => WireIs
  BY <1>2 DEF Starting, WireIs
<1>7. stage \in Closing => WireIs
  BY <1>2 DEF Playing, WireIs, Over
<1>8. stage \in {"returning", "done", "failed"} => WireIs
  BY <1>2 DEF Leaving, WireIs
<1> QED
  BY <1>1, <1>3, <1>4, <1>5, <1>6, <1>7, <1>8 DEF Closing

LEMMA HeadOfWire ==
    ASSUME Links, toPico # <<>>
    PROVE  /\ Len(toPico) \in Nat /\ Len(toPico) > 0 /\ 1 \in 1..Len(toPico)
           /\ Head(toPico) = toPico[1] /\ Head(toPico) \in Request
           /\ Tail(toPico) \in Seq(Request) /\ Len(Tail(toPico)) = Len(toPico) - 1
           /\ \A i \in 1..Len(Tail(toPico)) : i + 1 \in 1..Len(toPico) /\ Tail(toPico)[i] = toPico[i + 1]
           /\ Len(toPico) = 1 => Tail(toPico) = <<>>
<1>1. toPico \in Seq(Request)
  BY DEF Links
<1> DEFINE X == Request
<1>2. toPico \in Seq(X)
  BY <1>1
<1> HIDE DEF X
<1>3. /\ Len(toPico) \in Nat /\ Len(toPico) > 0
      /\ Head(toPico) = toPico[1] /\ Head(toPico) \in X
      /\ Tail(toPico) \in Seq(X) /\ Len(Tail(toPico)) = Len(toPico) - 1
      /\ \A i \in 1..Len(Tail(toPico)) : Tail(toPico)[i] = toPico[i + 1]
  BY <1>2
<1>4. Len(toPico) = 1 => Tail(toPico) = <<>>
  <2>1. Len(toPico) = 1 => Len(Tail(toPico)) = 0
    BY <1>3
  <2> DEFINE t == Tail(toPico)
  <2>2. t \in Seq(X)
    BY <1>3
  <2> HIDE DEF t
  <2>3. Len(t) = 0 => t = <<>>
    BY <2>2
  <2> QED
    BY <2>1, <2>3 DEF t
<1> QED
  BY <1>3, <1>4 DEF X

LEMMA LenOfOne == ASSUME NEW x PROVE Len(<<x>>) = 1 /\ <<x>>[1] = x /\ Head(<<x>>) = x /\ Tail(<<x>>) = <<>>
  OBVIOUS

\* The kinds of the requests, apart.
LEMMA RequestsDiffer ==
    /\ \A n : Event(n) # SetMode("ARMED") /\ Event(n) # SetMode("PASS") /\ Event(n) # Plain("QUEUE_CLEAR")
              /\ Event(n) # Plain("QUEUE_END") /\ Event(n) # Plain("PLAY_START")
    /\ Plain("QUEUE_CLEAR") # Plain("QUEUE_END") /\ Plain("QUEUE_CLEAR") # Plain("PLAY_START")
    /\ Plain("QUEUE_END") # Plain("PLAY_START")
    /\ SetMode("ARMED") # SetMode("PASS")
    /\ \A t \in {"QUEUE_CLEAR", "QUEUE_END", "PLAY_START"}, m \in {"ARMED", "PASS"} : Plain(t) # SetMode(m)
  BY RequestTypes

\* Which head belongs to which stage.
LEMMA HeadStage ==
    ASSUME Links, Feeder, CoreInv, WireIs, toPico # <<>>
    PROVE  /\ Head(toPico) = SetMode("ARMED") => stage = "arming" /\ mode = "PASS" /\ Len(toPico) = 1
           /\ Head(toPico) = SetMode("PASS") => stage = "returning" /\ mode = "ARMED" /\ Len(toPico) = 1
           /\ Head(toPico) = Plain("QUEUE_CLEAR") => stage = "clearing" /\ mode = "ARMED" /\ Len(toPico) = 1
           /\ Head(toPico) = Plain("PLAY_START") => stage = "accepted" /\ mode = "ARMED" /\ Len(toPico) = 1
           /\ Head(toPico) = Plain("QUEUE_END") =>
                 /\ Len(toPico) = 1 /\ ~ended
                 /\ \/ stage = "ready" /\ mode = "ARMED"
                    \/ stage \in Closing /\ mode = "PLAYING" /\ played + Len(queue) = TotalEvents
           /\ Head(toPico).type = "QUEUE_EVENT" =>
                 /\ Head(toPico) = Event(played + Len(queue) + 1) /\ ~ended
                 /\ \/ /\ stage \in {"feed", "acks", "credit"} /\ Events(Sent)
                       /\ \/ ~streaming /\ mode = "ARMED"
                          \/ streaming /\ mode = "PLAYING"
                    \/ /\ stage \in Closing /\ mode = "PLAYING" /\ Len(toPico) > 1
                       /\ EventsThen(TotalEvents, Plain("QUEUE_END"))
<1> DEFINE h == Head(toPico)
<1>0. played \in Nat /\ Len(queue) \in Nat /\ TotalEvents \in Nat
  BY StreamAssumption, LenProperties DEF Feeder, CoreInv, CoreTypeOK
<1>1. h = toPico[1] /\ Len(toPico) > 0 /\ Len(toPico) \in Nat
  BY HeadOfWire
<1>2. CASE \E c \in {SetMode("ARMED"), Plain("QUEUE_CLEAR"), Plain("QUEUE_END"), Plain("PLAY_START"), SetMode("PASS")} :
              /\ toPico = <<c>>
              /\ \/ c = SetMode("ARMED") /\ stage = "arming" /\ mode = "PASS"
                 \/ c = Plain("QUEUE_CLEAR") /\ stage = "clearing" /\ mode = "ARMED"
                 \/ c = Plain("QUEUE_END") /\ stage = "ready" /\ mode = "ARMED" /\ ~ended
                 \/ c = Plain("PLAY_START") /\ stage = "accepted" /\ mode = "ARMED"
                 \/ c = SetMode("PASS") /\ stage = "returning" /\ mode = "ARMED"
  <2>1. PICK c \in {SetMode("ARMED"), Plain("QUEUE_CLEAR"), Plain("QUEUE_END"), Plain("PLAY_START"), SetMode("PASS")} :
              /\ toPico = <<c>>
              /\ \/ c = SetMode("ARMED") /\ stage = "arming" /\ mode = "PASS"
                 \/ c = Plain("QUEUE_CLEAR") /\ stage = "clearing" /\ mode = "ARMED"
                 \/ c = Plain("QUEUE_END") /\ stage = "ready" /\ mode = "ARMED" /\ ~ended
                 \/ c = Plain("PLAY_START") /\ stage = "accepted" /\ mode = "ARMED"
                 \/ c = SetMode("PASS") /\ stage = "returning" /\ mode = "ARMED"
    BY <1>2
  <2>2. h = c /\ Len(toPico) = 1
    BY <2>1, LenOfOne
  <2>3. c.type # "QUEUE_EVENT"
    BY <2>1, RequestTypes
  <2> HIDE DEF h
  <2> QED
    BY <2>1, <2>2, <2>3, RequestsDiffer DEF h
<1>3. CASE /\ stage \in {"feed", "acks", "credit"} /\ ~ended /\ Events(Sent)
           /\ \/ ~streaming /\ mode = "ARMED"
              \/ streaming /\ mode = "PLAYING"
  <2>1. h = Event(played + Len(queue) + 1)
    BY <1>1, <1>3 DEF Events
  <2> HIDE DEF h
  <2> QED
    BY <1>3, <2>1, RequestsDiffer DEF h
<1>4. CASE stage \in Closing /\ mode = "PLAYING" /\ ~ended /\ EventsThen(TotalEvents, Plain("QUEUE_END"))
  <2>1. CASE Len(toPico) = 1
    <3>1. h = Plain("QUEUE_END")
      BY <1>1, <1>4, <2>1 DEF EventsThen
    <3>2. h.type # "QUEUE_EVENT"
      BY <3>1, RequestTypes
    <3>3. played + Len(queue) + Len(toPico) - 1 = TotalEvents
      BY <1>4 DEF EventsThen
    <3>4. played + Len(queue) = TotalEvents
      BY <1>0, <2>1, <3>3
    <3> HIDE DEF h
    <3> QED
      BY <1>4, <2>1, <3>1, <3>2, <3>4, RequestsDiffer DEF h
  <2>2. CASE Len(toPico) > 1
    <3>1. h = Event(played + Len(queue) + 1)
      BY <1>1, <1>4, <2>2 DEF EventsThen
    <3> HIDE DEF h
    <3> QED
      BY <1>4, <2>2, <3>1, RequestsDiffer DEF h
  <2>3. Len(toPico) = 1 \/ Len(toPico) > 1
    <3> DEFINE n == Len(toPico)
    <3>1. n \in Nat /\ n > 0
      BY <1>1
    <3> HIDE DEF n
    <3>2. n = 1 \/ n > 1
      BY <3>1
    <3> QED
      BY <3>2 DEF n
  <2> QED
    BY <2>1, <2>2, <2>3
<1> QED
  BY <1>2, <1>3, <1>4 DEF WireIs

\* No command on the wire meets the Pico in a mode it does not suit.
LEMMA WireSuits ==
    ASSUME IInv, StreamInv
    PROVE  Suited
<1> SUFFICES ASSUME toPico # <<>>, ~uartFault PROVE Suits(Head(toPico))
  BY DEF Suited
<1> DEFINE h == Head(toPico)
<1>0. Links /\ Feeder /\ h \in Request
  BY HeadOfWire DEF StreamInv
<1>1. CASE mode = "ERROR"
  <2>1. NoModeSet
    BY <1>1 DEF StreamInv, Doomed
  <2>2. h.type # "MODE_SET"
    BY <1>0, <2>1, HeadOfWire DEF NoModeSet
  <2> QED
    BY <1>1, <2>2, RequestTypes DEF Suits
<1>2. CASE mode # "ERROR"
  <2>1. Rows
    BY <1>2 DEF StreamInv
  <2>2. WireIs
    BY <1>0, <2>1, WireCases
  <2>3. /\ h = SetMode("ARMED") => stage = "arming" /\ mode = "PASS"
        /\ h = SetMode("PASS") => mode = "ARMED"
        /\ h = Plain("QUEUE_CLEAR") => mode = "ARMED"
        /\ h = Plain("PLAY_START") => stage = "accepted" /\ mode = "ARMED"
        /\ h = Plain("QUEUE_END") => mode # "PASS"
        /\ h.type = "QUEUE_EVENT" => mode # "PASS"
    BY <1>0, <2>2, HeadStage DEF IInv
  <2>4. stage = "accepted" => queue # <<>>
    <3>1. stage = "accepted" => Len(queue) = nextEvent /\ nextEvent = prebuffer /\ prebuffer > 0
      BY <1>0, <2>1 DEF Rows, Starting, Feeder
    <3> QED
      BY <3>1, EmptyIsSeq
  <2>5. h.type = "QUEUE_END" => h = Plain("QUEUE_END")
    BY <1>0, RequestKinds
  <2> HIDE DEF h
  <2> QED
    BY <2>3, <2>4, <2>5 DEF Suits, h
<1> QED
  BY <1>1, <1>2

-----------------------------------------------------------------------------
(* A step of the Pico keeps the invariant. *)

\* The inductive invariant of the two machines.
Full == IInv /\ StreamInv

\* What is common to the steps of the Pico.
Follows == IInv' /\ Tidy /\ fromPico' = fromPico \o tx'.sent /\ UNCHANGED feeder

LEMMA FeederSame ==
    ASSUME UNCHANGED feeder
    PROVE  /\ UNCHANGED <<stage, streaming, prebuffer, nextEvent, credit, batch, acksDue, staleCredit>>
           /\ UNCHANGED <<pending, deferred>>
           /\ Due' = Due /\ StopAt' = StopAt /\ Setup' = Setup /\ Feeding' = Feeding
<1>1. UNCHANGED <<stage, streaming, prebuffer, nextEvent, credit, batch, acksDue, staleCredit, pending, deferred>>
  BY DEF feeder, progress
<1> QED
  BY <1>1 DEF Due, StopAt, Setup, Feeding

\* What the invariant gives every step.
LEMMA FullFacts ==
    ASSUME Full
    PROVE  /\ IInv /\ Links /\ Feeder /\ Answers /\ CreditInv
           /\ mode # "ERROR" => Rows
           /\ mode = "ERROR" => Doomed
           /\ Base /\ Suited
           /\ queue \in Seq(Reports) /\ Len(queue) \in 0..QueueCapacity /\ QueueCapacity \in Nat \ {0}
           /\ Len(toPico) \in Nat /\ played \in 0..TotalEvents /\ TotalEvents \in Nat
           /\ uartFault \in BOOLEAN /\ ended \in BOOLEAN
<1>1. IInv /\ Links /\ Feeder /\ Answers /\ CreditInv /\ StreamInv
  BY DEF Full, StreamInv
<1>2. Suited
  BY <1>1, WireSuits
<1>3. TotalEvents \in Nat /\ QueueCapacity \in Nat \ {0}
  BY StreamAssumption, CapacityAssumption
<1>4. Base /\ played \in 0..TotalEvents
  BY <1>1, <1>3 DEF Base, Feeder
<1>5. queue \in Seq(Reports) /\ Len(queue) \in Nat /\ Len(queue) =< QueueCapacity
      /\ Len(toPico) \in Nat /\ uartFault \in BOOLEAN /\ ended \in BOOLEAN
  BY <1>4, BaseFacts, LenProperties
<1>6. Len(queue) \in 0..QueueCapacity
  BY <1>3, <1>5
<1> QED
  BY <1>1, <1>2, <1>3, <1>4, <1>5, <1>6 DEF StreamInv

\* Where the Zero is while the Pico plays.
LEMMA NowPlaying ==
    ASSUME Rows, Feeder, mode = "PLAYING"
    PROVE  \/ Feeding /\ ~ended
           \/ stage \in {"accepted", "epoch"} /\ toPico = <<>> /\ Running
           \/ /\ stage \in Closing
              /\ ~uartFault => \/ ended /\ Events(TotalEvents) /\ toPico = <<>>
                               \/ ~ended /\ EventsThen(TotalEvents, Plain("QUEUE_END"))
<1>1. stage \in {"begin", "arming", "clearing", "feed", "acks", "credit", "ready", "endAck", "accepted",
                 "epoch", "outcome", "metrics", "finished", "returning", "done", "failed"}
      /\ streaming \in BOOLEAN
  BY StageCases DEF Feeder
<1>2. stage \notin {"begin", "arming", "clearing", "ready", "endAck", "returning", "done", "failed"}
  BY DEF Rows, Beginning, Loading, Setup, Leaving
<1>3. stage \in {"feed", "acks", "credit"} => Feeding /\ ~ended
  <2>1. stage \in {"feed", "acks", "credit"} => streaming
    BY <1>1 DEF Rows, Loading, Setup
  <2> QED
    BY <2>1 DEF Rows, Playing, Feeding
<1>4. stage \in {"accepted", "epoch"} => toPico = <<>> /\ Running
  BY DEF Rows, Starting, Over
<1>5. stage \in Closing =>
         (~uartFault => \/ ended /\ Events(TotalEvents) /\ toPico = <<>>
                        \/ ~ended /\ EventsThen(TotalEvents, Plain("QUEUE_END")))
  <2> HIDE DEF Events, EventsThen
  <2> QED
    BY DEF Rows, Playing, Over
<1> QED
  BY <1>1, <1>2, <1>3, <1>4, <1>5 DEF Closing

\* A run that ends has played everything, and nothing is on the wire.
LEMMA FinishIsEnd ==
    ASSUME Full, PicoFinish
    PROVE  /\ stage \in {"accepted", "epoch"} \cup Closing /\ toPico = <<>> /\ nextEvent = TotalEvents
           /\ played + Len(queue) = TotalEvents
<1>1. Rows /\ Feeder /\ ended /\ ~uartFault /\ mode = "PLAYING"
  BY FullFacts DEF PicoFinish, NoFault
<1>2. CASE stage \in {"accepted", "epoch"} /\ toPico = <<>> /\ Running
  BY <1>1, <1>2 DEF Running
<1>3. CASE stage \in Closing /\ Events(TotalEvents) /\ toPico = <<>>
  <2>1. played + Len(queue) = TotalEvents
    BY <1>3, FullFacts, EmptyIsSeq DEF Events
  <2> QED
    BY <1>1, <1>3, <2>1 DEF Rows, Playing
<1> QED
  BY <1>1, <1>2, <1>3, NowPlaying

\* The wire is longer than one command only while the Zero streams, or loads events.
LEMMA OverrunIsLate ==
    ASSUME Full, PicoOverrun
    PROVE  /\ staleCredit /\ streaming /\ stage \notin Early /\ stage \notin Setup
           /\ mode \in {"PLAYING", "ERROR"}
           /\ mode # "ERROR" => Feeding \/ stage \in Closing
<1>1. Feeder /\ CreditInv /\ Links
  BY FullFacts
<1>2. Len(toPico) > 1 /\ Len(toPico) > PipelineWindow /\ ~uartFault /\ toPico # <<>>
  <2>1. Len(toPico) \in Nat /\ Len(toPico) > CommandCapacity /\ ~uartFault
    BY FullFacts DEF PicoOverrun
  <2>2. PipelineWindow \in Nat /\ PipelineWindow > 0 /\ PipelineWindow =< CommandCapacity /\ CommandCapacity \in Nat
    BY StreamAssumption, CapacityAssumption
  <2>3. toPico # <<>>
    BY <2>1, <2>2, EmptyIsSeq
  <2> QED
    BY <2>1, <2>2, <2>3
<1>3. staleCredit
  <2>1. ~staleCredit => Len(toPico) =< PipelineWindow
    BY <1>1 DEF CreditInv, CountOK
  <2>2. Len(toPico) \in Nat /\ PipelineWindow \in Nat
    BY FullFacts, StreamAssumption
  <2>3. ~(Len(toPico) =< PipelineWindow)
    BY <1>2, <2>2
  <2> QED
    BY <2>1, <2>3, <1>1 DEF Feeder
<1>4. streaming /\ stage \notin Early /\ stage \notin Setup
  <2>1. streaming /\ stage \notin Early
    BY <1>1, <1>3 DEF Feeder
  <2> QED
    BY <2>1 DEF Setup, Early
<1>5. mode # "ERROR" => mode = "PLAYING" /\ (Feeding \/ stage \in Closing)
  <2> SUFFICES ASSUME mode # "ERROR" PROVE mode = "PLAYING" /\ (Feeding \/ stage \in Closing)
    OBVIOUS
  <2>1. WireIs
    BY <1>1, <1>2, FullFacts, WireCases
  <2>2. \A c : toPico = <<c>> => Len(toPico) = 1
    BY LenOfOne
  <2>3. ~(Len(toPico) = 1)
    <3> DEFINE n == Len(toPico)
    <3>1. n \in Nat /\ n > 1
      BY <1>2, FullFacts
    <3> HIDE DEF n
    <3>2. n # 1
      BY <3>1
    <3> QED
      BY <3>2 DEF n
  <2> QED
    BY <1>4, <2>1, <2>2, <2>3 DEF WireIs, Feeding
<1> QED
  BY <1>3, <1>4, <1>5

LEMMA LinksKept ==
    ASSUME Full, Follows, PicoKind
    PROVE  Links'
<1>1. /\ Links /\ toPico' \in Seq(Request) /\ tx'.sent \in Seq(Frame) /\ backlog' =< Len(toPico')
      /\ uartFault' => loop' = "fault"
      /\ capture' = <<>> /\ UNCHANGED <<pending, deferred>>
  BY FullFacts, FeederSame DEF Follows, Tidy
<1>2. fromPico' \in Seq(Frame)
  BY <1>1, WayGrows DEF Follows
<1>3. mode' # "RECORD"
  BY <1>1 DEF Links, PicoKind, PicoQuiet, PicoOverrun, PicoStop, PicoFinish, PicoStarve, PicoPlay, PicoArm, PicoPass,
     PicoClear, PicoAccept, PicoClose, PicoStart
<1>4. uartFault' => mode' \in {"PLAYING", "ERROR"}
  <2>1. CASE PicoOverrun
    BY <2>1, OverrunIsLate DEF PicoOverrun
  <2> QED
    BY <2>1 DEF PicoKind, NoFault, PicoQuiet, PicoStop, PicoFinish, PicoStarve, PicoPlay, PicoArm, PicoPass,
     PicoClear, PicoAccept, PicoClose, PicoStart
<1> QED
  BY <1>1, <1>2, <1>3, <1>4 DEF Links

LEMMA FeederKept ==
    ASSUME Full, Follows, PicoKind
    PROVE  Feeder'
<1>1. Feeder /\ UNCHANGED <<stage, streaming, prebuffer, nextEvent, credit, batch, acksDue, staleCredit, pending, deferred>>
      /\ StopAt' = StopAt
  BY FullFacts, FeederSame DEF Follows
<1>2. played' \in 0..TotalEvents
  <2>1. CASE PicoFinish
    <3>1. played' = TotalEvents
      BY <2>1, FinishIsEnd DEF PicoFinish
    <3> QED
      BY <3>1, FullFacts
  <2>2. CASE PicoPlay
    <3>1. Rows /\ queue # <<>> /\ played' = played + 1 /\ queue \in Seq(Reports)
      BY <2>2, FullFacts DEF PicoPlay
    <3>2. queue[1] \in Reports /\ 1 \in 1..Len(queue)
      BY <3>1
    <3>3. queue[1] = played + 1
      BY <3>1, <3>2 DEF Rows, InOrder
    <3> QED
      BY <3>1, <3>2, <3>3, StreamAssumption
  <2>3. played' = played => played' \in 0..TotalEvents
    BY FullFacts
  <2> QED
    BY <2>1, <2>2, <2>3 DEF PicoKind, PicoQuiet, PicoOverrun, PicoStop, PicoStarve, PicoArm, PicoPass,
     PicoClear, PicoAccept, PicoClose, PicoStart
<1> QED
  BY <1>1, <1>2 DEF Feeder

LEMMA WaySame ==
    ASSUME Full, Follows
    PROVE  /\ Way' = Way \o tx'.sent /\ OnWay' = OnWay \cup Range(tx'.sent) /\ Fresh' = Fresh
           /\ Way \in Seq(Frame) /\ tx'.sent \in Seq(Frame) /\ fromPico \in Seq(Frame)
           /\ \A x : x \in OnWay' => x \in OnWay \/ \E i \in 1..Len(tx'.sent) : tx'.sent[i] = x
           /\ OnWay \subseteq OnWay'
           /\ OnWay' \subseteq Frame
<1>1. Links /\ tx'.sent \in Seq(Frame) /\ fromPico' = fromPico \o tx'.sent /\ UNCHANGED <<pending, deferred>>
  BY FullFacts, FeederSame DEF Follows, Tidy
<1>2. Way' = Way \o tx'.sent /\ OnWay' = OnWay \cup Range(tx'.sent) /\ Fresh' = Fresh
  BY <1>1, WayGrows
<1>3. Way \in Seq(Frame) /\ fromPico \in Seq(Frame) /\ OnWay \subseteq Frame
  BY <1>1, WayFrames DEF Links
<1>4. /\ Range(tx'.sent) \subseteq Frame
      /\ \A x : x \in Range(tx'.sent) <=> \E i \in 1..Len(tx'.sent) : tx'.sent[i] = x
  BY <1>1, InRange
<1> QED
  BY <1>1, <1>2, <1>3, <1>4

\* Nothing that ends a run is said.
LEMMA SaidGrows ==
    ASSUME Full, Follows, Said, FinishedNews \notin OnWay,
           \A i \in 1..Len(tx'.sent) :
              /\ tx'.sent[i] # FinishedNews
              /\ stage = "accepted" => RunFrame(tx'.sent[i]) \/ tx'.sent[i] = StartNews
              /\ stage \in {"epoch"} \cup Closing \/ Feeding => RunFrame(tx'.sent[i]) \/ tx'.sent[i].type = "PLAY_READY"
    PROVE  Said'
<1>1. /\ \A x : x \in OnWay' => x \in OnWay \/ \E i \in 1..Len(tx'.sent) : tx'.sent[i] = x
  BY WaySame
<1>2. stage' = stage /\ Feeding' = Feeding
  BY FeederSame DEF Follows
<1>3. FinishedNews \notin OnWay'
  BY <1>1
<1>4. ASSUME NEW i \in 1..Len(Way'), Way'[i] = FinishedNews PROVE FALSE
  <2>1. Way' \in Seq(Frame)
    <3>1. Way \o tx'.sent \in Seq(Frame)
      BY WaySame, JoinedFrames
    <3> QED
      BY <3>1, WaySame
  <2>2. Way'[i] \in Range(Way')
    BY <2>1, <1>4, InRange
  <2> QED
    BY <1>3, <1>4, <2>2 DEF OnWay
<1>5. ASSUME NEW x \in OnWay'
      PROVE  /\ stage = "accepted" => RunFrame(x) \/ x = StartNews
             /\ stage \in {"epoch"} \cup Closing \/ Feeding => RunFrame(x) \/ x.type = "PLAY_READY"
  <2>1. CASE x \in OnWay
    BY <2>1 DEF Said
  <2>2. CASE \E i \in 1..Len(tx'.sent) : tx'.sent[i] = x
    BY <2>2
  <2> QED
    BY <1>1, <1>5, <2>1, <2>2
<1>6. /\ stage' = "accepted" => \A x \in OnWay' : RunFrame(x) \/ x = StartNews
      /\ stage' \in {"epoch"} \cup Closing \/ Feeding' => \A x \in OnWay' : RunFrame(x) \/ x.type = "PLAY_READY"
  BY <1>2, <1>5
<1> QED
  BY <1>3, <1>4, <1>6 DEF Said

\* Frames that answer no question of the Zero.
Bland(s) == \A i \in 1..Len(s) : s[i] # StartNews /\ s[i].type # "PLAY_STARTED" /\ s[i].type # "PLAY_READY"

LEMMA AnswerFields ==
    /\ DOMAIN Answer = {"ready", "accepted", "epoch"}
    /\ Answer["ready"] = Plain("PLAY_READY") /\ Answer["accepted"] = StartNews /\ Answer["epoch"] = Plain("PLAY_STARTED")
    /\ Plain("PLAY_READY").type = "PLAY_READY" /\ Plain("PLAY_STARTED").type = "PLAY_STARTED"
  BY DEF Answer, Plain

LEMMA BlandIsNoAnswer ==
    ASSUME NEW s, Bland(s), stage \in DOMAIN Answer
    PROVE  \A i \in 1..Len(s) : s[i] # Answer[stage] /\ s[i] # Plain("PLAY_STARTED")
<1>1. \A i \in 1..Len(s) : /\ s[i] # StartNews
                           /\ s[i] # Plain("PLAY_STARTED") /\ s[i] # Plain("PLAY_READY")
  BY AnswerFields DEF Bland
<1> QED
  BY <1>1, AnswerFields

LEMMA BlandAnswers ==
    ASSUME Full, Follows, Bland(tx'.sent), toPico = <<>> => toPico' = <<>>,
           stage \in Setup => \A i \in 1..Len(tx'.sent) : IsStatus(tx'.sent[i]) => tx'.sent[i].state = "ARMED"
    PROVE  Answers'
<1>1. /\ \A x : x \in OnWay' => x \in OnWay \/ \E i \in 1..Len(tx'.sent) : tx'.sent[i] = x
      /\ Fresh' = Fresh /\ OnWay \subseteq Frame
  BY WaySame, FullFacts, WayFrames
<1>2. stage' = stage /\ Setup' = Setup
  BY FeederSame DEF Follows
<1>3. Answers
  BY FullFacts
<1> DEFINE s == tx'.sent
           v == fromPico \o s
<1>4. /\ Len(fromPico) \in Nat /\ Len(s) \in Nat /\ Len(v) = Len(fromPico) + Len(s)
      /\ \A i \in 1..Len(fromPico) : v[i] = fromPico[i]
      /\ \A i \in 1..(Len(fromPico) + Len(s)) : i > Len(fromPico) => i - Len(fromPico) \in 1..Len(s) /\ v[i] = s[i - Len(fromPico)]
      /\ fromPico' = v
  BY WaySame, JoinedFrames DEF Follows
<1>5. Bland(s)
  OBVIOUS
<1> HIDE DEF v, s
<1>6. ASSUME stage \in DOMAIN Answer, Answer[stage] \in OnWay'
      PROVE  /\ toPico' = <<>> /\ Fresh' /\ fromPico'[1] = Answer[stage]
             /\ \A i \in 2..Len(fromPico') : fromPico'[i] # Answer[stage]
             /\ stage = "accepted" /\ Plain("PLAY_STARTED") \in OnWay' =>
                   /\ Len(fromPico') > 1 /\ fromPico'[2] = Plain("PLAY_STARTED")
                   /\ \A i \in 3..Len(fromPico') : fromPico'[i] # Plain("PLAY_STARTED")
  <2>1. \A i \in 1..Len(s) : s[i] # Answer[stage] /\ s[i] # Plain("PLAY_STARTED")
    BY <1>5, <1>6, BlandIsNoAnswer
  <2>2. Answer[stage] \in OnWay /\ (Plain("PLAY_STARTED") \in OnWay' => Plain("PLAY_STARTED") \in OnWay)
    BY <1>1, <1>6, <2>1 DEF s
  <2>3. /\ toPico = <<>> /\ Fresh /\ fromPico[1] = Answer[stage]
        /\ \A i \in 2..Len(fromPico) : fromPico[i] # Answer[stage]
        /\ stage = "accepted" /\ Plain("PLAY_STARTED") \in OnWay =>
              /\ Len(fromPico) > 1 /\ fromPico[2] = Plain("PLAY_STARTED")
              /\ \A i \in 3..Len(fromPico) : fromPico[i] # Plain("PLAY_STARTED")
    BY <1>3, <1>6, <2>2 DEF Answers
  <2>4. Len(fromPico) > 0
    <3>1. OnWay = Range(fromPico) /\ fromPico \in Seq(Frame)
      BY <2>3, FullFacts, WayFrames DEF Links
    <3>2. \E i \in 1..Len(fromPico) : fromPico[i] = Answer[stage]
      BY <2>2, <3>1, InRange
    <3> QED
      BY <1>4, <3>2
  <2>5. v[1] = Answer[stage]
    BY <1>4, <2>3, <2>4
  <2>6. ASSUME NEW i \in 2..Len(v) PROVE v[i] # Answer[stage]
    <3>1. i > Len(fromPico) \/ i =< Len(fromPico)
      BY <1>4, <2>6
    <3>2. CASE i > Len(fromPico)
      <4>1. i \in 1..(Len(fromPico) + Len(s))
        BY <1>4, <2>6
      <4>2. i - Len(fromPico) \in 1..Len(s) /\ v[i] = s[i - Len(fromPico)]
        BY <1>4, <3>2, <4>1
      <4> QED
        BY <2>1, <4>2
    <3>3. CASE i =< Len(fromPico)
      <4>1. i \in 2..Len(fromPico) /\ i \in 1..Len(fromPico)
        BY <1>4, <2>6, <3>3
      <4> QED
        BY <1>4, <2>3, <4>1
    <3> QED
      BY <3>1, <3>2, <3>3
  <2>7. ASSUME stage = "accepted", Plain("PLAY_STARTED") \in OnWay'
        PROVE  /\ Len(v) > 1 /\ v[2] = Plain("PLAY_STARTED")
               /\ \A i \in 3..Len(v) : v[i] # Plain("PLAY_STARTED")
    <3>1. /\ Len(fromPico) > 1 /\ fromPico[2] = Plain("PLAY_STARTED")
          /\ \A i \in 3..Len(fromPico) : fromPico[i] # Plain("PLAY_STARTED")
      BY <2>2, <2>3, <2>7
    <3>2. Len(v) > 1 /\ v[2] = Plain("PLAY_STARTED")
      BY <1>4, <3>1
    <3>3. ASSUME NEW i \in 3..Len(v) PROVE v[i] # Plain("PLAY_STARTED")
      <4>1. i > Len(fromPico) \/ i =< Len(fromPico)
        BY <1>4, <3>3
      <4>2. CASE i > Len(fromPico)
        <5>1. i \in 1..(Len(fromPico) + Len(s))
          BY <1>4, <3>3
        <5>2. i - Len(fromPico) \in 1..Len(s) /\ v[i] = s[i - Len(fromPico)]
          BY <1>4, <4>2, <5>1
        <5> QED
          BY <2>1, <5>2
      <4>3. CASE i =< Len(fromPico)
        <5>1. i \in 3..Len(fromPico) /\ i \in 1..Len(fromPico)
          BY <1>4, <3>3, <4>3
        <5> QED
          BY <1>4, <3>1, <5>1
      <4> QED
        BY <4>1, <4>2, <4>3
    <3> QED
      BY <3>2, <3>3
  <2> QED
    BY <1>1, <1>4, <2>3, <2>5, <2>6, <2>7
<1>7. ASSUME stage \in Setup, NEW x \in OnWay'
      PROVE  /\ x # StartNews /\ x.type # "PLAY_STARTED"
             /\ IsStatus(x) => x.state = "ARMED"
             /\ stage \in {"clearing", "feed", "acks", "credit"} => x.type # "PLAY_READY"
  <2>1. CASE x \in OnWay
    BY <1>3, <1>7, <2>1 DEF Answers
  <2>2. CASE \E i \in 1..Len(s) : s[i] = x
    <3>1. \A i \in 1..Len(s) : IsStatus(s[i]) => s[i].state = "ARMED"
      BY <1>7 DEF s
    <3> QED
      BY <1>5, <2>2, <3>1 DEF Bland
  <2> QED
    BY <1>1, <1>7, <2>1, <2>2 DEF s
<1>8. ASSUME stage = "accepted", toPico' # <<>>
      PROVE  StartNews \notin OnWay' /\ Plain("PLAY_STARTED") \notin OnWay'
  <2>1. StartNews \notin OnWay /\ Plain("PLAY_STARTED") \notin OnWay
    BY <1>3, <1>8 DEF Answers
  <2>2. \A i \in 1..Len(s) : s[i] # StartNews /\ s[i] # Plain("PLAY_STARTED")
    BY <1>5, AnswerFields DEF Bland
  <2> QED
    BY <1>1, <2>1, <2>2 DEF s
<1> QED
  BY <1>2, <1>6, <1>7, <1>8 DEF Answers

\* What the count needs of a step.
LEMMA CreditKeeps ==
    ASSUME Full, Follows, ~uartFault', toPico = <<>> => toPico' = <<>>,
           Len(toPico') =< Len(toPico), Len(toPico') \in Nat,
           ~staleCredit => NoEvents' \/ Len(queue') + Len(toPico') =< QueueCapacity,
           ~staleCredit /\ Counting' =>
              /\ Counting
              /\ Due = 0 => credit + Len(queue') =< QueueCapacity
              /\ toPico' # <<>> => Outstanding(fromPico', Due - Len(toPico'))
              /\ toPico' = <<>> => Settled(fromPico', Due, Len(queue'), credit)
    PROVE  CreditInv'
<1> SUFFICES ASSUME ~staleCredit' PROVE CountOK'
  BY DEF CreditInv
<1>1. /\ UNCHANGED <<stage, streaming, prebuffer, nextEvent, credit, batch, acksDue, staleCredit>>
      /\ UNCHANGED <<pending, deferred>> /\ Due' = Due
  BY FeederSame DEF Follows
<1>2. CountOK /\ Len(toPico) \in Nat /\ PipelineWindow \in Nat /\ acksDue \in Nat
  BY <1>1, FullFacts, StreamAssumption DEF CreditInv, Feeder
<1>3. ~uartFault' /\ Len(toPico') =< PipelineWindow
  BY <1>2 DEF CountOK
<1>4. stage' \in {"feed", "credit"} => toPico' = <<>>
  BY <1>1, <1>2 DEF CountOK
<1>5. stage' = "acks" => Len(toPico') =< acksDue'
  BY <1>1, <1>2 DEF CountOK
<1>6. stage' \in {"begin", "arming", "credit"} => credit' = 0
  BY <1>1, <1>2 DEF CountOK
<1>7. ASSUME Counting' PROVE Counted'
  <2>1. Counting
    BY <1>1, <1>7
  <2>2. Counted
    BY <1>2, <2>1 DEF CountOK
  <2>3. /\ \A i \in 1..Len(pending') : ~IsStatus(pending'[i])
        /\ \A i \in 1..Len(deferred') : ~IsStatus(deferred'[i])
    BY <1>1, <2>2 DEF Counted
  <2> QED
    BY <1>1, <1>7, <2>3 DEF Counted
<1>8. NoEvents' \/ Len(queue') + Len(toPico') =< QueueCapacity
  BY <1>1
<1> QED
  BY <1>1, <1>3, <1>4, <1>5, <1>6, <1>7, <1>8 DEF CountOK

\* Nothing the invariant speaks of changes.
LEMMA QuietKept ==
    ASSUME Full, Follows, PicoQuiet
    PROVE  StreamInv'
<1>1. Links' /\ Feeder'
  BY LinksKept, FeederKept DEF PicoKind
<1>2. /\ UNCHANGED <<mode, queue, ended, played, toPico, uartFault, fromPico, pending, deferred>>
      /\ UNCHANGED <<stage, streaming, prebuffer, nextEvent, credit, batch, acksDue, staleCredit>>
  <2>1. fromPico' = fromPico
    <3>1. tx'.sent = <<>> /\ fromPico \in Seq(Frame)
      BY FullFacts DEF PicoQuiet, Silent, Links
    <3> QED
      BY <3>1, ConcatEmptySeq DEF Follows
  <2>2. uartFault' = uartFault
    <3>1. uartFault \in BOOLEAN /\ uartFault' \in BOOLEAN
      BY DEF Full, Follows, IInv, Placed, LoopTypeOK
    <3> QED
      BY <3>1 DEF PicoQuiet, NoFault
  <2> QED
    BY <2>1, <2>2, FeederSame DEF PicoQuiet, SameWire, Follows
<1>3. Way' = Way /\ OnWay' = OnWay /\ Fresh' = Fresh /\ Due' = Due /\ StopAt' = StopAt /\ Setup' = Setup /\ Feeding' = Feeding
      /\ Unfed' = Unfed /\ Over' = Over /\ Running' = Running /\ NoModeSet' = NoModeSet /\ InOrder' = InOrder
      /\ NoEvents' = NoEvents /\ Counting' = Counting /\ Counted' = Counted
  BY <1>2 DEF Way, OnWay, Fresh, Due, StopAt, Setup, Feeding, Unfed, Over, Running, NoModeSet, InOrder, NoEvents, Counting, Counted
<1>4. Rows' = Rows
  <2>1. Beginning' = Beginning
    BY <1>2, <1>3 DEF Beginning
  <2>2. Loading' = Loading
    BY <1>2, <1>3 DEF Loading, Events
  <2>3. Starting' = Starting
    BY <1>2, <1>3 DEF Starting
  <2>4. Playing' = Playing
    BY <1>2, <1>3 DEF Playing, Events, EventsThen
  <2>5. Leaving' = Leaving
    BY <1>2, <1>3 DEF Leaving
  <2>6. Said' = Said
    BY <1>2, <1>3 DEF Said
  <2> QED
    BY <1>3, <2>1, <2>2, <2>3, <2>4, <2>5, <2>6 DEF Rows
<1>5. Doomed' = Doomed
  BY <1>2, <1>3 DEF Doomed
<1>6. Answers' = Answers
  BY <1>2, <1>3 DEF Answers
<1>7. CreditInv' = CreditInv
  BY <1>2, <1>3 DEF CreditInv, CountOK
<1> QED
  BY <1>1, <1>2, <1>4, <1>5, <1>6, <1>7, FullFacts DEF StreamInv

LEMMA OverrunKept ==
    ASSUME Full, Follows, PicoOverrun
    PROVE  StreamInv'
<1>1. Links' /\ Feeder'
  BY LinksKept, FeederKept DEF PicoKind
<1>2. /\ UNCHANGED <<mode, queue, ended, played, fromPico, pending, deferred>>
      /\ UNCHANGED <<stage, streaming, prebuffer, nextEvent, credit, batch, acksDue, staleCredit>>
      /\ Way' = Way /\ OnWay' = OnWay /\ Setup' = Setup /\ Feeding' = Feeding
  <2>1. fromPico' = fromPico
    <3>1. tx'.sent = <<>> /\ fromPico \in Seq(Frame)
      BY FullFacts DEF PicoOverrun, Silent, Links
    <3> QED
      BY <3>1, ConcatEmptySeq DEF Follows
  <2>2. /\ UNCHANGED <<mode, queue, ended, played, pending, deferred>>
        /\ UNCHANGED <<stage, streaming, prebuffer, nextEvent, credit, batch, acksDue, staleCredit>>
    BY FeederSame DEF PicoOverrun, Follows
  <2> QED
    BY <2>1, <2>2 DEF Way, OnWay, Setup, Feeding
<1>3. /\ staleCredit /\ streaming /\ stage \notin Early /\ stage \notin Setup
      /\ mode # "ERROR" => Feeding \/ stage \in Closing
  BY OverrunIsLate
<1>4. uartFault' /\ toPico' # <<>> /\ toPico # <<>>
      /\ \A i \in 1..Len(toPico') : \E j \in 1..Len(toPico) : toPico'[i] = toPico[j]
  BY FullFacts, EmptyIsSeq, CapacityAssumption DEF PicoOverrun
<1>5. NoModeSet => NoModeSet'
  BY <1>4 DEF NoModeSet
<1>6. mode' # "ERROR" => Rows'
  <2> SUFFICES ASSUME mode # "ERROR" PROVE Rows'
    BY <1>2
  <2>1. Rows
    BY FullFacts
  <2>2. mode = "PLAYING"
    <3>1. mode \in {"PLAYING", "ERROR"}
      BY OverrunIsLate
    <3> QED
      BY <3>1
  <2>3. InOrder'
    BY <1>2, <2>1 DEF Rows, InOrder
  <2>4. Beginning' /\ Loading' /\ Starting' /\ Leaving'
    <3>1. stage' \notin Early /\ stage' \notin Setup'
      BY <1>2, <1>3
    <3>2. stage \notin {"returning", "done", "failed"}
      BY <1>3, <2>2 DEF Feeding, Closing
    <3> QED
      BY <1>2, <3>1, <3>2 DEF Beginning, Loading, Starting, Leaving, Early
  <2>5. Playing'
    <3>1. NoModeSet /\ (Feeding => ~ended) /\ (stage \in Closing => nextEvent = TotalEvents)
      BY <1>3, <1>4, <2>1, <2>2 DEF Rows, Playing, Over
    <3> QED
      BY <1>2, <1>4, <1>5, <2>2, <3>1 DEF Playing
  <2>6. Said'
    <3>1. FinishedNews \notin OnWay
      BY <2>1, <2>2 DEF Rows, Said, Over
    <3> QED
      BY <1>2, <2>1, <3>1 DEF Rows, Said
  <2> QED
    BY <2>3, <2>4, <2>5, <2>6 DEF Rows
<1>7. mode' = "ERROR" => Doomed'
  BY <1>2, <1>5, FullFacts DEF Doomed
<1>8. Answers'
  <2>1. stage' \notin DOMAIN Answer /\ stage' # "accepted" /\ stage' \notin Setup'
    BY <1>2, <1>3, AnswerFields DEF Early
  <2> QED
    BY <2>1 DEF Answers
<1>9. CreditInv'
  BY <1>2, <1>3 DEF CreditInv
<1> QED
  BY <1>1, <1>6, <1>7, <1>8, <1>9 DEF StreamInv

LEMMA HeadTakenFacts ==
    ASSUME Links, HeadTaken
    PROVE  /\ Len(toPico') = Len(toPico) - 1 /\ Len(toPico) \in Nat /\ Len(toPico') \in Nat /\ Len(toPico) > 0
           /\ \A i \in 1..Len(toPico') : i + 1 \in 1..Len(toPico) /\ toPico'[i] = toPico[i + 1]
           /\ toPico' \in Seq(Request) /\ (Len(toPico) = 1 <=> toPico' = <<>>)
           /\ Head(toPico) = toPico[1] /\ 1 \in 1..Len(toPico) /\ Head(toPico) \in Request
<1>1. /\ toPico # <<>> /\ toPico' = Tail(toPico)
      /\ Len(toPico) \in Nat /\ Len(toPico) > 0 /\ 1 \in 1..Len(toPico)
      /\ Head(toPico) = toPico[1] /\ Head(toPico) \in Request
      /\ Tail(toPico) \in Seq(Request) /\ Len(Tail(toPico)) = Len(toPico) - 1
      /\ \A i \in 1..Len(Tail(toPico)) : i + 1 \in 1..Len(toPico) /\ Tail(toPico)[i] = toPico[i + 1]
      /\ Len(toPico) = 1 => Tail(toPico) = <<>>
  BY HeadOfWire DEF HeadTaken
<1> DEFINE t == Tail(toPico)
           n == Len(toPico)
<1>2. n \in Nat /\ Len(t) = n - 1 /\ n > 0 /\ (n = 1 => t = <<>>)
  BY <1>1
<1> HIDE DEF t, n
<1>3. Len(t) \in Nat /\ (t = <<>> => n = 1)
  <2>1. t = <<>> => Len(t) = 0
    BY EmptyIsSeq
  <2> QED
    BY <1>2, <2>1
<1>4. toPico' = t
  BY <1>1 DEF t
<1>5. /\ Len(toPico') = Len(toPico) - 1 /\ Len(toPico) \in Nat /\ Len(toPico') \in Nat /\ Len(toPico) > 0
      /\ Len(toPico) = 1 <=> toPico' = <<>>
  BY <1>2, <1>3, <1>4 DEF n
<1>6. /\ \A i \in 1..Len(toPico') : i + 1 \in 1..Len(toPico) /\ toPico'[i] = toPico[i + 1]
      /\ toPico' \in Seq(Request)
  BY <1>1
<1> QED
  BY <1>1, <1>5, <1>6

\* What the Zero is doing when the Pico stops with an error.
LEMMA StopFinds ==
    ASSUME Full, PicoStop
    PROVE  /\ stage \notin {"begin", "arming", "returning", "done"}
           /\ NoModeSet /\ FinishedNews \notin OnWay
<1>1. CASE mode = "ERROR"
  BY <1>1, FullFacts DEF Doomed
<1>2. CASE mode = "PLAYING"
  <2>1. Rows /\ Feeder
    BY <1>2, FullFacts
  <2>2. FinishedNews \notin OnWay
    BY <1>2, <2>1 DEF Rows, Said, Over
  <2>3. (stage \in {"accepted", "epoch"} /\ toPico = <<>>) \/ Feeding \/ stage \in Closing
    BY <1>2, <2>1, NowPlaying
  <2>4. toPico = <<>> => NoModeSet
    BY EmptyIsSeq DEF NoModeSet
  <2>5. Feeding \/ stage \in Closing => NoModeSet
    BY <1>2, <2>1 DEF Rows, Playing, Over
  <2> QED
    BY <2>2, <2>3, <2>4, <2>5 DEF Feeding, Closing
<1>3. CASE mode # "ERROR" /\ mode # "PLAYING"
  <2>1. Rows /\ Links /\ Feeder /\ HeadTaken /\ Head(toPico).type # "MODE_SET" /\ ~uartFault /\ mode # "PASS"
    BY <1>3, FullFacts DEF PicoStop, Links
  <2>2. WireIs
    BY <2>1, WireCases DEF HeadTaken
  <2>3. FinishedNews \notin OnWay
    BY <1>3, <2>1 DEF Rows, Said, Over, HeadTaken
  <2>4. CASE stage \in {"feed", "acks", "credit"} /\ Events(Sent)
    <3>1. NoModeSet
      BY <2>4, RequestTypes DEF NoModeSet, Events
    <3> QED
      BY <2>3, <2>4, <3>1
  <2>5. CASE \E c : toPico = <<c>> /\ stage \in {"clearing", "ready", "accepted", "returning"}
                                  /\ (stage = "returning" => c = SetMode("PASS"))
    <3>1. PICK c : toPico = <<c>> /\ stage \in {"clearing", "ready", "accepted", "returning"}
                                  /\ (stage = "returning" => c = SetMode("PASS"))
      BY <2>5
    <3>2. Len(toPico) = 1 /\ toPico[1] = c /\ Head(toPico) = c
      BY <3>1, LenOfOne
    <3>3. NoModeSet
      <4>1. c.type # "MODE_SET"
        BY <2>1, <3>2
      <4>2. \A i \in 1..Len(toPico) : i = 1
        BY <3>2
      <4> QED
        BY <3>2, <4>1, <4>2 DEF NoModeSet
    <3>4. stage # "returning"
      BY <2>1, <3>1, <3>2, RequestTypes
    <3> QED
      BY <2>3, <3>1, <3>3, <3>4
  <2> QED
    <3> HIDE DEF Events
    <3> QED
      BY <1>3, <2>1, <2>2, <2>4, <2>5 DEF WireIs
<1> QED
  BY <1>1, <1>2, <1>3

\* READY is said before the error only to a QUEUE_END that finds nothing on its way.
LEMMA StopSays ==
    ASSUME Full, Follows, PicoStop
    PROVE  \/ Bland(tx'.sent)
           \/ /\ stage = "ready" /\ fromPico = <<>> /\ Fresh /\ toPico # <<>> /\ toPico' = <<>>
              /\ Len(tx'.sent) > 0 /\ tx'.sent[1] = Plain("PLAY_READY")
              /\ \A i \in 2..Len(tx'.sent) : tx'.sent[i].type # "PLAY_READY"
              /\ \A i \in 1..Len(tx'.sent) : /\ tx'.sent[i] # StartNews /\ tx'.sent[i].type # "PLAY_STARTED"
                                             /\ ~IsStatus(tx'.sent[i])
<1> DEFINE s == tx'.sent
<1>1. Len(s) \in Nat
  BY WaySame, LenProperties
<1>2. \A i \in 1..Len(s) : Ending(s[i]) \/ (i = 1 /\ s[1] = Plain("PLAY_READY"))
  BY DEF PicoStop
<1>3. \A x : Ending(x) => x # StartNews /\ x.type # "PLAY_STARTED" /\ x.type # "PLAY_READY" /\ ~IsStatus(x)
  BY DEF Ending, StartNews, ModeChanged, IsStatus
<1> HIDE DEF s
<1>4. CASE \A i \in 1..Len(s) : Ending(s[i])
  BY <1>3, <1>4 DEF Bland, s
<1>5. CASE Len(s) > 0 /\ s[1] = Plain("PLAY_READY") /\ ~Ending(s[1])
  <2>1. mode = "ARMED" /\ HeadTaken /\ Head(toPico) = Plain("QUEUE_END") /\ ~uartFault
    <3>1. 1 \in 1..Len(s)
      BY <1>1, <1>5
    <3> QED
      BY <1>5, <3>1 DEF PicoStop, s
  <2>2. Rows /\ Links /\ Feeder /\ CoreInv
    BY <2>1, FullFacts, BaseFacts
  <2>3. stage = "ready" /\ Len(toPico) = 1
    <3>1. WireIs /\ toPico # <<>>
      BY <2>1, <2>2, WireCases DEF HeadTaken
    <3> QED
      BY <2>1, <2>2, <3>1, HeadStage
  <2>4. fromPico = <<>> /\ Fresh
    BY <2>1, <2>2, <2>3, LenOfOne DEF Rows, Loading, Setup, Fresh, HeadTaken
  <2>5. toPico # <<>> /\ toPico' = <<>>
    BY <2>1, <2>2, <2>3, HeadTakenFacts DEF HeadTaken
  <2>6. \A i \in 2..Len(s) : i \in 1..Len(s) /\ i # 1
    OBVIOUS
  <2>7. s[1] # StartNews /\ s[1].type # "PLAY_STARTED" /\ ~IsStatus(s[1])
    BY <1>5 DEF StartNews, ModeChanged, Plain, IsStatus
  <2>8. \A i \in 1..Len(s) : s[i] # StartNews /\ s[i].type # "PLAY_STARTED" /\ ~IsStatus(s[i])
    BY <1>2, <1>3, <2>7
  <2>9. \A i \in 2..Len(s) : s[i].type # "PLAY_READY"
    BY <1>2, <1>3, <2>6
  <2> QED
    BY <1>5, <2>3, <2>4, <2>5, <2>8, <2>9 DEF s
<1> QED
  BY <1>1, <1>2, <1>4, <1>5

\* The first frames after the wire from the Pico was empty.
LEMMA FirstAnswers ==
    ASSUME Full, Follows, stage \in {"ready", "accepted"}, fromPico = <<>>, Fresh, toPico' = <<>>,
           \A i \in 2..Len(tx'.sent) : tx'.sent[i] # Answer[stage],
           stage = "accepted" /\ Len(tx'.sent) > 0 /\ tx'.sent[1] = StartNews =>
              /\ \A i \in 2..Len(tx'.sent) : i = 2 /\ tx'.sent[2] = Plain("PLAY_STARTED"),
           stage = "ready" => \A i \in 1..Len(tx'.sent) :
              /\ tx'.sent[i] # StartNews /\ tx'.sent[i].type # "PLAY_STARTED"
              /\ IsStatus(tx'.sent[i]) => tx'.sent[i].state = "ARMED"
    PROVE  Answers'
<1> DEFINE s == tx'.sent
<1>1. stage' = stage /\ Setup' = Setup /\ s \in Seq(Frame) /\ Len(s) \in Nat
  BY FeederSame, WaySame, LenProperties DEF Follows
<1>2. fromPico' = s
  BY WaySame, ConcatEmptySeq DEF Follows
<1>3. Fresh' /\ OnWay' = Range(s)
  <2>1. OnWay = Range(fromPico) /\ OnWay' = OnWay \cup Range(s) /\ Fresh'
    BY FullFacts, WayFrames, WaySame
  <2>2. Range(fromPico) = {}
    BY RangeOfNone
  <2> QED
    BY <2>1, <2>2
<1>4. \A x : x \in OnWay' <=> \E i \in 1..Len(s) : s[i] = x
  BY <1>1, <1>3, InRange
<1>5. /\ \A i \in 2..Len(s) : s[i] # Answer[stage]
      /\ stage = "accepted" /\ Len(s) > 0 /\ s[1] = StartNews =>
              /\ \A i \in 2..Len(s) : i = 2 /\ s[2] = Plain("PLAY_STARTED")
      /\ stage = "ready" => \A i \in 1..Len(s) :
              /\ s[i] # StartNews /\ s[i].type # "PLAY_STARTED"
              /\ IsStatus(s[i]) => s[i].state = "ARMED"
  OBVIOUS
<1> HIDE DEF s
<1>6. ASSUME Answer[stage] \in OnWay'
      PROVE  /\ Len(s) > 0 /\ s[1] = Answer[stage]
             /\ stage = "accepted" /\ Plain("PLAY_STARTED") \in OnWay' =>
                   /\ Len(s) > 1 /\ s[2] = Plain("PLAY_STARTED")
                   /\ \A i \in 3..Len(s) : s[i] # Plain("PLAY_STARTED")
  <2>1. PICK i \in 1..Len(s) : s[i] = Answer[stage]
    BY <1>4, <1>6
  <2>2. i = 1
    <3>1. ~(i \in 2..Len(s))
      BY <1>5, <2>1
    <3> QED
      BY <1>1, <3>1
  <2>3. Len(s) > 0 /\ s[1] = Answer[stage]
    BY <1>1, <2>1, <2>2
  <2>4. ASSUME stage = "accepted", Plain("PLAY_STARTED") \in OnWay'
        PROVE  /\ Len(s) > 1 /\ s[2] = Plain("PLAY_STARTED")
               /\ \A k \in 3..Len(s) : s[k] # Plain("PLAY_STARTED")
    <3>1. \A k \in 2..Len(s) : k = 2 /\ s[2] = Plain("PLAY_STARTED")
      BY <1>5, <2>3, <2>4, AnswerFields
    <3>2. PICK k \in 1..Len(s) : s[k] = Plain("PLAY_STARTED")
      BY <1>4, <2>4
    <3>3. k # 1
      <4>1. StartNews # Plain("PLAY_STARTED")
        BY DEF StartNews, ModeChanged, Plain
      <4> QED
        BY <2>3, <2>4, <3>2, <4>1, AnswerFields
    <3>4. k \in 2..Len(s)
      BY <1>1, <3>2, <3>3
    <3>5. Len(s) > 1 /\ s[2] = Plain("PLAY_STARTED")
      BY <1>1, <3>1, <3>4
    <3>6. \A m \in 3..Len(s) : m \in 2..Len(s) /\ m # 2
      OBVIOUS
    <3> QED
      BY <3>1, <3>5, <3>6
  <2> QED
    BY <2>3, <2>4
<1>7. \A i \in 2..Len(s) : s[i] # Answer[stage]
  BY <1>5
<1>8. ASSUME stage \in Setup, NEW x \in OnWay'
      PROVE  /\ x # StartNews /\ x.type # "PLAY_STARTED"
             /\ IsStatus(x) => x.state = "ARMED"
             /\ stage \notin {"clearing", "feed", "acks", "credit"}
  <2>1. stage = "ready"
    BY <1>8 DEF Setup
  <2> QED
    BY <1>4, <1>5, <1>8, <2>1
<1>9. /\ stage \in DOMAIN Answer /\ Answer[stage] \in OnWay' =>
          /\ toPico' = <<>> /\ Fresh' /\ fromPico'[1] = Answer[stage]
          /\ \A i \in 2..Len(fromPico') : fromPico'[i] # Answer[stage]
          /\ stage = "accepted" /\ Plain("PLAY_STARTED") \in OnWay' =>
                /\ Len(fromPico') > 1 /\ fromPico'[2] = Plain("PLAY_STARTED")
                /\ \A i \in 3..Len(fromPico') : fromPico'[i] # Plain("PLAY_STARTED")
  BY <1>2, <1>3, <1>6, <1>7
<1> QED
  BY <1>1, <1>8, <1>9 DEF Answers

LEMMA ShorterWire ==
    ASSUME Full, NoEvents \/ Len(queue) + Len(toPico) =< QueueCapacity,
           \/ SameWire /\ Len(queue') \in Nat /\ Len(queue') =< Len(queue)
           \/ HeadTaken /\ Len(queue') \in Nat /\ Len(queue') =< Len(queue) + 1
    PROVE  /\ Len(toPico') \in Nat /\ Len(toPico') =< Len(toPico)
           /\ NoEvents' \/ Len(queue') + Len(toPico') =< QueueCapacity
<1>1. Len(toPico) \in Nat /\ Len(queue) \in Nat /\ QueueCapacity \in Nat /\ Links
  BY FullFacts
<1>2. CASE SameWire /\ Len(queue') \in Nat /\ Len(queue') =< Len(queue)
  <2>1. Len(toPico') = Len(toPico) /\ (NoEvents => NoEvents')
    BY <1>2 DEF SameWire, NoEvents
  <2> QED
    BY <1>1, <1>2, <2>1
<1>3. CASE HeadTaken /\ Len(queue') \in Nat /\ Len(queue') =< Len(queue) + 1
  <2>1. /\ Len(toPico') = Len(toPico) - 1 /\ Len(toPico') \in Nat
        /\ \A i \in 1..Len(toPico') : i + 1 \in 1..Len(toPico) /\ toPico'[i] = toPico[i + 1]
    BY <1>1, <1>3, HeadTakenFacts
  <2>2. NoEvents => NoEvents'
    BY <2>1 DEF NoEvents
  <2> QED
    BY <1>1, <1>3, <2>1, <2>2
<1> QED
  BY <1>2, <1>3

LEMMA StopKept ==
    ASSUME Full, Follows, PicoStop
    PROVE  StreamInv'
<1> DEFINE s == tx'.sent
<1>1. Links' /\ Feeder'
  BY LinksKept, FeederKept DEF PicoKind
<1>2. mode' = "ERROR" /\ queue' = <<>> /\ stage' = stage /\ ~uartFault' /\ Len(queue') = 0
  BY FeederSame, EmptyIsSeq DEF PicoStop, Follows
<1>3. SameWire \/ HeadTaken
  BY DEF PicoStop
<1>4. stage \notin {"begin", "arming", "returning", "done"} /\ NoModeSet /\ FinishedNews \notin OnWay
  BY StopFinds
<1>5. Doomed'
  <2>1. NoModeSet'
    <3>1. CASE SameWire
      BY <1>4, <3>1 DEF SameWire, NoModeSet
    <3>2. CASE HeadTaken
      BY <1>4, <3>2, FullFacts, HeadTakenFacts DEF NoModeSet
    <3> QED
      BY <1>3, <3>1, <3>2
  <2>2. \A i \in 1..Len(s) : s[i] # FinishedNews
    <3>1. \A x : Ending(x) \/ x = Plain("PLAY_READY") => x # FinishedNews
      BY DEF Ending, FinishedNews, ModeChanged, Plain
    <3> QED
      BY <3>1 DEF PicoStop
  <2>3. FinishedNews \notin OnWay'
    BY <1>4, <2>2, WaySame
  <2> QED
    BY <1>2, <1>4, <2>1, <2>3 DEF Doomed
<1>6. toPico = <<>> => toPico' = <<>>
  BY <1>3 DEF SameWire, HeadTaken
<1>7. \A i \in 1..Len(s) : ~IsStatus(s[i])
  <2>1. \A x : Ending(x) \/ x = Plain("PLAY_READY") => ~IsStatus(x)
    BY DEF Ending, IsStatus, Plain
  <2> QED
    BY <2>1 DEF PicoStop
<1>8. Answers'
  <2>1. CASE Bland(s)
    BY <1>6, <1>7, <2>1, BlandAnswers
  <2>2. CASE /\ stage = "ready" /\ fromPico = <<>> /\ Fresh /\ toPico' = <<>>
             /\ \A i \in 2..Len(s) : s[i].type # "PLAY_READY"
             /\ \A i \in 1..Len(s) : s[i] # StartNews /\ s[i].type # "PLAY_STARTED"
    <3>1. \A i \in 2..Len(s) : s[i] # Answer[stage]
      BY <2>2, AnswerFields
    <3> QED
      BY <1>7, <2>2, <3>1, FirstAnswers
  <2> QED
    BY <2>1, <2>2, StopSays
<1>9. CreditInv'
  <2>1. /\ Len(toPico') \in Nat /\ Len(toPico') =< Len(toPico) /\ Len(toPico) \in Nat
    BY <1>3, FullFacts, HeadTakenFacts DEF SameWire
  <2>2. ~staleCredit => NoEvents' \/ Len(queue') + Len(toPico') =< QueueCapacity
    <3> SUFFICES ASSUME ~staleCredit PROVE NoEvents' \/ Len(queue') + Len(toPico') =< QueueCapacity
      OBVIOUS
    <3>1. NoEvents \/ Len(queue) + Len(toPico) =< QueueCapacity
      BY FullFacts DEF CreditInv, CountOK
    <3>2. Len(queue') \in Nat /\ Len(queue') =< Len(queue) /\ Len(queue') =< Len(queue) + 1
      <4>1. Len(queue) \in Nat
        BY FullFacts
      <4> QED
        BY <1>2, <4>1
    <3> QED
      BY <1>3, <3>1, <3>2, ShorterWire
  <2>3. ASSUME ~staleCredit, Counting'
        PROVE  /\ Counting
               /\ Due = 0 => credit + Len(queue') =< QueueCapacity
               /\ toPico' # <<>> => Outstanding(fromPico', Due - Len(toPico'))
               /\ toPico' = <<>> => Settled(fromPico', Due, Len(queue'), credit)
    <3>1. Counting
      <4>1. CASE Bland(s)
        <5>1. stage \in DOMAIN Answer => \A i \in 1..Len(s) : s[i] # Answer[stage]
          BY <4>1, BlandIsNoAnswer
        <5>2. stage \in DOMAIN Answer /\ Answer[stage] \in OnWay' => Answer[stage] \in OnWay
          BY <5>1, WaySame
        <5> QED
          BY <1>2, <1>6, <2>3, <5>2 DEF Counting
      <4>2. CASE stage = "ready" /\ toPico # <<>>
        BY <4>2, AnswerFields DEF Counting
      <4> QED
        BY <4>1, <4>2, StopSays
    <3>2. Counted /\ CountOK
      BY <2>3, <3>1, FullFacts DEF CreditInv, CountOK
    <3>3. Due = 0 => credit + Len(queue') =< QueueCapacity
      <4>1. credit \in 0..QueueCapacity /\ QueueCapacity \in Nat
        BY FullFacts DEF Feeder
      <4> QED
        BY <1>2, <4>1
    <3>4. Due \in Nat
      BY FullFacts DEF Due, Feeder
    <3>5. NoStatus(s) /\ s \in Seq(Frame) /\ fromPico \in Seq(Frame) /\ fromPico' = fromPico \o s
      BY <1>7, WaySame DEF NoStatus, Follows
    <3> HIDE DEF s
    <3>6. ASSUME toPico' # <<>> PROVE Outstanding(fromPico', Due - Len(toPico'))
      <4>1. Outstanding(fromPico, Due - Len(toPico))
        BY <1>6, <3>2, <3>6 DEF Counted
      <4> DEFINE m == Due - Len(toPico)
                 n == Due - Len(toPico')
      <4>2. m \in Int /\ n \in Int /\ m =< n
        BY <2>1, <3>4
      <4> HIDE DEF m, n
      <4>3. Outstanding(fromPico \o s, n)
        BY <3>5, <4>1, <4>2, OutstandingGrows DEF m
      <4> QED
        BY <3>5, <4>3 DEF n
    <3>7. ASSUME toPico' = <<>> PROVE Settled(fromPico', Due, 0, credit)
      <4>1. CASE toPico = <<>>
        <5>1. Settled(fromPico, Due, Len(queue), credit)
          BY <3>2, <4>1 DEF Counted
        <5>2. Len(queue) \in Nat /\ 0 \in Nat /\ 0 =< Len(queue)
          BY FullFacts
        <5> QED
          BY <3>4, <3>5, <5>1, <5>2, SettledGrows
      <4>2. CASE toPico # <<>>
        <5>1. HeadTaken /\ Len(toPico) = 1
          BY <1>3, <3>7, <4>2, FullFacts, HeadTakenFacts DEF SameWire
        <5>2. Outstanding(fromPico, Due - Len(toPico))
          BY <3>2, <4>2 DEF Counted
        <5>3. Outstanding(fromPico, Due - 1)
          BY <5>1, <5>2
        <5> QED
          BY <3>4, <3>5, <5>3, LostSettles
      <4> QED
        BY <4>1, <4>2
    <3> QED
      BY <1>2, <3>1, <3>3, <3>6, <3>7
  <2> QED
    BY <1>2, <1>6, <2>1, <2>2, <2>3, CreditKeeps
<1> QED
  BY <1>1, <1>2, <1>5, <1>8, <1>9 DEF StreamInv

LEMMA BlandCounting ==
    ASSUME Full, Follows, Bland(tx'.sent), toPico = <<>> => toPico' = <<>>, Counting'
    PROVE  Counting
<1>1. stage' = stage
  BY FeederSame DEF Follows
<1>2. stage \in DOMAIN Answer => \A i \in 1..Len(tx'.sent) : tx'.sent[i] # Answer[stage]
  BY BlandIsNoAnswer
<1>3. stage \in DOMAIN Answer /\ Answer[stage] \in OnWay' => Answer[stage] \in OnWay
  BY <1>2, WaySame
<1> QED
  BY <1>1, <1>3 DEF Counting

\* The rows of the other stages.
LEMMA RunningRows ==
    ASSUME Full, Follows, stage \in {"accepted", "epoch"} \cup Closing \/ Feeding
    PROVE  Beginning' /\ Loading' /\ Leaving'
<1>1. stage' = stage /\ Setup' = Setup
  BY FeederSame DEF Follows
<1>2. stage \notin Setup
  BY DEF Feeding, Closing, Setup
<1>3. stage \notin {"begin", "arming", "returning", "done", "failed"}
  BY DEF Feeding, Closing
<1> QED
  BY <1>1, <1>2, <1>3 DEF Beginning, Loading, Leaving

\* What counting the statuses gives.
LEMMA CountedHas ==
    ASSUME Full, ~staleCredit, Counting
    PROVE  /\ Counted /\ Due \in Nat /\ credit \in 0..QueueCapacity
           /\ Due = 0 => credit + Len(queue) =< QueueCapacity
           /\ toPico # <<>> => Outstanding(fromPico, Due - Len(toPico))
           /\ toPico = <<>> => Settled(fromPico, Due, Len(queue), credit)
<1>1. Counted
  BY FullFacts DEF CreditInv, CountOK
<1>2. Due \in Nat /\ credit \in 0..QueueCapacity
  BY FullFacts DEF Due, Feeder
<1> QED
  BY <1>1, <1>2 DEF Counted

LEMMA FinishKept ==
    ASSUME Full, Follows, PicoFinish
    PROVE  StreamInv'
<1> DEFINE s == tx'.sent
<1>1. Links' /\ Feeder'
  BY LinksKept, FeederKept DEF PicoKind
<1>2. /\ stage \in {"accepted", "epoch"} \cup Closing /\ toPico = <<>> /\ nextEvent = TotalEvents
      /\ played + Len(queue) = TotalEvents
  BY FinishIsEnd
<1>3. /\ mode = "PLAYING" /\ mode' = "ARMED" /\ queue' = <<>> /\ ended' = FALSE /\ toPico' = <<>> /\ ~uartFault'
      /\ played' = TotalEvents /\ Len(queue') = 0
  BY <1>2, EmptyIsSeq DEF PicoFinish, SameWire, NoFault
<1>4. stage' = stage /\ nextEvent' = nextEvent /\ Feeding' = Feeding /\ prebuffer' = prebuffer
  BY FeederSame DEF Follows
<1>5. Over'
  BY <1>3 DEF Over
<1>6. Rows /\ FinishedNews \notin OnWay
  BY <1>3, FullFacts DEF Rows, Said, Over
<1>7. \A i \in 1..Len(s) : \/ s[i].type \in {"PLAY_FINISHED", "PLAY_METRICS"}
                           \/ s[i] = FinishedNews /\ i = Len(s)
  BY DEF PicoFinish
<1>8. FinishedNews.type = "MODE_CHANGED" /\ FinishedNews # StartNews
  BY DEF FinishedNews, StartNews, ModeChanged
<1>9. s \in Seq(Frame) /\ Way \in Seq(Frame) /\ fromPico \in Seq(Frame)
      /\ Way' = Way \o s /\ fromPico' = fromPico \o s
  BY WaySame DEF Follows
<1>10. \A x : x \in OnWay' => x \in OnWay \/ \E i \in 1..Len(s) : s[i] = x
  BY WaySame
<1> HIDE DEF s
<1>11. Bland(s) /\ NoStatus(s)
  BY <1>7, <1>8 DEF Bland, NoStatus, IsStatus, StartNews, ModeChanged
<1>12. Said'
  <2>1. ASSUME NEW i \in 1..Len(Way'), Way'[i] = FinishedNews PROVE i = Len(Way')
    <3> DEFINE v == Way \o s
    <3>1. /\ Len(Way) \in Nat /\ Len(s) \in Nat /\ Len(v) = Len(Way) + Len(s)
          /\ \A k \in 1..Len(Way) : v[k] = Way[k]
          /\ \A k \in 1..(Len(Way) + Len(s)) : k > Len(Way) => k - Len(Way) \in 1..Len(s) /\ v[k] = s[k - Len(Way)]
      BY <1>9, JoinedFrames
    <3>2. Way' = v
      BY <1>9
    <3>3. \A k \in 1..Len(Way) : Way[k] \in OnWay
      BY FullFacts, WayFrames
    <3> HIDE DEF v
    <3>4. i \in 1..(Len(Way) + Len(s)) /\ v[i] = FinishedNews
      BY <2>1, <3>1, <3>2
    <3>5. i > Len(Way)
      <4>1. ~(i \in 1..Len(Way))
        BY <1>6, <3>1, <3>3, <3>4
      <4> QED
        BY <3>1, <3>4, <4>1
    <3>6. i - Len(Way) \in 1..Len(s) /\ s[i - Len(Way)] = FinishedNews
      BY <3>1, <3>4, <3>5
    <3> DEFINE k == i - Len(Way)
    <3>7. k = Len(s)
      <4>1. k \in 1..Len(s) /\ s[k] = FinishedNews
        BY <3>6
      <4> HIDE DEF k
      <4> QED
        BY <1>7, <1>8, <4>1
    <3> QED
      BY <3>1, <3>2, <3>4, <3>7
  <2>2. ASSUME NEW x \in OnWay'
        PROVE  /\ stage = "accepted" => RunFrame(x) \/ x = StartNews
               /\ stage \in {"epoch"} \cup Closing \/ Feeding => RunFrame(x) \/ x.type = "PLAY_READY"
    <3>1. CASE x \in OnWay
      BY <1>6, <3>1 DEF Rows, Said
    <3>2. CASE \E i \in 1..Len(s) : s[i] = x
      BY <1>7, <3>2 DEF RunFrame
    <3> QED
      BY <1>10, <2>2, <3>1, <3>2
  <2>3. /\ stage' = "accepted" => \A x \in OnWay' : RunFrame(x) \/ x = StartNews
        /\ stage' \in {"epoch"} \cup Closing \/ Feeding' => \A x \in OnWay' : RunFrame(x) \/ x.type = "PLAY_READY"
    BY <1>4, <2>2
  <2> QED
    BY <1>5, <2>1, <2>3 DEF Said
<1>13. Rows'
  <2>1. InOrder'
    BY <1>3 DEF InOrder
  <2>2. Beginning' /\ Loading' /\ Leaving'
    BY <1>2, RunningRows
  <2>3. Starting'
    <3>1. stage = "accepted" => nextEvent = prebuffer
      BY <1>6 DEF Rows, Starting
    <3> QED
      BY <1>2, <1>3, <1>4, <1>5, <3>1 DEF Starting
  <2>4. Playing'
    <3>1. ~Feeding
      BY <1>2 DEF Feeding, Closing
    <3> QED
      BY <1>2, <1>4, <1>5, <3>1 DEF Playing
  <2> QED
    BY <1>12, <2>1, <2>2, <2>3, <2>4 DEF Rows
<1>14. Answers'
  <2>1. toPico = <<>> => toPico' = <<>>
    BY <1>3
  <2>2. \A i \in 1..Len(tx'.sent) : ~IsStatus(tx'.sent[i])
    BY <1>11 DEF NoStatus, s
  <2>3. Bland(tx'.sent)
    BY <1>11 DEF s
  <2> QED
    BY <2>1, <2>2, <2>3, BlandAnswers
<1>15. CreditInv'
  <2>1. Len(toPico') = 0 /\ Len(toPico) = 0 /\ toPico = <<>>
    BY <1>2, <1>3, EmptyIsSeq
  <2>2. NoEvents'
    BY <1>3, EmptyIsSeq DEF NoEvents
  <2>3. ASSUME ~staleCredit, Counting'
        PROVE  /\ Counting
               /\ Due = 0 => credit + Len(queue') =< QueueCapacity
               /\ Settled(fromPico', Due, Len(queue'), credit)
    <3>1. Counting
      BY <1>3, <1>11, <2>3, BlandCounting DEF s
    <3>2. Settled(fromPico, Due, Len(queue), credit) /\ Due \in Nat /\ credit \in 0..QueueCapacity
      BY <1>2, <2>3, <3>1, CountedHas
    <3>3. Len(queue) \in Nat /\ 0 =< Len(queue) /\ QueueCapacity \in Nat
      BY FullFacts
    <3>4. Settled(fromPico \o s, Due, 0, credit)
      BY <1>9, <1>11, <3>2, <3>3, SettledGrows
    <3>5. Due = 0 => credit + Len(queue') =< QueueCapacity
      BY <1>3, <3>2, <3>3
    <3> QED
      BY <1>3, <1>9, <3>1, <3>4, <3>5
  <2> QED
    BY <1>3, <2>1, <2>2, <2>3, CreditKeeps
<1> QED
  BY <1>1, <1>3, <1>13, <1>14, <1>15 DEF StreamInv

LEMMA StarveKept ==
    ASSUME Full, Follows, PicoStarve
    PROVE  StreamInv'
<1> DEFINE s == tx'.sent
<1>1. Links' /\ Feeder'
  BY LinksKept, FeederKept DEF PicoKind
<1>2. /\ UNCHANGED <<mode, queue, ended, played, toPico>> /\ mode = "PLAYING" /\ ~uartFault /\ ~uartFault'
      /\ queue = <<>> /\ Len(queue) = 0
  BY EmptyIsSeq DEF PicoStarve, SameWire, NoFault
<1>3. stage' = stage /\ nextEvent' = nextEvent /\ Feeding' = Feeding /\ prebuffer' = prebuffer /\ batch' = batch
  BY FeederSame DEF Follows
<1>4. Rows /\ Feeder
  BY <1>2, FullFacts
<1>5. Len(s) = 1 /\ IsUnderrun(s[1]) /\ \A i \in 1..Len(s) : i = 1
  BY LenOfOne DEF PicoStarve, IsUnderrun, PlayUnderrun
<1>6. s \in Seq(Frame) /\ fromPico \in Seq(Frame) /\ fromPico' = fromPico \o s
  BY WaySame DEF Follows
<1> HIDE DEF s
<1>7. Bland(s) /\ NoStatus(s) /\ \A i \in 1..Len(s) : RunFrame(s[i]) /\ s[i] # FinishedNews
  BY <1>5 DEF Bland, NoStatus, IsStatus, IsUnderrun, RunFrame, StartNews, FinishedNews, ModeChanged
<1>8. FinishedNews \notin OnWay
  BY <1>2, <1>4 DEF Rows, Said, Over
<1>9. Said'
  BY <1>4, <1>7, <1>8, SaidGrows DEF Rows, s
<1>10. stage \in {"accepted", "epoch"} \cup Closing \/ Feeding
  BY <1>2, <1>4, NowPlaying
<1>11. Rows'
  <2>1. InOrder'
    BY <1>2, <1>4 DEF Rows, InOrder
  <2>2. Beginning' /\ Loading' /\ Leaving'
    BY <1>10, RunningRows
  <2>3. Starting'
    BY <1>2, <1>3, <1>4 DEF Rows, Starting, Running, Over
  <2>4. Playing'
    BY <1>2, <1>3, <1>4 DEF Rows, Playing, Events, EventsThen, NoModeSet, Over
  <2> QED
    BY <1>9, <2>1, <2>2, <2>3, <2>4 DEF Rows
<1>12. Answers'
  BY <1>2, <1>7, BlandAnswers DEF NoStatus, s
<1>13. CreditInv'
  <2>1. ~staleCredit => NoEvents \/ Len(queue) + Len(toPico) =< QueueCapacity
    BY FullFacts DEF CreditInv, CountOK
  <2>2. NoEvents' = NoEvents
    BY <1>2 DEF NoEvents
  <2>3. ASSUME ~staleCredit, Counting'
        PROVE  /\ Counting
               /\ Due = 0 => credit + Len(queue') =< QueueCapacity
               /\ toPico' # <<>> => Outstanding(fromPico', Due - Len(toPico'))
               /\ toPico' = <<>> => Settled(fromPico', Due, Len(queue'), credit)
    <3>1. Counting
      BY <1>2, <1>7, <2>3, BlandCounting DEF s
    <3>2. /\ Due \in Nat /\ (Due = 0 => credit + Len(queue) =< QueueCapacity)
          /\ toPico # <<>> => Outstanding(fromPico, Due - Len(toPico))
          /\ toPico = <<>> => Settled(fromPico, Due, Len(queue), credit)
      BY <2>3, <3>1, CountedHas
    <3>3. toPico # <<>> => Outstanding(fromPico \o s, Due - Len(toPico))
      <4> DEFINE m == Due - Len(toPico)
      <4>1. m \in Int /\ m =< m
        BY <3>2, FullFacts
      <4> HIDE DEF m
      <4>2. Outstanding(fromPico, m) => Outstanding(fromPico \o s, m)
        BY <1>6, <1>7, <4>1, OutstandingGrows
      <4> QED
        BY <3>2, <4>2 DEF m
    <3>4. toPico = <<>> => Settled(fromPico \o s, Due, 0, credit)
      <4>1. 0 \in Nat /\ 0 =< 0
        OBVIOUS
      <4>2. Settled(fromPico, Due, 0, credit) => Settled(fromPico \o s, Due, 0, credit)
        BY <1>6, <1>7, <3>2, <4>1, SettledGrows
      <4> QED
        BY <1>2, <3>2, <4>2
    <3> QED
      BY <1>2, <1>6, <3>1, <3>2, <3>3, <3>4
  <2> QED
    BY <1>2, <2>1, <2>2, <2>3, FullFacts, CreditKeeps
<1> QED
  BY <1>1, <1>2, <1>11, <1>12, <1>13 DEF StreamInv

\* A command that Counting counts, while the Pico plays, is an event.
LEMMA CountedIsEvent ==
    ASSUME Full, ~staleCredit, Counting, mode = "PLAYING", toPico # <<>>
    PROVE  Len(queue) < QueueCapacity
<1>1. Rows /\ Feeder /\ ~uartFault /\ (NoEvents \/ Len(queue) + Len(toPico) =< QueueCapacity)
  BY FullFacts DEF CreditInv, CountOK
<1>2. stage \notin Closing
  BY AnswerFields DEF Counting, Closing
<1>3. Feeding
  BY <1>1, <1>2, NowPlaying
<1>4. Events(IF stage = "acks" THEN nextEvent + batch ELSE nextEvent)
  BY <1>1, <1>3 DEF Rows, Playing
<1>5. Len(toPico) \in Nat /\ Len(toPico) > 0 /\ 1 \in 1..Len(toPico) /\ Links
  BY FullFacts, HeadOfWire
<1>6. ~NoEvents
  <2>1. toPico[1] = Event(played + Len(queue) + 1)
    BY <1>4, <1>5 DEF Events
  <2> QED
    BY <1>5, <2>1, RequestTypes DEF NoEvents
<1>7. Len(queue) + Len(toPico) =< QueueCapacity
  BY <1>1, <1>6
<1> QED
  BY <1>5, <1>7, FullFacts

LEMMA PlayKept ==
    ASSUME Full, Follows, PicoPlay
    PROVE  StreamInv'
<1> DEFINE s == tx'.sent
           q == Len(queue)
           notice == BufferStatus("PLAYING", 1)
           under == PlayUnderrun(QueueCapacity)
<1>1. Links' /\ Feeder'
  BY LinksKept, FeederKept DEF PicoKind
<1>2. /\ UNCHANGED <<mode, ended, toPico>> /\ mode = "PLAYING" /\ ~uartFault /\ ~uartFault'
      /\ queue # <<>> /\ queue' = Tail(queue) /\ played' = played + 1
  BY DEF PicoPlay, SameWire, NoFault
<1>3. stage' = stage /\ nextEvent' = nextEvent /\ Feeding' = Feeding /\ prebuffer' = prebuffer /\ batch' = batch
  BY FeederSame DEF Follows
<1>4. Rows /\ Feeder
  BY <1>2, FullFacts
<1>5. /\ q \in Nat /\ q > 0 /\ Len(queue') = q - 1 /\ Len(queue') \in Nat
      /\ \A i \in 1..Len(queue') : i + 1 \in 1..q /\ queue'[i] = queue[i + 1]
      /\ q =< QueueCapacity /\ QueueCapacity \in Nat /\ played \in Nat
  <2>1. queue \in Seq(Reports)
    BY FullFacts
  <2>2. /\ q \in Nat /\ q > 0 /\ Len(Tail(queue)) = q - 1 /\ Len(Tail(queue)) \in Nat
        /\ \A i \in 1..Len(Tail(queue)) : i + 1 \in 1..q /\ Tail(queue)[i] = queue[i + 1]
    BY <1>2, <2>1
  <2> QED
    BY <1>2, <2>2, FullFacts
<1>6. played' + Len(queue') = played + q
  BY <1>2, <1>5
<1>7. PICK b, u \in Seq(Frame) :
          /\ s = b \o u
          /\ b = <<>> \/ (q = QueueCapacity /\ ~ended /\ b = <<notice>>)
          /\ u = <<>> \/ (queue' = <<>> /\ u = <<under>>)
  BY DEF PicoPlay
<1>8. s \in Seq(Frame) /\ fromPico \in Seq(Frame) /\ fromPico' = fromPico \o s
  BY WaySame DEF Follows
<1>9. /\ IsStatus(notice) /\ notice.state = "PLAYING" /\ notice.free = 1 /\ IsUnderrun(under)
      /\ ~IsStatus(under)
      /\ \A x \in {notice, under} : /\ RunFrame(x) /\ x # FinishedNews /\ x # StartNews
                                    /\ x.type # "PLAY_STARTED" /\ x.type # "PLAY_READY"
  BY DEF BufferStatus, PlayUnderrun, IsStatus, IsUnderrun, RunFrame, StartNews, FinishedNews, ModeChanged
<1> HIDE DEF s, notice, under
<1>10. \A i \in 1..Len(s) : s[i] \in {notice, under}
  <2>1. Range(b) \subseteq {notice} /\ Range(u) \subseteq {under}
    BY <1>7, RangeOfNone, RangeOfOne
  <2>2. Range(s) \subseteq {notice, under}
    BY <1>7, <2>1, RangeOfConcat
  <2> QED
    BY <1>8, <2>2, InRange
<1>11. Bland(s) /\ \A i \in 1..Len(s) : RunFrame(s[i]) /\ s[i] # FinishedNews
  BY <1>9, <1>10 DEF Bland
<1>12. FinishedNews \notin OnWay
  BY <1>2, <1>4 DEF Rows, Said, Over
<1>13. Said'
  BY <1>4, <1>11, <1>12, SaidGrows DEF Rows, s
<1>14. /\ stage \in {"accepted", "epoch"} \cup Closing \/ Feeding
       /\ stage \notin Setup
  <2>1. stage \in {"accepted", "epoch"} \cup Closing \/ Feeding
    BY <1>2, <1>4, NowPlaying
  <2> QED
    BY <2>1 DEF Feeding, Setup, Closing
<1>15. Rows'
  <2>1. InOrder'
    <3>1. \A i \in 1..q : queue[i] = played + i
      BY <1>4 DEF Rows, InOrder
    <3>2. ASSUME NEW i \in 1..Len(queue') PROVE queue'[i] = played' + i
      <4>1. i + 1 \in 1..q /\ queue'[i] = queue[i + 1]
        BY <1>5
      <4>2. queue[i + 1] = played + (i + 1)
        BY <3>1, <4>1
      <4> QED
        BY <1>2, <1>5, <4>1, <4>2
    <3> QED
      BY <3>2 DEF InOrder
  <2>2. Beginning' /\ Loading' /\ Leaving'
    BY <1>14, RunningRows
  <2>3. Starting'
    <3> HIDE DEF q
    <3> QED
      BY <1>2, <1>3, <1>4, <1>6 DEF Rows, Starting, Running, Over, q
  <2>4. Playing'
    <3>1. ASSUME NEW n, Events(n) PROVE Events(n)'
      <4>1. played + q + Len(toPico) = n /\ \A i \in 1..Len(toPico) : toPico[i] = Event(played + q + i)
        BY <3>1 DEF Events
      <4> HIDE DEF q
      <4>2. played' + Len(queue') + Len(toPico') = n /\ \A i \in 1..Len(toPico') : toPico'[i] = Event(played' + Len(queue') + i)
        BY <1>2, <1>6, <4>1
      <4> QED
        BY <4>2 DEF Events
    <3>2. ASSUME NEW n, NEW c, EventsThen(n, c) PROVE EventsThen(n, c)'
      <4>1. /\ toPico # <<>> /\ played + q + Len(toPico) - 1 = n
            /\ \A i \in 1..(Len(toPico) - 1) : toPico[i] = Event(played + q + i)
            /\ toPico[Len(toPico)] = c
        BY <3>2 DEF EventsThen
      <4> HIDE DEF q
      <4>2. /\ toPico' # <<>> /\ played' + Len(queue') + Len(toPico') - 1 = n
            /\ \A i \in 1..(Len(toPico') - 1) : toPico'[i] = Event(played' + Len(queue') + i)
            /\ toPico'[Len(toPico')] = c
        BY <1>2, <1>6, <4>1
      <4> QED
        BY <4>2 DEF EventsThen
    <3>3. NoModeSet' = NoModeSet
      BY <1>2 DEF NoModeSet
    <3>4. ASSUME Feeding
          PROVE  /\ mode' = "PLAYING" /\ ~ended' /\ NoModeSet'
                 /\ Events(IF stage = "acks" THEN nextEvent + batch ELSE nextEvent)'
      <4>1. ~ended /\ NoModeSet /\ Events(IF stage = "acks" THEN nextEvent + batch ELSE nextEvent)
        BY <1>2, <1>4, <3>4 DEF Rows, Playing
      <4>2. Events(nextEvent + batch) => Events(nextEvent + batch)'
        BY <1>3, <3>1
      <4>3. Events(nextEvent) => Events(nextEvent)'
        BY <1>3, <3>1
      <4> HIDE DEF Events
      <4> QED
        BY <1>2, <1>3, <3>3, <4>1, <4>2, <4>3
    <3>5. ASSUME stage \in Closing
          PROVE  /\ mode' = "PLAYING" /\ NoModeSet' /\ nextEvent = TotalEvents
                 /\ \/ ended' /\ Events(TotalEvents)' /\ toPico' = <<>>
                    \/ ~ended' /\ EventsThen(TotalEvents, Plain("QUEUE_END"))'
      <4> HIDE DEF Events, EventsThen
      <4>1. /\ NoModeSet /\ nextEvent = TotalEvents
            /\ \/ ended /\ Events(TotalEvents) /\ toPico = <<>>
               \/ ~ended /\ EventsThen(TotalEvents, Plain("QUEUE_END"))
        BY <1>2, <1>4, <3>5 DEF Rows, Playing, Over
      <4>2. Events(TotalEvents) => Events(TotalEvents)'
        BY <3>1
      <4>3. EventsThen(TotalEvents, Plain("QUEUE_END")) => EventsThen(TotalEvents, Plain("QUEUE_END"))'
        BY <3>2
      <4> QED
        BY <1>2, <3>3, <4>1, <4>2, <4>3
    <3> HIDE DEF Events, EventsThen
    <3> QED
      BY <1>3, <3>4, <3>5 DEF Playing
  <2> QED
    BY <1>13, <2>1, <2>2, <2>3, <2>4 DEF Rows
<1>16. Answers'
  BY <1>2, <1>11, <1>14, BlandAnswers DEF s
<1>17. CreditInv'
  <2>1. ~staleCredit => NoEvents' \/ Len(queue') + Len(toPico') =< QueueCapacity
    <3>1. ~staleCredit => NoEvents \/ q + Len(toPico) =< QueueCapacity
      BY FullFacts DEF CreditInv, CountOK
    <3>2. NoEvents' = NoEvents
      BY <1>2 DEF NoEvents
    <3>3. q + Len(toPico) =< QueueCapacity => Len(queue') + Len(toPico') =< QueueCapacity
      BY <1>2, <1>5, FullFacts
    <3> QED
      BY <3>1, <3>2, <3>3
  <2>2. ASSUME ~staleCredit, Counting'
        PROVE  /\ Counting
               /\ Due = 0 => credit + Len(queue') =< QueueCapacity
               /\ toPico' # <<>> => Outstanding(fromPico', Due - Len(toPico'))
               /\ toPico' = <<>> => Settled(fromPico', Due, Len(queue'), credit)
    <3>1. Counting
      BY <1>2, <1>11, <2>2, BlandCounting DEF s
    <3>2. /\ Due \in Nat /\ (Due = 0 => credit + q =< QueueCapacity) /\ credit \in 0..QueueCapacity
          /\ toPico # <<>> => Outstanding(fromPico, Due - Len(toPico))
          /\ toPico = <<>> => Settled(fromPico, Due, q, credit)
      BY <2>2, <3>1, CountedHas
    <3>3. Due = 0 => credit + Len(queue') =< QueueCapacity
      BY <1>5, <3>2
    <3>4. ASSUME toPico # <<>> PROVE Outstanding(fromPico \o s, Due - Len(toPico))
      <4>1. q < QueueCapacity
        BY <1>2, <2>2, <3>1, <3>4, CountedIsEvent
      <4>2. b = <<>>
        BY <1>5, <1>7, <4>1
      <4>3. s = u
        BY <1>7, <4>2, ConcatEmptySeq
      <4>4. NoStatus(s)
        <5>1. u = <<>> => NoStatus(u)
          BY EmptyIsSeq DEF NoStatus
        <5>2. u = <<under>> => NoStatus(u)
          BY <1>9, LenOfOne DEF NoStatus
        <5> QED
          BY <1>7, <4>3, <5>1, <5>2
      <4> DEFINE m == Due - Len(toPico)
      <4>5. m \in Int /\ m =< m /\ Outstanding(fromPico, m)
        BY <3>2, <3>4, FullFacts
      <4> HIDE DEF m
      <4>6. Outstanding(fromPico \o s, m)
        BY <1>8, <4>4, <4>5, OutstandingGrows
      <4> QED
        BY <4>6 DEF m
    <3>5. ASSUME toPico = <<>> PROVE Settled(fromPico \o s, Due, q - 1, credit)
      <4> DEFINE w == fromPico \o b
                 p == q - 1
      <4>1. w \in Seq(Frame) /\ p \in Nat /\ p =< q /\ p =< p /\ q \in Nat
        BY <1>5, <1>7, <1>8, JoinedFrames
      <4>2. fromPico \o s = w \o u
        <5> DEFINE X == Frame
        <5>1. fromPico \in Seq(X) /\ b \in Seq(X) /\ u \in Seq(X)
          BY <1>7, <1>8
        <5> HIDE DEF X
        <5>2. (fromPico \o b) \o u = fromPico \o (b \o u)
          BY <5>1, ConcatAssociative
        <5> QED
          BY <1>7, <5>2
      <4>3. NoStatus(u) /\ (NoUnderrun(u) \/ p = 0)
        <5>1. u = <<>> => NoStatus(u) /\ NoUnderrun(u)
          BY EmptyIsSeq DEF NoStatus, NoUnderrun
        <5>2. u = <<under>> => NoStatus(u)
          BY <1>9, LenOfOne DEF NoStatus
        <5>3. queue' = <<>> => p = 0
          BY <1>5, EmptyIsSeq
        <5> QED
          BY <1>7, <5>1, <5>2, <5>3
      <4> HIDE DEF p
      <4>4. CASE b = <<>>
        <5>1. w = fromPico
          BY <1>8, <4>4, ConcatEmptySeq
        <5>2. Settled(w, Due, q, credit)
          BY <3>2, <3>5, <5>1
        <5> HIDE DEF w, q
        <5>3. Settled(w \o u, Due, p, credit)
          BY <3>2, <4>1, <4>3, <5>2, SettledGrows
        <5> QED
          BY <4>2, <5>3 DEF p, w
      <4>5. CASE q = QueueCapacity /\ b = <<notice>>
        <5>1. Len(b) = 1 /\ IsStatus(b[1]) /\ b[1].free = 1 /\ b[1].state = "PLAYING"
          BY <1>9, <4>5, LenOfOne
        <5>2. Settled(fromPico, Due, q, credit) /\ (Due = 0 => credit = 0) /\ q > 0
          BY <1>5, <3>2, <3>5, <4>5
        <5> HIDE DEF q
        <5>3. Settled(fromPico \o b, Due, q - 1, credit)
          BY <1>7, <1>8, <3>2, <4>1, <4>5, <5>1, <5>2, SettledNotice
        <5>4. Settled(w, Due, p, credit)
          BY <5>3 DEF p
        <5> HIDE DEF w
        <5>5. Settled(w \o u, Due, p, credit)
          BY <1>7, <3>2, <4>1, <4>3, <5>4, SettledGrows
        <5> QED
          BY <4>2, <5>5 DEF p, w
      <4> QED
        BY <1>7, <4>4, <4>5
    <3> QED
      BY <1>2, <1>5, <1>8, <3>1, <3>3, <3>4, <3>5
  <2> QED
    BY <1>2, <2>1, <2>2, FullFacts, CreditKeeps
<1> QED
  BY <1>1, <1>2, <1>15, <1>16, <1>17 DEF StreamInv

LEMMA HandledFacts ==
    ASSUME Full, HeadTaken, NoFault, mode # "ERROR"
    PROVE  /\ Rows /\ Links /\ Feeder /\ CoreInv /\ WireIs /\ toPico # <<>>
           /\ Len(toPico) = 1 => toPico' = <<>> /\ Len(toPico') = 0
           /\ FinishedNews \notin OnWay
<1>1. Rows /\ Links /\ Feeder /\ CoreInv /\ toPico # <<>>
  BY FullFacts, BaseFacts DEF HeadTaken
<1>2. WireIs
  BY <1>1, WireCases DEF NoFault
<1>3. Len(toPico) = 1 => toPico' = <<>> /\ Len(toPico') = 0
  BY <1>1, HeadTakenFacts, EmptyIsSeq
<1>4. FinishedNews \notin OnWay
  BY <1>1 DEF Rows, Said, Over
<1> QED
  BY <1>1, <1>2, <1>3, <1>4

\* Nothing is counted at the stages that only change the mode.
LEMMA NothingCounted ==
    ASSUME Full, Follows, NoFault, toPico' = <<>>, ~Counting'
    PROVE  CreditInv'
<1>1. Len(toPico') = 0 /\ NoEvents'
  BY EmptyIsSeq DEF NoEvents
<1> QED
  BY <1>1, FullFacts, CreditKeeps DEF NoFault

LEMMA ModeKept ==
    ASSUME Full, Follows, PicoArm \/ PicoPass
    PROVE  StreamInv'
<1> DEFINE s == tx'.sent
<1>1. Links' /\ Feeder'
  BY LinksKept, FeederKept DEF PicoKind
<1>2. /\ NoFault /\ HeadTaken /\ mode # "ERROR" /\ queue' = <<>> /\ ended' = FALSE /\ played' = played /\ mode' # "ERROR"
  BY DEF PicoArm, PicoPass
<1>3. /\ Rows /\ Links /\ Feeder /\ CoreInv /\ WireIs /\ toPico # <<>> /\ FinishedNews \notin OnWay
      /\ Len(toPico) = 1 => toPico' = <<>> /\ Len(toPico') = 0
  BY <1>2, HandledFacts
<1>4. /\ PicoArm => stage = "arming" /\ toPico' = <<>>
      /\ PicoPass => stage = "returning" /\ toPico' = <<>>
  BY <1>3, HeadStage DEF PicoArm, PicoPass
<1>5. /\ stage' = stage /\ nextEvent' = nextEvent /\ Feeding' = Feeding /\ Setup' = Setup
      /\ UNCHANGED <<pending, deferred>> /\ Fresh' = Fresh
  BY FeederSame, WaySame DEF Follows
<1>6. /\ PicoArm => Fresh /\ Unfed /\ fromPico = <<>>
      /\ PicoPass => /\ played = TotalEvents /\ pending = <<>> /\ deferred = <<>> /\ fromPico = <<>>
  <2>1. PicoArm => Fresh /\ Unfed /\ fromPico = <<>>
    BY <1>3, <1>4 DEF Rows, Beginning
  <2>2. PicoPass => /\ played = TotalEvents /\ pending = <<>> /\ deferred = <<>> /\ fromPico = <<>>
    BY <1>3, <1>4 DEF Rows, Leaving
  <2> QED
    BY <2>1, <2>2
<1>7. fromPico' = s
  BY <1>2, <1>6, WaySame, ConcatEmptySeq DEF Follows
<1>8. /\ PicoArm => s = <<>> \/ s = <<ArmedNews>>
      /\ PicoPass => s = <<>> \/ s = <<PassNews>>
  BY DEF PicoArm, PicoPass
<1> HIDE DEF s
<1>9. \A i \in 1..Len(s) : s[i] = ArmedNews \/ s[i] = PassNews
  BY <1>8, LenOfOne, EmptyIsSeq
<1>10. Bland(s) /\ \A i \in 1..Len(s) : s[i] # FinishedNews
  <2>1. \A x \in {ArmedNews, PassNews} : x # StartNews /\ x.type # "PLAY_STARTED" /\ x.type # "PLAY_READY" /\ x # FinishedNews
    BY DEF ArmedNews, PassNews, StartNews, FinishedNews, ModeChanged
  <2> QED
    BY <1>9, <2>1 DEF Bland
<1>11. stage \in {"arming", "returning"} /\ stage \notin Setup /\ ~Feeding /\ stage \notin Closing
  BY <1>4 DEF Feeding, Closing, Setup
<1>12. Said'
  BY <1>3, <1>10, <1>11, SaidGrows DEF Rows, s
<1>13. Rows'
  <2>1. InOrder'
    BY <1>2 DEF InOrder
  <2>2. Loading' /\ Starting' /\ Playing'
    BY <1>5, <1>11 DEF Loading, Starting, Playing
  <2>3. Beginning'
    <3>1. CASE PicoArm
      <4>1. mode' = "ARMED"
        BY <3>1 DEF PicoArm
      <4>2. Unfed'
        BY <1>2, <1>5, <1>6, <3>1 DEF Unfed
      <4> QED
        BY <1>4, <1>5, <1>6, <1>7, <1>8, <3>1, <4>1, <4>2 DEF Beginning
    <3>2. CASE PicoPass
      BY <1>4, <1>5, <3>2 DEF Beginning
    <3> QED
      BY <3>1, <3>2
  <2>4. Leaving'
    <3>1. CASE PicoArm
      BY <1>4, <1>5, <3>1 DEF Leaving
    <3>2. CASE PicoPass
      <4>1. mode' = "PASS"
        BY <3>2 DEF PicoPass
      <4> QED
        BY <1>2, <1>4, <1>5, <1>6, <1>7, <1>8, <3>2, <4>1 DEF Leaving
    <3> QED
      BY <3>1, <3>2
  <2> QED
    BY <1>12, <2>1, <2>2, <2>3, <2>4 DEF Rows
<1>14. Answers'
  BY <1>3, <1>10, <1>11, BlandAnswers DEF s
<1>15. CreditInv'
  <2>1. ~Counting'
    BY <1>5, <1>11, AnswerFields DEF Counting
  <2> QED
    BY <1>2, <1>4, <2>1, NothingCounted
<1> QED
  BY <1>1, <1>2, <1>13, <1>14, <1>15 DEF StreamInv

LEMMA StartKept ==
    ASSUME Full, Follows, PicoStart
    PROVE  StreamInv'
<1> DEFINE s == tx'.sent
           started == Plain("PLAY_STARTED")
<1>1. Links' /\ Feeder'
  BY LinksKept, FeederKept DEF PicoKind
<1>2. /\ NoFault /\ HeadTaken /\ Head(toPico) = Plain("PLAY_START") /\ mode = "ARMED" /\ mode' = "PLAYING"
      /\ UNCHANGED <<queue, ended, played>>
  BY DEF PicoStart
<1>3. /\ Rows /\ Links /\ Feeder /\ CoreInv /\ WireIs /\ toPico # <<>> /\ FinishedNews \notin OnWay
      /\ Len(toPico) = 1 => toPico' = <<>> /\ Len(toPico') = 0
  BY <1>2, HandledFacts
<1>4. stage = "accepted" /\ toPico' = <<>> /\ Len(toPico') = 0
  BY <1>2, <1>3, HeadStage
<1>5. /\ stage' = stage /\ nextEvent' = nextEvent /\ prebuffer' = prebuffer /\ Feeding' = Feeding /\ Setup' = Setup
      /\ credit' = credit
  BY FeederSame DEF Follows
<1>6. /\ Fresh /\ fromPico = <<>> /\ played = 0 /\ Len(queue) = nextEvent /\ (ended <=> nextEvent = TotalEvents)
      /\ nextEvent = prebuffer
  BY <1>3, <1>4 DEF Rows, Starting
<1>7. s = <<>> \/ s = <<StartNews>> \/ s = <<started>> \/ s = <<StartNews, started>>
  BY DEF PicoStart
<1>8. s \in Seq(Frame) /\ fromPico' = s
  <2>1. s \in Seq(Frame) /\ fromPico' = <<>> \o s
    BY <1>6, WaySame DEF Follows
  <2> QED
    BY <2>1, ConcatEmptySeq
<1>9. /\ started.type = "PLAY_STARTED" /\ StartNews.type = "MODE_CHANGED" /\ StartNews # started
      /\ started # FinishedNews /\ StartNews # FinishedNews
      /\ ~IsStatus(started) /\ ~IsStatus(StartNews) /\ ~IsUnderrun(started) /\ ~IsUnderrun(StartNews)
      /\ RunFrame(started)
  BY DEF StartNews, FinishedNews, ModeChanged, Plain, IsStatus, IsUnderrun, RunFrame
<1> HIDE DEF s, started
<1>10. /\ \A i \in 1..Len(s) : s[i] = StartNews \/ s[i] = started
       /\ \A i \in 2..Len(s) : i = 2 /\ s[2] = started
  <2>1. /\ \A x, y : Len(<<x, y>>) = 2 /\ <<x, y>>[1] = x /\ <<x, y>>[2] = y
        /\ \A x : Len(<<x>>) = 1 /\ <<x>>[1] = x
        /\ Len(<<>>) = 0
    OBVIOUS
  <2>2. \/ Len(s) = 0
        \/ Len(s) = 1 /\ (s[1] = StartNews \/ s[1] = started)
        \/ Len(s) = 2 /\ s[1] = StartNews /\ s[2] = started
    BY <1>7, <2>1
  <2>3. Len(s) = 0 => 1..Len(s) = {} /\ 2..Len(s) = {}
    OBVIOUS
  <2>4. Len(s) = 1 => 1..Len(s) = {1} /\ 2..Len(s) = {}
    OBVIOUS
  <2>5. Len(s) = 2 => 1..Len(s) = {1, 2} /\ 2..Len(s) = {2}
    OBVIOUS
  <2> QED
    BY <2>2, <2>3, <2>4, <2>5
<1>11. \A i \in 1..Len(s) : /\ ~IsStatus(s[i]) /\ ~IsUnderrun(s[i]) /\ s[i] # FinishedNews
                            /\ RunFrame(s[i]) \/ s[i] = StartNews
  BY <1>9, <1>10
<1>12. Said'
  <2>1. ~Feeding /\ stage \notin {"epoch"} \cup Closing
    BY <1>4 DEF Feeding, Closing
  <2> QED
    BY <1>3, <1>11, <2>1, SaidGrows DEF Rows, s
<1>13. Rows'
  <2>1. InOrder'
    BY <1>2, <1>3 DEF Rows, InOrder
  <2>2. Beginning' /\ Loading' /\ Leaving'
    BY <1>4, RunningRows
  <2>3. Starting'
    <3>1. Running'
      <4>1. 0 + Len(queue) = Len(queue)
        BY FullFacts
      <4>2. played' + Len(queue') = nextEvent'
        BY <1>2, <1>5, <1>6, <4>1
      <4> QED
        BY <1>2, <1>5, <1>6, <4>2 DEF Running
    <3>2. ~Over'
      BY <1>2 DEF Over
    <3> QED
      BY <1>4, <1>5, <1>6, <3>1, <3>2 DEF Starting
  <2>4. Playing'
    BY <1>4, <1>5 DEF Playing, Closing, Feeding
  <2> QED
    BY <1>12, <2>1, <2>2, <2>3, <2>4 DEF Rows
<1>14. Answers'
  <2>1. \A i \in 2..Len(s) : s[i] # Answer[stage]
    BY <1>4, <1>9, <1>10, AnswerFields
  <2>2. \A i \in 2..Len(s) : i = 2 /\ s[2] = Plain("PLAY_STARTED")
    BY <1>10 DEF started
  <2> QED
    BY <1>4, <1>6, <2>1, <2>2, FirstAnswers DEF s
<1>15. CreditInv'
  <2>1. NoEvents'
    BY <1>4 DEF NoEvents
  <2>2. ASSUME ~staleCredit
        PROVE  /\ Counting
               /\ Due = 0 => credit + Len(queue') =< QueueCapacity
               /\ Settled(fromPico', Due, Len(queue'), credit)
    <3>1. Counting
      BY <1>3, <1>4, AnswerFields DEF Counting
    <3>2. Due \in Nat /\ (Due = 0 => credit + Len(queue) =< QueueCapacity)
      BY <2>2, <3>1, CountedHas
    <3>3. NoStatus(s) /\ NoUnderrun(s)
      BY <1>11 DEF NoStatus, NoUnderrun
    <3>4. Settled(s, Due, Len(queue), credit)
      BY <1>8, <3>2, <3>3, FullFacts, NoneSettled
    <3> QED
      BY <1>2, <1>8, <3>1, <3>2, <3>4
  <2> QED
    BY <1>2, <1>4, <2>1, <2>2, FullFacts, CreditKeeps DEF NoFault
<1> QED
  BY <1>1, <1>2, <1>13, <1>14, <1>15 DEF StreamInv

LEMMA ClearKept ==
    ASSUME Full, Follows, PicoClear
    PROVE  StreamInv'
<1> DEFINE s == tx'.sent
           said == BufferStatus("ARMED", QueueCapacity)
<1>1. Links' /\ Feeder'
  BY LinksKept, FeederKept DEF PicoKind
<1>2. /\ NoFault /\ HeadTaken /\ Head(toPico) = Plain("QUEUE_CLEAR") /\ mode = "ARMED" /\ mode' = "ARMED"
      /\ queue' = <<>> /\ ended' = FALSE /\ played' = played /\ s = <<said>> /\ Len(queue') = 0
  BY EmptyIsSeq DEF PicoClear
<1>3. /\ Rows /\ Links /\ Feeder /\ CoreInv /\ WireIs /\ toPico # <<>> /\ FinishedNews \notin OnWay
      /\ Len(toPico) = 1 => toPico' = <<>> /\ Len(toPico') = 0
  BY <1>2, HandledFacts
<1>4. stage = "clearing" /\ Len(toPico) = 1 /\ toPico' = <<>> /\ Len(toPico') = 0
  BY <1>2, <1>3, HeadStage
<1>5. /\ stage' = stage /\ nextEvent' = nextEvent /\ Feeding' = Feeding /\ Setup' = Setup
      /\ UNCHANGED <<pending, deferred>>
  BY FeederSame DEF Follows
<1>6. /\ pending = <<>> /\ deferred = <<>> /\ played = 0 /\ Unfed
      /\ \A x \in OnWay : IsStatus(x) \/ x = Plain("PLAY_READY")
      /\ \A x \in OnWay : IsStatus(x) => x.free = QueueCapacity
  BY <1>3, <1>4 DEF Rows, Loading, Setup
<1>7. /\ IsStatus(said) /\ said.state = "ARMED" /\ said.free = QueueCapacity /\ said # FinishedNews
      /\ said # StartNews /\ said.type # "PLAY_STARTED" /\ said.type # "PLAY_READY" /\ ~IsUnderrun(said)
  BY DEF BufferStatus, IsStatus, IsUnderrun, StartNews, FinishedNews, ModeChanged
<1>8. s \in Seq(Frame) /\ fromPico \in Seq(Frame) /\ fromPico' = fromPico \o s
      /\ \A x : x \in OnWay' => x \in OnWay \/ \E i \in 1..Len(s) : s[i] = x
  BY WaySame DEF Follows
<1> HIDE DEF s, said
<1>9. Len(s) = 1 /\ s[1] = said /\ \A i \in 1..Len(s) : i = 1 /\ s[i] = said
  <2>1. Len(s) = 1 /\ s[1] = said
    BY <1>2, LenOfOne
  <2> QED
    BY <2>1
<1>10. Said'
  <2>1. ~Feeding /\ stage \notin {"epoch", "accepted"} \cup Closing
    BY <1>4 DEF Feeding, Closing
  <2> QED
    BY <1>3, <1>7, <1>9, <2>1, SaidGrows DEF Rows, s
<1>11. Rows'
  <2>1. InOrder'
    BY <1>2 DEF InOrder
  <2>2. Beginning' /\ Starting' /\ Playing' /\ Leaving'
    BY <1>4, <1>5 DEF Beginning, Starting, Playing, Leaving, Closing, Feeding
  <2>3. Loading'
    <3>1. ASSUME NEW x \in OnWay' PROVE (IsStatus(x) \/ x = Plain("PLAY_READY")) /\ (IsStatus(x) => x.free = QueueCapacity)
      BY <1>6, <1>7, <1>8, <1>9, <3>1
    <3>2. Unfed'
      BY <1>2, <1>5, <1>6 DEF Unfed
    <3> QED
      BY <1>2, <1>4, <1>5, <1>6, <3>1, <3>2 DEF Loading, NoFault
  <2> QED
    BY <1>10, <2>1, <2>2, <2>3 DEF Rows
<1>12. Answers'
  BY <1>3, <1>7, <1>9, BlandAnswers DEF s, Bland
<1>13. CreditInv'
  <2>1. NoEvents'
    BY <1>4 DEF NoEvents
  <2>2. ASSUME ~staleCredit
        PROVE  /\ Counting
               /\ Due = 0 => credit + Len(queue') =< QueueCapacity
               /\ Settled(fromPico', Due, Len(queue'), credit)
    <3>1. Counting /\ Due = 1
      BY <1>4 DEF Counting, Due
    <3>2. Outstanding(fromPico, Due - Len(toPico))
      BY <1>3, <2>2, <3>1, CountedHas
    <3>3. Outstanding(fromPico, 1 - 1)
      BY <1>4, <3>1, <3>2
    <3>4. LastStatus(s) /\ NoUnderrun(s) /\ s[Len(s)].free + 0 =< QueueCapacity
      BY <1>7, <1>9, CapacityAssumption DEF LastStatus, NoUnderrun
    <3>5. Settled(fromPico \o s, 1, 0, credit)
      BY <1>8, <3>3, <3>4, AckSettles
    <3> QED
      BY <1>2, <1>8, <3>1, <3>5
  <2> QED
    BY <1>2, <1>3, <1>4, <2>1, <2>2, CreditKeeps DEF NoFault
<1> QED
  BY <1>1, <1>2, <1>11, <1>12, <1>13 DEF StreamInv

LEMMA CloseKept ==
    ASSUME Full, Follows, PicoClose
    PROVE  StreamInv'
<1> DEFINE s == tx'.sent
           ready == Plain("PLAY_READY")
           said == BufferStatus(mode, QueueCapacity - Len(queue))
<1>1. Links' /\ Feeder'
  BY LinksKept, FeederKept DEF PicoKind
<1>2. /\ NoFault /\ HeadTaken /\ Head(toPico) = Plain("QUEUE_END") /\ mode \in {"ARMED", "PLAYING"} /\ mode # "ERROR"
      /\ ended' = TRUE /\ UNCHANGED <<mode, queue, played>>
      /\ s = <<said>> \/ (mode = "ARMED" /\ s = <<ready, said>>)
  BY DEF PicoClose
<1>3. /\ Rows /\ Links /\ Feeder /\ CoreInv /\ WireIs /\ toPico # <<>> /\ FinishedNews \notin OnWay
      /\ Len(toPico) = 1 => toPico' = <<>> /\ Len(toPico') = 0
  BY <1>2, HandledFacts
<1>4. /\ Len(toPico) = 1 /\ toPico' = <<>> /\ Len(toPico') = 0
      /\ \/ stage = "ready" /\ mode = "ARMED"
         \/ stage \in Closing /\ mode = "PLAYING" /\ played + Len(queue) = TotalEvents
  BY <1>2, <1>3, HeadStage
<1>5. /\ stage' = stage /\ nextEvent' = nextEvent /\ Feeding' = Feeding /\ Setup' = Setup
      /\ UNCHANGED <<pending, deferred>>
  BY FeederSame DEF Follows
<1>6. stage = "ready" =>
         /\ pending = <<>> /\ deferred = <<>> /\ Fresh /\ fromPico = <<>> /\ played = 0
         /\ nextEvent = TotalEvents /\ Len(queue) = nextEvent
         /\ \A x \in OnWay : IsStatus(x) \/ x = ready
  BY <1>3, <1>4 DEF Rows, Loading, Setup, Fresh
<1>7. /\ IsStatus(said) /\ said.state = mode /\ said.free = QueueCapacity - Len(queue) /\ said # FinishedNews /\ ready # FinishedNews
      /\ said # StartNews /\ said.type # "PLAY_STARTED" /\ said.type # "PLAY_READY" /\ ~IsUnderrun(said)
      /\ ready # StartNews /\ ready.type = "PLAY_READY" /\ ~IsStatus(ready) /\ ~IsUnderrun(ready) /\ ready # said
      /\ mode = "PLAYING" => RunFrame(said)
  BY DEF BufferStatus, Plain, IsStatus, IsUnderrun, StartNews, FinishedNews, ModeChanged, RunFrame
<1>8. s \in Seq(Frame) /\ fromPico \in Seq(Frame) /\ fromPico' = fromPico \o s
      /\ \A x : x \in OnWay' => x \in OnWay \/ \E i \in 1..Len(s) : s[i] = x
  BY WaySame DEF Follows
<1> HIDE DEF s, said, ready
<1>9. /\ \A i \in 1..Len(s) : s[i] = said \/ (s[i] = ready /\ mode = "ARMED")
      /\ Len(s) > 0 /\ s[Len(s)] = said /\ \A i \in 1..(Len(s) - 1) : s[i] = ready
      /\ \A i \in 2..Len(s) : s[i] = said
  <2>1. \/ Len(s) = 1 /\ s[1] = said
        \/ Len(s) = 2 /\ s[1] = ready /\ s[2] = said /\ mode = "ARMED"
    BY <1>2, LenOfOne
  <2>2. Len(s) = 1 => 1..Len(s) = {1} /\ 2..Len(s) = {} /\ 1..(Len(s) - 1) = {}
    OBVIOUS
  <2>3. Len(s) = 2 => 1..Len(s) = {1, 2} /\ 2..Len(s) = {2} /\ 1..(Len(s) - 1) = {1}
    OBVIOUS
  <2>4. Len(s) = 1 \/ Len(s) = 2 => Len(s) > 0
    OBVIOUS
  <2> QED
    BY <2>1, <2>2, <2>3, <2>4
<1>10. Said'
  <2>1. ~Feeding /\ stage \notin {"epoch", "accepted"}
    BY <1>4 DEF Feeding, Closing
  <2>2. stage \in Closing => mode = "PLAYING"
    BY <1>4 DEF Closing
  <2>3. \A i \in 1..Len(s) : s[i] # FinishedNews /\ (stage \in Closing => RunFrame(s[i]))
    BY <1>7, <1>9, <2>2
  <2> QED
    BY <1>3, <2>1, <2>3, SaidGrows DEF Rows, s
<1>11. Rows'
  <2>1. InOrder'
    BY <1>2, <1>3 DEF Rows, InOrder
  <2>2. Beginning' /\ Starting' /\ Leaving'
    <3>1. stage \notin {"begin", "arming", "accepted", "epoch", "returning", "done", "failed"}
      BY <1>4 DEF Closing
    <3> QED
      BY <1>5, <3>1 DEF Beginning, Starting, Leaving
  <2>3. Loading'
    <3>1. CASE stage = "ready"
      <4>1. ASSUME NEW x \in OnWay' PROVE IsStatus(x) \/ x = ready
        BY <1>6, <1>7, <1>8, <1>9, <3>1, <4>1
      <4>2. mode' = "ARMED" /\ ~uartFault'
        BY <1>2, <1>4, <3>1 DEF NoFault, Closing
      <4> QED
        BY <1>2, <1>4, <1>5, <1>6, <3>1, <4>1, <4>2 DEF Loading, ready
    <3>2. CASE stage \in Closing
      <4>1. stage \notin Setup
        BY <3>2 DEF Closing, Setup
      <4> QED
        BY <1>5, <4>1 DEF Loading
    <3> QED
      BY <1>4, <3>1, <3>2
  <2>4. Playing'
    <3>1. ~Feeding
      BY <1>4 DEF Feeding, Closing
    <3>2. NoModeSet'
      BY <1>4 DEF NoModeSet
    <3>3. stage \in Closing => mode' = "PLAYING" /\ nextEvent = TotalEvents
      BY <1>2, <1>3, <1>4 DEF Rows, Playing, Closing
    <3>4. ASSUME stage \in Closing PROVE Events(TotalEvents)'
      <4>1. played + Len(queue) = TotalEvents
        BY <1>4, <3>4 DEF Closing
      <4>2. played' + Len(queue') + Len(toPico') = TotalEvents
        BY <1>2, <1>4, <4>1, FullFacts
      <4> QED
        BY <1>4, <4>2 DEF Events
    <3> HIDE DEF Events
    <3> QED
      BY <1>2, <1>4, <1>5, <3>1, <3>2, <3>3, <3>4 DEF Playing
  <2> QED
    BY <1>10, <2>1, <2>2, <2>3, <2>4 DEF Rows
<1>12. Answers'
  <2>1. CASE stage = "ready"
    <3>1. \A i \in 2..Len(s) : s[i] # Answer[stage]
      BY <1>7, <1>9, <2>1, AnswerFields DEF ready
    <3>2. mode = "ARMED"
      BY <1>4, <2>1 DEF Closing
    <3>3. \A i \in 1..Len(s) : /\ s[i] # StartNews /\ s[i].type # "PLAY_STARTED"
                               /\ IsStatus(s[i]) => s[i].state = "ARMED"
      BY <1>7, <1>9, <3>2
    <3> QED
      BY <1>4, <1>6, <2>1, <3>1, <3>3, FirstAnswers DEF s
  <2>2. CASE stage \in Closing
    <3>1. Bland(s) /\ stage \notin Setup
      BY <1>4, <1>7, <1>9, <2>2 DEF Bland, Closing, Setup
    <3> QED
      BY <1>4, <3>1, BlandAnswers DEF s
  <2> QED
    BY <1>4, <2>1, <2>2
<1>13. CreditInv'
  <2>1. NoEvents'
    BY <1>4 DEF NoEvents
  <2>2. ASSUME ~staleCredit, Counting'
        PROVE  /\ Counting
               /\ Due = 0 => credit + Len(queue') =< QueueCapacity
               /\ Settled(fromPico', Due, Len(queue'), credit)
    <3>1. stage = "ready"
      BY <1>4, <1>5, <2>2, AnswerFields DEF Counting, Closing
    <3>2. Counting /\ Due = 1
      BY <1>3, <3>1, AnswerFields DEF Counting, Due
    <3>3. Outstanding(fromPico, Due - Len(toPico))
      BY <1>3, <2>2, <3>2, CountedHas
    <3>4. Outstanding(fromPico, 1 - 1)
      BY <1>4, <3>2, <3>3
    <3>5. LastStatus(s) /\ NoUnderrun(s)
      BY <1>7, <1>9 DEF LastStatus, NoUnderrun
    <3>6. s[Len(s)].free + Len(queue) =< QueueCapacity /\ Len(queue) \in Nat
      BY <1>7, <1>9, FullFacts
    <3>7. Settled(fromPico \o s, 1, Len(queue), credit)
      BY <1>8, <3>4, <3>5, <3>6, AckSettles
    <3> QED
      BY <1>2, <1>8, <3>2, <3>7
  <2> QED
    BY <1>2, <1>3, <1>4, <2>1, <2>2, CreditKeeps DEF NoFault
<1> QED
  BY <1>1, <1>2, <1>11, <1>12, <1>13 DEF StreamInv

LEMMA AcceptKept ==
    ASSUME Full, Follows, PicoAccept
    PROVE  StreamInv'
<1> DEFINE s == tx'.sent
           q == Len(queue)
           said == BufferStatus(mode, QueueCapacity - Len(queue) - 1)
           rest == Len(toPico')
<1>1. Links' /\ Feeder'
  BY LinksKept, FeederKept DEF PicoKind
<1>2. /\ NoFault /\ HeadTaken /\ Head(toPico).type = "QUEUE_EVENT" /\ mode \in {"ARMED", "PLAYING"} /\ mode # "ERROR"
      /\ queue' = Append(queue, Head(toPico).report) /\ UNCHANGED <<mode, ended, played>> /\ s = <<said>>
      /\ q < QueueCapacity
  BY DEF PicoAccept
<1>3. /\ Rows /\ Links /\ Feeder /\ CoreInv /\ WireIs /\ toPico # <<>> /\ FinishedNews \notin OnWay
  BY <1>2, HandledFacts
<1>4. /\ Head(toPico) = Event(played + q + 1) /\ ~ended
      /\ \/ /\ stage \in {"feed", "acks", "credit"} /\ Events(Sent)
            /\ \/ ~streaming /\ mode = "ARMED"
               \/ streaming /\ mode = "PLAYING"
         \/ /\ stage \in Closing /\ mode = "PLAYING" /\ Len(toPico) > 1
            /\ EventsThen(TotalEvents, Plain("QUEUE_END"))
  BY <1>2, <1>3, HeadStage
<1>5. /\ UNCHANGED <<stage, streaming, nextEvent, batch, credit, acksDue, pending, deferred>>
      /\ Feeding' = Feeding /\ Setup' = Setup
  BY FeederSame DEF Follows
<1>6. /\ rest = Len(toPico) - 1 /\ Len(toPico) \in Nat /\ rest \in Nat /\ Len(toPico) > 0
      /\ \A i \in 1..rest : i + 1 \in 1..Len(toPico) /\ toPico'[i] = toPico[i + 1]
      /\ Len(toPico) = 1 <=> toPico' = <<>>
      /\ Head(toPico) = toPico[1] /\ 1 \in 1..Len(toPico)
  BY <1>2, <1>3, HeadTakenFacts
<1>7. /\ Len(queue') = q + 1 /\ q \in Nat /\ queue' # <<>>
      /\ \A i \in 1..q : queue'[i] = queue[i]
      /\ queue'[q + 1] = played + q + 1
      /\ played \in Nat /\ QueueCapacity \in Nat
  <2> DEFINE r == Head(toPico).report
  <2>1. r = played + q + 1
    BY <1>4, RequestTypes
  <2>2. queue \in Seq(Reports) /\ q \in Nat
    BY FullFacts
  <2>3. queue' = Append(queue, r)
    BY <1>2
  <2> HIDE DEF r
  <2>4. /\ Len(Append(queue, r)) = q + 1 /\ Append(queue, r) # <<>>
        /\ \A i \in 1..q : Append(queue, r)[i] = queue[i]
        /\ Append(queue, r)[q + 1] = r
    BY <2>2
  <2> QED
    BY <2>1, <2>2, <2>3, <2>4, FullFacts
<1>8. /\ IsStatus(said) /\ said.state = mode /\ said.free = QueueCapacity - q - 1 /\ said # FinishedNews
      /\ said # StartNews /\ said.type # "PLAY_STARTED" /\ said.type # "PLAY_READY" /\ ~IsUnderrun(said)
      /\ mode = "PLAYING" => RunFrame(said)
  BY DEF BufferStatus, IsStatus, IsUnderrun, StartNews, FinishedNews, ModeChanged, RunFrame
<1>9. s \in Seq(Frame) /\ fromPico \in Seq(Frame) /\ fromPico' = fromPico \o s
      /\ \A x : x \in OnWay' => x \in OnWay \/ \E i \in 1..Len(s) : s[i] = x
  BY WaySame DEF Follows
<1> HIDE DEF s, said
<1>10. Len(s) = 1 /\ s[1] = said /\ \A i \in 1..Len(s) : i = 1 /\ s[i] = said
  <2>1. Len(s) = 1 /\ s[1] = said
    BY <1>2, LenOfOne
  <2> QED
    BY <2>1
<1>11. stage \notin {"begin", "arming", "clearing", "ready", "endAck", "accepted", "epoch", "returning", "done", "failed"}
       /\ (Feeding \/ stage \in Closing => mode = "PLAYING")
       /\ (stage \in Setup => ~streaming /\ mode = "ARMED" /\ stage \in {"feed", "acks", "credit"} /\ Events(Sent))
       /\ (Feeding => Events(Sent))
  <2> HIDE DEF Events, EventsThen
  <2> QED
    BY <1>4 DEF Closing, Feeding, Setup
<1>12. Said'
  BY <1>3, <1>8, <1>10, <1>11, SaidGrows DEF Rows, s
<1>13. ASSUME NEW n, Events(n)
       PROVE  /\ played' + Len(queue') + Len(toPico') = n
              /\ \A i \in 1..Len(toPico') : toPico'[i] = Event(played' + Len(queue') + i)
  <2>1. played + q + Len(toPico) = n /\ \A i \in 1..Len(toPico) : toPico[i] = Event(played + q + i)
    BY <1>13 DEF Events
  <2>2. ASSUME NEW i \in 1..rest PROVE toPico'[i] = Event(played + (q + 1) + i)
    <3>1. i + 1 \in 1..Len(toPico) /\ toPico'[i] = toPico[i + 1]
      BY <1>6
    <3>2. toPico[i + 1] = Event(played + q + (i + 1))
      BY <2>1, <3>1
    <3>3. played + q + (i + 1) = played + (q + 1) + i
      BY <1>7
    <3> QED
      BY <3>1, <3>2, <3>3
  <2>3. played + (q + 1) + rest = n
    BY <1>6, <1>7, <2>1
  <2> QED
    BY <1>2, <1>7, <2>2, <2>3
<1>14. Rows'
  <2>1. InOrder'
    <3>1. \A i \in 1..q : queue[i] = played + i
      BY <1>3 DEF Rows, InOrder
    <3>2. ASSUME NEW i \in 1..(q + 1) PROVE queue'[i] = played + i
      <4>1. i \in 1..q \/ i = q + 1
        BY <1>7, <3>2
      <4>2. played + q + 1 = played + (q + 1)
        BY <1>7
      <4> QED
        BY <1>7, <3>1, <4>1, <4>2
    <3> QED
      BY <1>2, <1>7, <3>2 DEF InOrder
  <2>2. Beginning' /\ Starting' /\ Leaving'
    BY <1>5, <1>11 DEF Beginning, Starting, Leaving
  <2>3. Loading'
    <3> SUFFICES ASSUME stage \in Setup
                 PROVE  /\ mode' = "ARMED" /\ ~uartFault' /\ played' = 0 /\ pending' = <<>> /\ deferred' = <<>>
                        /\ \A x \in OnWay' : IsStatus(x) \/ x = Plain("PLAY_READY")
                        /\ ~ended'
                        /\ stage \in {"feed", "credit"} => Events(nextEvent)'
                        /\ stage = "acks" => Events(nextEvent + batch)'
      <4> HIDE DEF Events
      <4> QED
        BY <1>5, <1>11 DEF Loading
    <3>1. /\ ~streaming /\ mode = "ARMED" /\ Events(Sent) /\ stage \in {"feed", "acks", "credit"}
      BY <1>11
    <3>2. /\ played = 0 /\ pending = <<>> /\ deferred = <<>>
          /\ \A x \in OnWay : IsStatus(x) \/ x = Plain("PLAY_READY")
      BY <1>3, <3>1 DEF Rows, Loading
    <3>3. \A x \in OnWay' : IsStatus(x) \/ x = Plain("PLAY_READY")
      BY <1>8, <1>9, <1>10, <3>2
    <3>4. stage \in {"feed", "credit"} => Events(nextEvent)'
      <4> SUFFICES ASSUME stage \in {"feed", "credit"} PROVE Events(nextEvent)'
        OBVIOUS
      <4>1. Events(nextEvent)
        BY <3>1 DEF Sent
      <4> QED
        BY <1>5, <1>13, <4>1 DEF Events
    <3>5. stage = "acks" => Events(nextEvent + batch)'
      <4> SUFFICES ASSUME stage = "acks" PROVE Events(nextEvent + batch)'
        OBVIOUS
      <4>1. Events(nextEvent + batch)
        BY <3>1 DEF Sent
      <4> QED
        BY <1>5, <1>13, <4>1 DEF Events
    <3> HIDE DEF Events
    <3> QED
      BY <1>2, <1>4, <1>5, <3>1, <3>2, <3>3, <3>4, <3>5 DEF NoFault
  <2>4. Playing'
    <3>1. NoModeSet => NoModeSet'
      BY <1>6 DEF NoModeSet
    <3>2. ASSUME Feeding
          PROVE  /\ mode' = "PLAYING" /\ ~ended' /\ NoModeSet'
                 /\ Events(IF stage = "acks" THEN nextEvent + batch ELSE nextEvent)'
      <4>1. NoModeSet /\ mode = "PLAYING" /\ Events(Sent)
        BY <1>3, <1>11, <3>2 DEF Rows, Playing
      <4>2. Events(Sent)'
        <5>1. Sent' = Sent
          BY <1>5 DEF Sent
        <5> QED
          BY <1>13, <4>1, <5>1 DEF Events
      <4> HIDE DEF Events
      <4> QED
        BY <1>2, <1>4, <3>1, <4>1, <4>2 DEF Sent
    <3>3. ASSUME stage \in Closing
          PROVE  /\ mode' = "PLAYING" /\ NoModeSet' /\ nextEvent = TotalEvents /\ ~ended'
                 /\ EventsThen(TotalEvents, Plain("QUEUE_END"))'
      <4>1. mode = "PLAYING" /\ EventsThen(TotalEvents, Plain("QUEUE_END")) /\ Len(toPico) > 1
        BY <1>4, <3>3 DEF Closing
      <4>2. NoModeSet /\ nextEvent = TotalEvents
        BY <1>3, <3>3, <4>1 DEF Rows, Playing, Over
      <4>3. /\ played + q + Len(toPico) - 1 = TotalEvents
            /\ \A i \in 1..(Len(toPico) - 1) : toPico[i] = Event(played + q + i)
            /\ toPico[Len(toPico)] = Plain("QUEUE_END")
        BY <4>1 DEF EventsThen
      <4>4. toPico' # <<>> /\ rest > 0
        <5> DEFINE n == Len(toPico)
        <5>1. n \in Nat /\ n > 1 /\ rest = n - 1 /\ (n = 1 <=> toPico' = <<>>)
          BY <1>6, <4>1
        <5> HIDE DEF n, rest
        <5> QED
          BY <5>1
      <4>5. played + (q + 1) + rest - 1 = TotalEvents
        BY <1>6, <1>7, <4>3
      <4>6. ASSUME NEW i \in 1..(rest - 1) PROVE toPico'[i] = Event(played + (q + 1) + i)
        <5>1. i \in 1..rest /\ i + 1 \in 1..(Len(toPico) - 1)
          BY <1>6
        <5>2. toPico'[i] = toPico[i + 1] /\ toPico[i + 1] = Event(played + q + (i + 1))
          BY <1>6, <4>3, <5>1
        <5>3. played + q + (i + 1) = played + (q + 1) + i
          BY <1>7
        <5> QED
          BY <5>2, <5>3
      <4>7. toPico'[rest] = Plain("QUEUE_END")
        <5>1. rest \in 1..rest /\ rest + 1 = Len(toPico)
          BY <1>6, <4>4
        <5> QED
          BY <1>6, <4>3, <5>1
      <4>8. EventsThen(TotalEvents, Plain("QUEUE_END"))'
        BY <1>2, <1>7, <4>4, <4>5, <4>6, <4>7 DEF EventsThen
      <4> QED
        BY <1>2, <1>4, <3>1, <4>1, <4>2, <4>8
    <3> HIDE DEF Events, EventsThen
    <3> QED
      BY <1>5, <3>2, <3>3 DEF Playing
  <2> QED
    BY <1>12, <2>1, <2>2, <2>3, <2>4 DEF Rows
<1>15. Answers'
  <2>1. stage \in Setup => mode = "ARMED"
    BY <1>11
  <2>2. Bland(s) /\ (stage \in Setup => \A i \in 1..Len(s) : IsStatus(s[i]) => s[i].state = "ARMED")
    BY <1>8, <1>10, <2>1 DEF Bland
  <2> QED
    BY <1>3, <2>2, BlandAnswers DEF s
<1>16. CreditInv'
  <2>1. ~staleCredit => NoEvents' \/ Len(queue') + Len(toPico') =< QueueCapacity
    <3> SUFFICES ASSUME ~staleCredit PROVE Len(queue') + Len(toPico') =< QueueCapacity
      OBVIOUS
    <3>1. NoEvents \/ q + Len(toPico) =< QueueCapacity
      BY FullFacts DEF CreditInv, CountOK
    <3>2. ~NoEvents
      BY <1>2, <1>6 DEF NoEvents
    <3>3. q + Len(toPico) =< QueueCapacity
      BY <3>1, <3>2
    <3>4. (q + 1) + rest =< QueueCapacity
      BY <1>6, <1>7, <3>3
    <3> QED
      BY <1>7, <3>4
  <2>2. ASSUME ~staleCredit, Counting'
        PROVE  /\ Counting
               /\ Due = 0 => credit + Len(queue') =< QueueCapacity
               /\ toPico' # <<>> => Outstanding(fromPico', Due - Len(toPico'))
               /\ toPico' = <<>> => Settled(fromPico', Due, Len(queue'), credit)
    <3>1. stage = "acks"
      <4>1. stage \in {"feed", "credit"} => toPico = <<>>
        BY <2>2, FullFacts DEF CreditInv, CountOK
      <4>2. stage \notin Closing
        BY <1>5, <2>2, AnswerFields DEF Counting, Closing
      <4> QED
        BY <1>3, <1>4, <4>1, <4>2
    <3>2. Counting /\ Due = acksDue
      BY <3>1 DEF Counting, Due
    <3>3. acksDue \in Nat /\ acksDue > 0 /\ Len(toPico) =< acksDue
      BY <1>3, <2>2, <3>1, FullFacts DEF CreditInv, CountOK, Feeder
    <3>4. Outstanding(fromPico, acksDue - Len(toPico))
      BY <1>3, <2>2, <3>2, CountedHas
    <3>5. LastStatus(s) /\ NoUnderrun(s) /\ s[Len(s)].free + (q + 1) =< QueueCapacity
      <4>1. LastStatus(s) /\ NoUnderrun(s)
        BY <1>8, <1>10 DEF LastStatus, NoUnderrun
      <4>2. s[Len(s)].free = QueueCapacity - q - 1
        BY <1>8, <1>10
      <4>3. QueueCapacity - q - 1 + (q + 1) =< QueueCapacity
        BY <1>7
      <4> QED
        BY <4>1, <4>2, <4>3
    <3>6. ASSUME toPico' # <<>> PROVE Outstanding(fromPico \o s, acksDue - Len(toPico'))
      <4> DEFINE m == acksDue - Len(toPico)
      <4>1. m \in Nat /\ m + 1 = acksDue - Len(toPico') /\ Outstanding(fromPico, m)
        BY <1>6, <3>3, <3>4
      <4> HIDE DEF m
      <4>2. Outstanding(fromPico \o s, m + 1)
        BY <1>9, <3>5, <4>1, OutstandingAcked
      <4> QED
        BY <4>1, <4>2
    <3>7. ASSUME toPico' = <<>> PROVE Settled(fromPico \o s, acksDue, q + 1, credit)
      <4>1. Outstanding(fromPico, acksDue - 1)
        BY <1>6, <3>4, <3>7
      <4>2. q + 1 \in Nat
        BY <1>7
      <4> DEFINE p == q + 1
      <4>3. p \in Nat /\ s[Len(s)].free + p =< QueueCapacity
        BY <3>5, <4>2
      <4> HIDE DEF p
      <4>4. Settled(fromPico \o s, acksDue, p, credit)
        BY <1>9, <3>3, <3>5, <4>1, <4>3, AckSettles
      <4> QED
        BY <4>4 DEF p
    <3>8. Due = 0 => credit + Len(queue') =< QueueCapacity
      BY <3>2, <3>3
    <3> QED
      BY <1>7, <1>9, <3>2, <3>6, <3>7, <3>8
  <2>3. /\ toPico = <<>> => toPico' = <<>>
        /\ Len(toPico') =< Len(toPico) /\ Len(toPico') \in Nat /\ ~uartFault'
    <3>1. rest =< Len(toPico)
      BY <1>6
    <3> QED
      BY <1>2, <1>3, <1>6, <3>1 DEF NoFault
  <2> QED
    BY <2>1, <2>2, <2>3, CreditKeeps
<1> QED
  BY <1>1, <1>2, <1>14, <1>15, <1>16 DEF StreamInv

\* Every step of the Pico.
LEMMA PicoKept ==
    ASSUME Full, PicoStep, IInv'
    PROVE  StreamInv'
<1>1. PicoKind /\ Follows
  BY FullFacts, PicoKinds DEF Follows
<1> QED
  BY <1>1, QuietKept, OverrunKept, StopKept, FinishKept, StarveKept, PlayKept, ModeKept, ClearKept, AcceptKept,
     CloseKept, StartKept DEF PicoKind

-----------------------------------------------------------------------------
(* A step of the Zero keeps the invariant. *)

\* The Zero changes nothing of the Pico.
Apart == UNCHANGED <<vars, played>>

LEMMA PicoSame ==
    ASSUME Apart
    PROVE  UNCHANGED <<mode, queue, ended, played, uartFault, capture, backlog, loop>>
  BY DEF Apart, vars, core, capturing, playback

\* The frame the Zero has just read.
ReadFrame == Apart /\ CanRead /\ Consume(deferred) /\ deferred' = <<>>

LEMMA WireGrows ==
    ASSUME Links, NEW c, c \in Seq(Request), toPico' = toPico \o c
    PROVE  /\ toPico' \in Seq(Request) /\ Len(toPico') = Len(toPico) + Len(c) /\ Len(toPico) \in Nat /\ Len(c) \in Nat
           /\ \A i \in 1..Len(toPico) : toPico'[i] = toPico[i]
           /\ \A i \in 1..(Len(toPico) + Len(c)) : i > Len(toPico) => i - Len(toPico) \in 1..Len(c) /\ toPico'[i] = c[i - Len(toPico)]
<1> DEFINE X == Request
           v == toPico \o c
<1>1. toPico \in Seq(X) /\ c \in Seq(X)
  BY DEF Links
<1> HIDE DEF X
<1>2. v \in Seq(X) /\ Halves(v, toPico, c) /\ Len(toPico) \in Nat /\ Len(c) \in Nat
  BY <1>1, ConcatHalves, ConcatProperties, LenProperties
<1> HIDE DEF v
<1>3. ASSUME NEW i \in 1..(Len(toPico) + Len(c)), i > Len(toPico)
      PROVE  i - Len(toPico) \in 1..Len(c) /\ v[i] = c[i - Len(toPico)]
  <2> DEFINE j == i - Len(toPico)
  <2>1. j \in 1..Len(c) /\ i = Len(toPico) + j
    BY <1>2, <1>3
  <2> HIDE DEF j
  <2>2. v[Len(toPico) + j] = c[j]
    BY <1>2, <2>1 DEF Halves
  <2> QED
    BY <2>1, <2>2 DEF j
<1>4. toPico' = v
  BY DEF v
<1>5. v \in Seq(Request) /\ Len(v) = Len(toPico) + Len(c) /\ \A i \in 1..Len(toPico) : v[i] = toPico[i]
  BY <1>2 DEF Halves, X
<1> QED
  BY <1>2, <1>3, <1>4, <1>5

LEMMA ZeroLinks ==
    ASSUME Full, Apart, NEW c, c \in Seq(Request), toPico' = toPico \o c,
           fromPico' \in Seq(Frame), pending' \in Seq(Frame), deferred' \in Seq(Frame)
    PROVE  Links'
<1>1. Links /\ UNCHANGED <<mode, queue, ended, played, uartFault, capture, backlog, loop>>
  BY FullFacts, PicoSame
<1>2. toPico' \in Seq(Request) /\ Len(toPico') = Len(toPico) + Len(c) /\ Len(toPico) \in Nat /\ Len(c) \in Nat
  BY <1>1, WireGrows
<1>3. backlog' =< Len(toPico')
  <2>1. backlog \in Nat /\ backlog =< Len(toPico)
    BY <1>1, FullFacts, BaseFacts
  <2> QED
    BY <1>1, <1>2, <2>1
<1> QED
  BY <1>1, <1>2, <1>3 DEF Links

LEMMA NothingWritten ==
    ASSUME Links, toPico' = toPico
    PROVE  <<>> \in Seq(Request) /\ toPico' = toPico \o <<>>
<1> DEFINE X == Request
<1>1. toPico \in Seq(X)
  BY DEF Links
<1> HIDE DEF X
<1>2. toPico \o <<>> = toPico
  BY <1>1, ConcatEmptySeq
<1> QED
  BY <1>2

LEMMA DoomedKept ==
    ASSUME Full, Apart, mode = "ERROR", NEW c, c \in Seq(Request), toPico' = toPico \o c,
           \A i \in 1..Len(c) : c[i].type # "MODE_SET",
           OnWay' \subseteq OnWay, stage' \notin {"begin", "arming", "returning", "done"}
    PROVE  Doomed'
<1>1. Doomed /\ Links
  BY FullFacts
<1>2. NoModeSet'
  <2>1. /\ Len(toPico') = Len(toPico) + Len(c) /\ Len(toPico) \in Nat /\ Len(c) \in Nat
        /\ \A i \in 1..Len(toPico) : toPico'[i] = toPico[i]
        /\ \A i \in 1..(Len(toPico) + Len(c)) : i > Len(toPico) => i - Len(toPico) \in 1..Len(c) /\ toPico'[i] = c[i - Len(toPico)]
    BY <1>1, WireGrows
  <2>2. ASSUME NEW i \in 1..Len(toPico') PROVE toPico'[i].type # "MODE_SET"
    <3>1. CASE i =< Len(toPico)
      <4>1. i \in 1..Len(toPico)
        BY <2>1, <3>1
      <4> QED
        BY <1>1, <2>1, <4>1 DEF Doomed, NoModeSet
    <3>2. CASE i > Len(toPico)
      <4>1. i - Len(toPico) \in 1..Len(c) /\ toPico'[i] = c[i - Len(toPico)]
        BY <2>1, <2>2, <3>2
      <4> QED
        BY <4>1
    <3> QED
      BY <2>1, <3>1, <3>2
  <2> QED
    BY <2>2 DEF NoModeSet
<1> QED
  BY <1>1, <1>2 DEF Doomed

LEMMA NoAnswer ==
    ASSUME stage' \notin DOMAIN Answer, stage' \notin Setup'
    PROVE  Answers'
<1>1. stage' # "accepted"
  BY AnswerFields
<1> QED
  BY <1>1 DEF Answers

\* Loading goes on.
LEMMA LoadingAnswers ==
    ASSUME Full, stage \in Setup, OnWay' \subseteq OnWay,
           \/ stage' \in {"feed", "acks", "credit"} /\ stage \in {"clearing", "feed", "acks", "credit"}
           \/ stage' = "endAck"
    PROVE  Answers'
<1>1. \A x \in OnWay' : /\ x # StartNews /\ x.type # "PLAY_STARTED"
                        /\ IsStatus(x) => x.state = "ARMED"
                        /\ stage \in {"clearing", "feed", "acks", "credit"} => x.type # "PLAY_READY"
  BY FullFacts DEF Answers
<1>2. stage' \notin DOMAIN Answer /\ stage' # "accepted"
  BY AnswerFields
<1> QED
  BY <1>1, <1>2 DEF Answers

\* The news that ends a run stays the last frame.
LastAt(w) == \A i \in 1..Len(w) : w[i] = FinishedNews => i = Len(w)
NewsIsLast == LastAt(Way)

LEMMA NewsStaysLast ==
    ASSUME Links, NewsIsLast, NEW k, Removed(Way', Way, k)
    PROVE  NewsIsLast'
<1>0. \A i \in 1..Len(Way) : Way[i] = FinishedNews => i = Len(Way)
  BY DEF NewsIsLast, LastAt
<1>1. Len(Way) \in Nat /\ Len(Way') = Len(Way) - 1
      /\ \A i \in 1..Len(Way') : Way'[i] = IF i < k THEN Way[i] ELSE Way[i + 1]
  BY WayFrames DEF Removed
<1>2. ASSUME NEW i \in 1..Len(Way'), Way'[i] = FinishedNews PROVE i = Len(Way')
  <2>1. i \in 1..Len(Way) /\ i + 1 \in 1..Len(Way)
    BY <1>1
  <2>2. Way[i] = FinishedNews \/ Way[i + 1] = FinishedNews
    BY <1>1, <1>2
  <2>3. i = Len(Way) \/ i + 1 = Len(Way)
    BY <1>0, <2>1, <2>2
  <2> QED
    BY <1>1, <2>1, <2>3
<1>3. \A i \in 1..Len(Way') : Way'[i] = FinishedNews => i = Len(Way')
  BY <1>2
<1> QED
  BY <1>3 DEF NewsIsLast, LastAt

LEMMA SaidShrinks ==
    ASSUME Apart, OnWay' \subseteq OnWay, Said, NewsIsLast',
           FinishedNews \in OnWay' => toPico' = <<>>,
           stage' = "accepted" => \A x \in OnWay' : RunFrame(x) \/ x = StartNews,
           stage' \in {"epoch"} \cup Closing \/ Feeding' => \A x \in OnWay' : RunFrame(x) \/ x.type = "PLAY_READY"
    PROVE  Said'
<1>1. UNCHANGED <<mode, queue, ended, played, uartFault>>
  BY PicoSame
<1>2. FinishedNews \in OnWay' => Over'
  BY <1>1 DEF Said, Over
<1> QED
  BY <1>2 DEF Said, NewsIsLast, LastAt

LEMMA ZeroUncounted ==
    ASSUME Full, Apart, ~Counting', staleCredit' = staleCredit,
           ~staleCredit => /\ Len(toPico') =< PipelineWindow /\ (NoEvents' \/ Len(queue) + Len(toPico') =< QueueCapacity)
                           /\ stage' \notin {"feed", "credit", "acks"}
                           /\ stage' \in {"begin", "arming"} => credit' = 0
    PROVE  CreditInv'
<1>1. UNCHANGED <<mode, queue, ended, played, uartFault>>
  BY PicoSame
<1>2. ~staleCredit => ~uartFault
  BY FullFacts DEF CreditInv, CountOK
<1> QED
  BY <1>1, <1>2 DEF CreditInv, CountOK

\* The Zero gives up.
LEMMA FailKept ==
    ASSUME Full, Apart, Fail, deferred' = <<>>,
           fromPico' \in Seq(Frame), pending' \in Seq(Frame), OnWay' \subseteq OnWay,
           mode # "ERROR" => /\ mode = "ARMED" /\ toPico = <<>> /\ queue = <<>> /\ ~ended
                             /\ NewsIsLast'
    PROVE  StreamInv'
<1>1. /\ UNCHANGED <<mode, queue, ended, played, uartFault, capture, backlog, loop>>
      /\ UNCHANGED <<toPico, streaming, prebuffer, nextEvent, credit, batch, acksDue, staleCredit>>
      /\ stage' = "failed" /\ Links /\ Feeder
  BY PicoSame, FullFacts DEF Fail, progress
<1>2. Links'
  <2>1. deferred' \in Seq(Frame)
    BY EmptyIsSeq
  <2>2. toPico' = toPico \o <<>> /\ <<>> \in Seq(Request)
    BY <1>1, NothingWritten
  <2> QED
    BY <2>1, <2>2, ZeroLinks
<1>3. Feeder'
  BY <1>1 DEF Feeder, Early, Late, Stages, Awaited, StopAt
<1>4. stage' \notin DOMAIN Answer /\ stage' \notin Setup' /\ ~Feeding' /\ stage' \notin Closing
  BY <1>1, AnswerFields DEF Setup, Feeding, Closing
<1>5. mode' = "ERROR" => Doomed'
  <2> SUFFICES ASSUME mode = "ERROR" PROVE Doomed'
    BY <1>1
  <2>1. toPico' = toPico \o <<>> /\ <<>> \in Seq(Request) /\ \A i \in 1..Len(<<>>) : <<>>[i].type # "MODE_SET"
    BY <1>1, NothingWritten, EmptyIsSeq
  <2> QED
    BY <1>1, <2>1, DoomedKept
<1>6. mode' # "ERROR" => Rows'
  <2> SUFFICES ASSUME mode # "ERROR" PROVE Rows'
    BY <1>1
  <2>1. Rows
    BY FullFacts
  <2>2. InOrder'
    BY <1>1, <2>1 DEF Rows, InOrder
  <2>3. Beginning' /\ Loading' /\ Starting' /\ Playing'
    BY <1>1, <1>4 DEF Beginning, Loading, Starting, Playing
  <2>4. Leaving'
    BY <1>1 DEF Leaving
  <2>5. Said'
    BY <1>1, <1>4, <2>1, SaidShrinks DEF Rows
  <2> QED
    BY <2>1, <2>2, <2>3, <2>4, <2>5 DEF Rows
<1>7. Answers'
  BY <1>4, NoAnswer
<1>8. CreditInv'
  <2>1. ~Counting'
    BY <1>1, <1>4 DEF Counting
  <2>2. ~staleCredit => /\ Len(toPico) =< PipelineWindow /\ (NoEvents \/ Len(queue) + Len(toPico) =< QueueCapacity)
    BY FullFacts DEF CreditInv, CountOK
  <2>3. NoEvents' = NoEvents
    BY <1>1 DEF NoEvents
  <2> QED
    BY <1>1, <2>1, <2>2, <2>3, ZeroUncounted
<1> QED
  BY <1>2, <1>3, <1>5, <1>6, <1>7, <1>8 DEF StreamInv

\* What the Zero finds in front of it.
LEMMA ReadFacts ==
    ASSUME Full, CanRead
    PROVE  /\ NextFrame \in OnWay /\ NextFrame \in Frame /\ Links
           /\ pending = <<>> => fromPico # <<>> /\ NextFrame = fromPico[1]
           /\ pending # <<>> => NextFrame = pending[1]
           /\ OnWay \subseteq Frame
  BY FullFacts, NextIsOnWay, WayFrames

\* The conjuncts of the invariant a step of the Zero has to keep.
LEMMA RowsAre ==
    ASSUME Full, Apart, mode # "ERROR",
           stage' \in {"begin", "arming"} => Beginning',
           stage' \in Setup' => Loading',
           stage' \in {"accepted", "epoch"} => Starting',
           Feeding' \/ stage' \in Closing => Playing',
           stage' \in {"returning", "done", "failed"} => Leaving',
           Said'
    PROVE  Rows'
<1>1. InOrder'
  <2>1. InOrder /\ queue' = queue /\ played' = played
    BY FullFacts, PicoSame DEF Rows
  <2> QED
    BY <2>1 DEF InOrder
<1>2. Beginning'
  <2>1. stage' \notin {"begin", "arming"} => Beginning'
    BY DEF Beginning
  <2> QED
    BY <2>1
<1>3. Loading'
  <2>1. stage' \notin Setup' => Loading'
    BY DEF Loading
  <2> QED
    BY <2>1
<1>4. Starting'
  <2>1. stage' \notin {"accepted", "epoch"} => Starting'
    BY DEF Starting
  <2> QED
    BY <2>1
<1>5. Playing'
  <2>1. ~Feeding' /\ stage' \notin Closing => Playing'
    BY DEF Playing
  <2> QED
    BY <2>1
<1>6. Leaving'
  <2>1. stage' \notin {"returning", "done", "failed"} => Leaving'
    BY DEF Leaving
  <2> QED
    BY <2>1
<1> QED
  BY <1>1, <1>2, <1>3, <1>4, <1>5, <1>6 DEF Rows

LEMMA ZeroInv ==
    ASSUME Apart, Links', Feeder', mode # "ERROR" => Rows', mode = "ERROR" => Doomed', Answers', CreditInv'
    PROVE  StreamInv'
  BY PicoSame DEF StreamInv

LEMMA ZeroCredit ==
    ASSUME Full, Apart, staleCredit' = staleCredit,
           ~staleCredit =>
             /\ Len(toPico') =< PipelineWindow
             /\ NoEvents' \/ Len(queue) + Len(toPico') =< QueueCapacity
             /\ stage' \in {"feed", "credit"} => toPico' = <<>>
             /\ stage' = "acks" => Len(toPico') =< acksDue'
             /\ stage' \in {"begin", "arming", "credit"} => credit' = 0
             /\ Counting' => Counted'
    PROVE  CreditInv'
<1>1. UNCHANGED <<mode, queue, ended, played, uartFault>>
  BY PicoSame
<1>2. ~staleCredit => ~uartFault
  BY FullFacts DEF CreditInv, CountOK
<1> QED
  BY <1>1, <1>2 DEF CreditInv, CountOK

\* While the answer to a question is on its way, nothing is in front of it.
LEMMA AnswerIsNext ==
    ASSUME Full, CanRead, stage \in DOMAIN Answer, Answer[stage] \in OnWay
    PROVE  NextFrame = Answer[stage] /\ Wanted(NextFrame) /\ Fresh /\ fromPico # <<>> /\ toPico = <<>>
<1>1. Fresh /\ fromPico[1] = Answer[stage] /\ toPico = <<>>
  BY FullFacts DEF Answers
<1>2. NextFrame = Answer[stage] /\ fromPico # <<>>
  BY <1>1, ReadFacts DEF Fresh
<1>3. CASE stage = "ready"
  BY <1>1, <1>2, <1>3, AnswerFields DEF Wanted, Awaited
<1>4. CASE stage = "accepted"
  BY <1>1, <1>2, <1>4, AnswerFields DEF Wanted, Awaited, StartNews, ModeChanged
<1>5. CASE stage = "epoch"
  BY <1>1, <1>2, <1>5, AnswerFields DEF Wanted, Awaited
<1> QED
  BY <1>3, <1>4, <1>5, AnswerFields

LEMMA WaitStages ==
    ASSUME Waiting
    PROVE  stage \in {"arming", "clearing", "acks", "ready", "endAck", "accepted", "epoch", "outcome",
                      "metrics", "finished", "returning", "credit"}
  BY DEF Waiting, Awaited

LEMMA DeferRows ==
    ASSUME Full, Apart, DeferFrame, mode # "ERROR"
    PROVE  Rows'
<1>0. Rows /\ Feeder /\ Answers /\ UNCHANGED <<mode, queue, ended, played, uartFault>>
  BY FullFacts, PicoSame
<1>1. /\ CanRead /\ ~Wanted(NextFrame) /\ Waiting /\ deferred' = Append(deferred, NextFrame)
      /\ UNCHANGED <<toPico, stage, streaming, prebuffer, nextEvent, credit, batch, acksDue, staleCredit>>
  BY DEF DeferFrame, progress
<1>2. Way' = Way /\ OnWay' = OnWay
  BY <1>1, FullFacts, WayDeferred DEF DeferFrame
<1>3. /\ NextFrame \in OnWay
      /\ pending = <<>> => fromPico # <<>> /\ NextFrame = fromPico[1]
      /\ pending # <<>> => NextFrame = pending[1]
  BY <1>1, ReadFacts
<1>4. Setup' = Setup /\ Feeding' = Feeding
  BY <1>1 DEF Setup, Feeding
<1>5. stage' \notin {"begin", "arming"}
  <2>1. stage # "begin"
    BY <1>1, WaitStages
  <2>2. stage # "arming"
    <3> SUFFICES ASSUME stage = "arming" PROVE FALSE
      OBVIOUS
    <3>1. pending = <<>> /\ (fromPico = <<>> \/ fromPico = <<ArmedNews>>)
      BY <1>0 DEF Rows, Beginning, Fresh
    <3>2. NextFrame = ArmedNews
      BY <1>3, <3>1, LenOfOne
    <3> QED
      BY <1>1, <3>2 DEF Wanted, Awaited, ArmedNews, ModeChanged
  <2> QED
    BY <1>1, <2>1, <2>2
<1>6. stage' \in Setup' => Loading'
  <2> SUFFICES ASSUME stage \in Setup PROVE Loading'
    BY <1>1, <1>4
  <2>1. Loading
    BY <1>0 DEF Rows
  <2>2. stage = "ready"
    <3> SUFFICES ASSUME stage # "ready" PROVE FALSE
      OBVIOUS
    <3>1. stage \in {"clearing", "endAck", "acks", "credit"}
      BY <1>1, WaitStages DEF Setup
    <3>2. IsStatus(NextFrame)
      <4>1. IsStatus(NextFrame) \/ NextFrame = Plain("PLAY_READY")
        BY <1>3, <2>1 DEF Loading
      <4>2. NextFrame # Plain("PLAY_READY")
        BY <1>0, <1>3, <2>1, <3>1, AnswerFields DEF Answers, Loading
      <4> QED
        BY <4>1, <4>2
    <3> QED
      BY <1>1, <3>1, <3>2 DEF Wanted, Awaited, IsStatus
  <2>3. pending = <<>> /\ fromPico # <<>>
    BY <1>3, <2>1 DEF Loading
  <2>4. pending' = <<>>
    BY <1>1, <2>3, FullFacts, WayDeferred DEF DeferFrame
  <2>5. nextEvent = TotalEvents /\ Len(queue) = nextEvent /\ toPico = <<>> /\ ended
    BY <2>1, <2>2, <2>3 DEF Loading
  <2> QED
    BY <1>0, <1>1, <1>2, <1>4, <2>1, <2>2, <2>4, <2>5 DEF Loading
<1>7. stage' \in {"accepted", "epoch"} => Starting'
  <2>1. stage = "accepted" => toPico = <<>> /\ (Running \/ Over)
    BY <1>0, <1>3 DEF Rows, Starting, Fresh
  <2>2. Starting
    BY <1>0 DEF Rows
  <2>3. Running' = Running /\ Over' = Over
    BY <1>0, <1>1 DEF Running, Over
  <2> QED
    BY <1>0, <1>1, <2>1, <2>2, <2>3 DEF Starting
<1>8. Playing'
  <2>1. Playing
    BY <1>0 DEF Rows
  <2>2. Over' = Over /\ NoModeSet' = NoModeSet /\ Feeding' = Feeding
    BY <1>0, <1>1, <1>4 DEF Over, NoModeSet
  <2>3. /\ Events(IF stage = "acks" THEN nextEvent + batch ELSE nextEvent)'
             = Events(IF stage = "acks" THEN nextEvent + batch ELSE nextEvent)
        /\ Events(TotalEvents)' = Events(TotalEvents)
        /\ EventsThen(TotalEvents, Plain("QUEUE_END"))' = EventsThen(TotalEvents, Plain("QUEUE_END"))
    BY <1>0, <1>1 DEF Events, EventsThen
  <2> HIDE DEF Events, EventsThen
  <2> QED
    BY <1>0, <1>1, <2>1, <2>2, <2>3 DEF Playing
<1>9. stage' \notin {"returning", "done", "failed"}
  <2>1. stage \notin {"done", "failed"}
    BY <1>1, WaitStages
  <2>2. stage # "returning"
    <3> SUFFICES ASSUME stage = "returning" PROVE FALSE
      OBVIOUS
    <3>1. pending = <<>> /\ (fromPico = <<>> \/ fromPico = <<PassNews>>)
      BY <1>0 DEF Rows, Leaving
    <3>2. NextFrame = PassNews
      BY <1>3, <3>1, LenOfOne
    <3> QED
      BY <1>1, <3>2 DEF Wanted, Awaited, PassNews, ModeChanged
  <2> QED
    BY <1>1, <2>1, <2>2
<1>10. Said'
  <2>1. Said /\ Over' = Over
    BY <1>0, <1>1 DEF Rows, Over
  <2> QED
    BY <1>1, <1>2, <1>4, <2>1 DEF Said
<1> QED
  BY <1>5, <1>6, <1>7, <1>8, <1>9, <1>10, RowsAre

LEMMA DeferCounted ==
    ASSUME Full, Apart, DeferFrame, ~staleCredit, Counting
    PROVE  Counted'
<1>0. UNCHANGED <<mode, queue, ended, played, uartFault>>
  BY PicoSame
<1>1. /\ CanRead /\ ~Wanted(NextFrame) /\ Waiting /\ deferred' = Append(deferred, NextFrame)
      /\ UNCHANGED <<toPico, stage, streaming, prebuffer, nextEvent, credit, batch, acksDue, staleCredit>>
  BY DEF DeferFrame, progress
<1>2. Counted /\ Due \in Nat /\ Due' = Due
  BY <1>1, CountedHas DEF Due
<1>3. /\ NextFrame \in Frame /\ Links
      /\ pending = <<>> => fromPico # <<>> /\ NextFrame = fromPico[1]
      /\ pending # <<>> => NextFrame = pending[1]
  BY <1>1, ReadFacts
<1>4. /\ pending = <<>> => pending' = <<>> /\ fromPico' = Tail(fromPico)
      /\ pending # <<>> => pending' = Tail(pending) /\ fromPico' = fromPico
  BY <1>1, <1>3, WayDeferred DEF DeferFrame
<1>5. fromPico \in Seq(Frame) /\ pending \in Seq(Frame) /\ deferred \in Seq(Frame) /\ Len(toPico) \in Nat
  BY <1>3, FullFacts DEF Links
<1>6. ~IsStatus(NextFrame)
  <2>1. CASE pending # <<>>
    <3>1. 1 \in 1..Len(pending)
      BY <1>5, <2>1
    <3> QED
      BY <1>2, <1>3, <2>1, <3>1 DEF Counted
  <2>2. CASE pending = <<>> /\ stage \notin DOMAIN Answer
    <3>1. stage \in {"clearing", "acks", "credit", "endAck"}
      BY <1>1, <2>2, WaitStages, AnswerFields DEF Counting
    <3> QED
      BY <1>1, <3>1 DEF Wanted, Awaited, IsStatus
  <2>3. CASE pending = <<>> /\ stage \in DOMAIN Answer
    <3>1. Answer[stage] \notin OnWay
      BY <1>1, <2>3, AnswerIsNext
    <3>2. toPico # <<>>
      BY <2>3, <3>1, AnswerFields DEF Counting
    <3>3. Outstanding(fromPico, Due - Len(toPico)) /\ Due =< 1
      BY <1>2, <2>3, <3>2, AnswerFields DEF Counted, Due
    <3>4. Len(toPico) > 0
      BY <1>3, <3>2, HeadOfWire
    <3> DEFINE m == Due - Len(toPico)
    <3>5. m \in Int /\ m =< 0
      BY <1>2, <1>5, <3>3, <3>4
    <3>6. Outstanding(fromPico, m)
      BY <3>3
    <3> HIDE DEF m
    <3>7. NoStatus(fromPico)
      BY <1>5, <3>5, <3>6, NoneOutstanding
    <3>8. 1 \in 1..Len(fromPico)
      BY <1>3, <1>5, <2>3, TailFrames
    <3> QED
      BY <1>3, <2>3, <3>7, <3>8 DEF NoStatus
  <2> QED
    BY <2>1, <2>2, <2>3
<1>7. \A i \in 1..Len(pending') : ~IsStatus(pending'[i])
  <2>1. CASE pending = <<>>
    BY <1>4, <2>1, EmptyIsSeq
  <2>2. CASE pending # <<>>
    <3>1. /\ Len(Tail(pending)) = Len(pending) - 1
          /\ \A i \in 1..Len(Tail(pending)) : i + 1 \in 1..Len(pending) /\ Tail(pending)[i] = pending[i + 1]
      BY <1>5, <2>2, TailFrames
    <3> QED
      BY <1>2, <1>4, <2>2, <3>1 DEF Counted
  <2> QED
    BY <2>1, <2>2
<1>8. \A i \in 1..Len(deferred') : ~IsStatus(deferred'[i])
  <2> DEFINE f == NextFrame
             v == Append(deferred, f)
  <2>0. f \in Frame /\ ~IsStatus(f) /\ deferred' = v
    BY <1>1, <1>3, <1>6
  <2> HIDE DEF f
  <2>1. /\ Len(v) = Len(deferred) + 1 /\ Len(deferred) \in Nat /\ v[Len(deferred) + 1] = f
        /\ \A i \in 1..Len(deferred) : v[i] = deferred[i]
    BY <1>5, <2>0, AppendProperties, LenProperties
  <2>2. ASSUME NEW i \in 1..Len(v) PROVE ~IsStatus(v[i])
    <3>1. i \in 1..Len(deferred) \/ i = Len(deferred) + 1
      BY <2>1
    <3> QED
      BY <1>2, <2>0, <2>1, <3>1 DEF Counted
  <2> QED
    BY <2>0, <2>2
<1>9. toPico' # <<>> => Outstanding(fromPico', Due' - Len(toPico'))
  <2> SUFFICES ASSUME toPico # <<>> PROVE Outstanding(fromPico', Due - Len(toPico))
    BY <1>1, <1>2
  <2> DEFINE m == Due - Len(toPico)
  <2>1. m \in Int /\ Outstanding(fromPico, m)
    BY <1>2, <1>5 DEF Counted
  <2> HIDE DEF m
  <2>2. CASE pending = <<>>
    <3>1. ~IsStatus(fromPico[1]) /\ fromPico # <<>>
      BY <1>3, <1>6, <2>2
    <3>2. Outstanding(Tail(fromPico), m)
      BY <1>5, <2>1, <3>1, OutstandingRead
    <3> QED
      BY <1>4, <2>2, <3>2 DEF m
  <2>3. CASE pending # <<>>
    BY <1>4, <2>1, <2>3 DEF m
  <2> QED
    BY <2>2, <2>3
<1>10. toPico' = <<>> => Settled(fromPico', Due', Len(queue'), credit')
  <2> SUFFICES ASSUME toPico = <<>> PROVE Settled(fromPico', Due, Len(queue), credit)
    BY <1>0, <1>1, <1>2
  <2>1. Settled(fromPico, Due, Len(queue), credit) /\ Len(queue) \in Nat
    BY <1>2, FullFacts DEF Counted
  <2>2. CASE pending = <<>>
    <3>1. ~IsStatus(fromPico[1]) /\ fromPico # <<>>
      BY <1>3, <1>6, <2>2
    <3>2. Settled(Tail(fromPico), Due, Len(queue), credit)
      BY <1>2, <1>5, <2>1, <3>1, SettledRead
    <3> QED
      BY <1>4, <2>2, <3>2
  <2>3. CASE pending # <<>>
    BY <1>4, <2>1, <2>3
  <2> QED
    BY <2>2, <2>3
<1>11. Due' = 0 => credit' + Len(queue') =< QueueCapacity
  BY <1>0, <1>1, <1>2 DEF Counted
<1> QED
  BY <1>7, <1>8, <1>9, <1>10, <1>11 DEF Counted

LEMMA DeferKept ==
    ASSUME Full, Apart, DeferFrame
    PROVE  StreamInv'
<1>0. Links /\ Feeder /\ Answers /\ UNCHANGED <<mode, queue, ended, played, uartFault>>
  BY FullFacts, PicoSame
<1>1. /\ CanRead /\ ~Wanted(NextFrame) /\ Waiting /\ deferred' = Append(deferred, NextFrame)
      /\ UNCHANGED <<toPico, stage, streaming, prebuffer, nextEvent, credit, batch, acksDue, staleCredit>>
  BY DEF DeferFrame, progress
<1>2. /\ Way' = Way /\ OnWay' = OnWay
      /\ pending' \in Seq(Frame) /\ fromPico' \in Seq(Frame) /\ deferred' \in Seq(Frame)
  BY <1>0, <1>1, WayDeferred DEF DeferFrame
<1>3. Links'
  <2>1. toPico' = toPico \o <<>> /\ <<>> \in Seq(Request)
    BY <1>0, <1>1, NothingWritten
  <2> QED
    BY <1>2, <2>1, ZeroLinks
<1>4. Feeder'
  <2>1. stage \in DOMAIN Awaited \cup {"credit"}
    BY <1>1 DEF Waiting
  <2>2. StopAt' = StopAt
    BY <1>1 DEF StopAt
  <2> QED
    BY <1>0, <1>1, <2>1, <2>2 DEF Feeder
<1>5. mode = "ERROR" => Doomed'
  <2> SUFFICES ASSUME mode = "ERROR" PROVE Doomed'
    OBVIOUS
  <2>1. Doomed
    BY FullFacts
  <2> QED
    BY <1>1, <1>2, <2>1 DEF Doomed, NoModeSet
<1>6. mode # "ERROR" => Rows'
  BY DeferRows
<1>7. Answers'
  <2>1. ~(stage \in DOMAIN Answer /\ Answer[stage] \in OnWay)
    BY <1>1, AnswerIsNext
  <2>2. Setup' = Setup
    BY <1>1 DEF Setup
  <2> QED
    BY <1>0, <1>1, <1>2, <2>1, <2>2 DEF Answers
<1>8. CreditInv'
  <2>1. Counting' => Counting
    BY <1>1, <1>2 DEF Counting
  <2>2. ~staleCredit => CountOK
    BY FullFacts DEF CreditInv
  <2>3. ~staleCredit /\ Counting' => Counted'
    BY <2>1, DeferCounted
  <2>4. NoEvents' = NoEvents
    BY <1>1 DEF NoEvents
  <2>5. ASSUME ~staleCredit
        PROVE  /\ Len(toPico') =< PipelineWindow
               /\ NoEvents' \/ Len(queue) + Len(toPico') =< QueueCapacity
               /\ stage' \in {"feed", "credit"} => toPico' = <<>>
               /\ stage' = "acks" => Len(toPico') =< acksDue'
               /\ stage' \in {"begin", "arming", "credit"} => credit' = 0
    BY <1>1, <2>2, <2>4, <2>5 DEF CountOK
  <2> QED
    BY <1>1, <2>3, <2>5, ZeroCredit
<1> QED
  BY <1>3, <1>4, <1>5, <1>6, <1>7, <1>8, ZeroInv

\* A wait that reads an error notice ends the session: Pico is in ERROR.
LEMMA ErrorKept ==
    ASSUME Full, Apart, ErrorSeen
    PROVE  StreamInv'
<1>1. /\ CanRead /\ IsError(NextFrame) /\ Consume(deferred) /\ deferred' = <<>> /\ Fail /\ Waiting
  BY DEF ErrorSeen
<1>2. /\ NextFrame \in OnWay /\ Links /\ NextFrame \in Frame
  BY <1>1, ReadFacts
<1>3. OnWay' \subseteq OnWay /\ pending' \in Seq(Frame) /\ fromPico' \in Seq(Frame)
  BY <1>1, <1>2, WayTaken
<1>4. mode = "ERROR"
  <2> SUFFICES ASSUME mode # "ERROR" PROVE FALSE
    OBVIOUS
  <2>1. Rows /\ Feeder /\ NextFrame.type = "MODE_CHANGED" /\ NextFrame.state = "ERROR"
    BY <1>1, FullFacts DEF IsError
  <2>2. ~IsStatus(NextFrame) /\ ~RunFrame(NextFrame) /\ NextFrame # StartNews /\ NextFrame # ArmedNews /\ NextFrame # PassNews
        /\ NextFrame # Plain("PLAY_READY") /\ NextFrame.type # "PLAY_READY"
    BY <2>1 DEF IsStatus, RunFrame, IsUnderrun, StartNews, ArmedNews, PassNews, FinishedNews, ModeChanged, Plain
  <2>3. stage # "accepted" /\ stage # "epoch" /\ stage \notin Closing /\ ~Feeding
    BY <1>2, <2>1, <2>2 DEF Rows, Said
  <2>4. stage \notin Setup
    BY <1>2, <2>1, <2>2 DEF Rows, Loading
  <2>5. stage \in {"arming", "returning"}
    BY <1>1, <2>1, <2>3, <2>4, WaitStages DEF Setup, Feeding, Closing, Feeder
  <2>6. pending = <<>> /\ fromPico # <<>> /\ NextFrame = fromPico[1]
    BY <1>1, <2>1, <2>5, ReadFacts DEF Rows, Beginning, Leaving, Fresh
  <2>7. fromPico = <<ArmedNews>> \/ fromPico = <<PassNews>>
    BY <2>1, <2>5, <2>6 DEF Rows, Beginning, Leaving
  <2> QED
    BY <2>2, <2>6, <2>7, LenOfOne
<1> QED
  BY <1>1, <1>3, <1>4, FailKept

LEMMA TakenFacts ==
    ASSUME Full, CanRead, Consume(deferred), deferred' = <<>>
    PROVE  /\ fromPico' \in Seq(Frame) /\ pending' \in Seq(Frame) /\ deferred' \in Seq(Frame)
           /\ OnWay' \subseteq OnWay
           /\ Removed(Way', Way, Len(deferred) + 1)
           /\ mode # "ERROR" => NewsIsLast /\ NewsIsLast'
           /\ pending = <<>> => pending' = deferred /\ fromPico' = Tail(fromPico)
           /\ Fresh => Fresh' /\ fromPico' = Tail(fromPico) /\ fromPico # <<>> /\ NextFrame = fromPico[1]
<1>1. Links
  BY FullFacts
<1>2. /\ Removed(Way', Way, Len(deferred) + 1) /\ OnWay' \subseteq OnWay
      /\ pending' \in Seq(Frame) /\ fromPico' \in Seq(Frame) /\ deferred' \in Seq(Frame)
      /\ pending = <<>> => pending' = deferred /\ fromPico' = Tail(fromPico)
  BY <1>1, WayTaken
<1>3. mode # "ERROR" => NewsIsLast
  BY FullFacts DEF Rows, Said, NewsIsLast, LastAt
<1>4. mode # "ERROR" => NewsIsLast'
  BY <1>1, <1>2, <1>3, NewsStaysLast
<1>5. Fresh => Fresh' /\ fromPico' = Tail(fromPico) /\ fromPico # <<>> /\ NextFrame = fromPico[1]
  BY <1>2, ReadFacts DEF Fresh
<1> QED
  BY <1>2, <1>3, <1>4, <1>5

\* A status that is read while one is due.
LEMMA StatusRead ==
    ASSUME Full, CanRead, Consume(deferred), deferred' = <<>>, IsStatus(NextFrame),
           ~staleCredit, Counting, Due > 0
    PROVE  /\ NoStatus(pending')
           /\ toPico # <<>> => Outstanding(fromPico', (Due - 1) - Len(toPico)) /\ Len(toPico) =< Due - 1
           /\ toPico = <<>> => /\ Settled(fromPico', Due - 1, Len(queue), NextFrame.free)
                               /\ Due = 1 => NextFrame.free + Len(queue) =< QueueCapacity
           /\ Due = 1 => toPico = <<>>
<1>1. Counted /\ Due \in Nat /\ Len(queue) \in Nat /\ Len(toPico) \in Nat
  BY CountedHas, FullFacts
<1>2. fromPico \in Seq(Frame) /\ pending \in Seq(Frame) /\ Links
  BY FullFacts DEF Links
<1>3. pending = <<>>
  <2> SUFFICES ASSUME pending # <<>> PROVE FALSE
    OBVIOUS
  <2>1. NextFrame = pending[1] /\ 1 \in 1..Len(pending)
    BY <1>2, ReadFacts
  <2> QED
    BY <1>1, <2>1 DEF Counted
<1>4. fromPico' = Tail(fromPico) /\ pending' = deferred /\ fromPico # <<>> /\ NextFrame = fromPico[1]
  BY <1>3, TakenFacts, ReadFacts
<1>5. NoStatus(pending')
  BY <1>1, <1>4 DEF Counted, NoStatus
<1> DEFINE m == Due - Len(toPico)
<1>6. m \in Int /\ (toPico # <<>> => Outstanding(fromPico, m))
  BY <1>1 DEF Counted
<1>7. (Due - 1) - Len(toPico) = m - 1
  BY <1>1
<1> HIDE DEF m
<1>8. toPico # <<>> => m >= 1 /\ Outstanding(fromPico', m - 1)
  BY <1>2, <1>4, <1>6, OutstandingRead
<1>9. toPico # <<>> => Len(toPico) > 0
  BY <1>2, HeadOfWire
<1>10. Due = 1 => toPico = <<>>
  BY <1>1, <1>8, <1>9 DEF m
<1>12. toPico # <<>> => Len(toPico) =< Due - 1
  BY <1>1, <1>8 DEF m
<1>11. toPico = <<>> => /\ Settled(fromPico', Due - 1, Len(queue), NextFrame.free)
                        /\ Due = 1 => NextFrame.free + Len(queue) =< QueueCapacity
  <2> SUFFICES ASSUME toPico = <<>> PROVE /\ Settled(fromPico', Due - 1, Len(queue), NextFrame.free)
                                          /\ Due = 1 => NextFrame.free + Len(queue) =< QueueCapacity
    OBVIOUS
  <2> DEFINE d == Due
             e == fromPico[1].free
  <2>1. Settled(fromPico, d, Len(queue), credit) /\ d \in Nat /\ d > 0
    BY <1>1 DEF Counted
  <2>2. IsStatus(fromPico[1]) /\ e = fromPico[1].free
    BY <1>4
  <2> HIDE DEF d, e
  <2>3. (d = 1 => fromPico[1].free + Len(queue) =< QueueCapacity) /\ Settled(Tail(fromPico), d - 1, Len(queue), e)
    BY <1>1, <1>2, <1>4, <2>1, <2>2, SettledAck
  <2> QED
    BY <1>4, <2>2, <2>3 DEF d
<1> QED
  BY <1>5, <1>7, <1>8, <1>10, <1>11, <1>12

LEMMA OneOnWire ==
    ASSUME NEW c \in Request
    PROVE  /\ <<c>> \in Seq(Request) /\ Len(<<c>>) = 1 /\ <<c>> # <<>>
           /\ \A i \in 1..Len(<<c>>) : i = 1 /\ <<c>>[i] = c
           /\ <<>> \o <<c>> = <<c>>
           /\ 1 =< PipelineWindow
<1>1. <<c>> \in Seq(Request) /\ Len(<<c>>) = 1 /\ <<c>>[1] = c
  BY OneIsSeq
<1>2. \A i \in 1..Len(<<c>>) : i = 1
  BY <1>1
<1>3. 1 =< PipelineWindow
  BY StreamAssumption
<1>4. <<>> \o <<c>> = <<c>>
  <2> DEFINE X == Request
             s == <<c>>
  <2>1. s \in Seq(X)
    BY <1>1
  <2> HIDE DEF X, s
  <2>2. <<>> \o s = s
    BY <2>1, ConcatEmptySeq
  <2> QED
    BY <2>2 DEF s
<1>5. <<c>> # <<>>
  BY <1>1, EmptyIsSeq
<1> QED
  BY <1>1, <1>2, <1>3, <1>4, <1>5

LEMMA EmptyWay ==
    ASSUME Links', Fresh', fromPico' = <<>>
    PROVE  OnWay' = {} /\ NewsIsLast' /\ NoStatus(fromPico') /\ Way' = <<>>
<1> DEFINE f == fromPico'
           p == pending'
           e == deferred'
<1>1. f = <<>> /\ p = <<>> /\ e = <<>>
  BY DEF Fresh
<1>2. (e \o p) \o f = <<>>
  BY <1>1
<1>3. Way' = <<>>
  BY <1>2 DEF Way
<1>4. Range(<<>>) = {}
  BY RangeOfNone
<1> QED
  BY <1>1, <1>3, <1>4, EmptyIsSeq DEF OnWay, NewsIsLast, LastAt, NoStatus

LEMMA BeginKept ==
    ASSUME Full, Apart, Begin
    PROVE  StreamInv'
<1>0. Links /\ Feeder /\ UNCHANGED <<mode, queue, ended, played, uartFault>>
  BY FullFacts, PicoSame
<1>1. /\ stage = "begin" /\ stage' = "arming"
      /\ UNCHANGED <<fromPico, pending, deferred, streaming, prebuffer, nextEvent, credit, batch, acksDue, staleCredit>>
  BY DEF Begin, Proceed, progress
<1>2. mode # "ERROR"
  BY <1>1, FullFacts DEF Doomed
<1>3. mode = "PASS" /\ toPico = <<>> /\ Fresh /\ fromPico = <<>> /\ Unfed /\ Rows
  BY <1>1, <1>2, FullFacts DEF Rows, Beginning
<1> DEFINE c == SetMode("ARMED")
<1>4. c \in Request /\ toPico' = toPico \o <<c>> /\ toPico' = <<>> \o <<c>> /\ c.type # "QUEUE_EVENT"
  BY <1>3 DEF Begin, Proceed, SetMode, Request
<1> HIDE DEF c
<1>5. /\ toPico' = <<c>> /\ <<c>> \in Seq(Request) /\ Len(toPico') =< PipelineWindow
      /\ \A i \in 1..Len(toPico') : toPico'[i] = c
  BY <1>4, OneOnWire
<1>6. Fresh' /\ fromPico' = <<>>
  BY <1>1, <1>3 DEF Fresh
<1>7. Links'
  <2>1. fromPico' \in Seq(Frame) /\ pending' \in Seq(Frame) /\ deferred' \in Seq(Frame)
    BY <1>0, <1>1 DEF Links
  <2> QED
    BY <1>4, <1>5, <2>1, ZeroLinks
<1>8. Feeder'
  <2>1. StopAt' = StopAt
    BY <1>1 DEF StopAt
  <2> QED
    BY <1>0, <1>1, <2>1 DEF Feeder, Early, Late, Stages, Awaited
<1>9. OnWay' = {} /\ NewsIsLast'
  BY <1>6, <1>7, EmptyWay
<1>10. Rows'
  <2>1. Beginning'
    BY <1>0, <1>1, <1>3, <1>5, <1>6 DEF Beginning, Unfed, c
  <2>2. stage' \notin Setup' /\ ~Feeding' /\ stage' \notin Closing
    BY <1>1 DEF Setup, Feeding, Closing
  <2>3. Said'
    BY <1>1, <1>9, <2>2 DEF Said, NewsIsLast, LastAt
  <2> QED
    BY <1>1, <1>2, <2>1, <2>2, <2>3, RowsAre
<1>11. Answers'
  BY <1>1, NoAnswer, AnswerFields DEF Setup
<1>12. CreditInv'
  <2>1. ~Counting'
    BY <1>1, AnswerFields DEF Counting
  <2>2. NoEvents'
    BY <1>4, <1>5 DEF NoEvents
  <2>3. ~staleCredit => credit' = 0
    BY <1>1, FullFacts DEF CreditInv, CountOK
  <2> QED
    BY <1>1, <1>5, <2>1, <2>2, <2>3, ZeroUncounted
<1> QED
  BY <1>2, <1>7, <1>8, <1>10, <1>11, <1>12, ZeroInv

LEMMA ArmedKept ==
    ASSUME Full, Apart, Armed
    PROVE  StreamInv'
<1>0. Links /\ Feeder /\ UNCHANGED <<mode, queue, ended, played, uartFault>>
  BY FullFacts, PicoSame
<1>1. /\ stage = "arming" /\ CanRead /\ Consume(deferred) /\ deferred' = <<>>
  BY DEF Armed, Await
<1>2. mode # "ERROR"
  BY <1>1, FullFacts DEF Doomed
<1>3. Fresh /\ Unfed /\ fromPico # <<>> /\ NextFrame = fromPico[1] /\ fromPico' = Tail(fromPico) /\ Fresh'
  BY <1>1, <1>2, FullFacts, TakenFacts DEF Rows, Beginning
<1>4. mode = "ARMED" /\ toPico = <<>> /\ fromPico = <<ArmedNews>>
  BY <1>1, <1>2, <1>3, FullFacts DEF Rows, Beginning
<1>5. NextFrame = ArmedNews /\ fromPico' = <<>>
  BY <1>3, <1>4, LenOfOne
<1> DEFINE c == Plain("QUEUE_CLEAR")
<1>6. /\ stage' = "clearing" /\ toPico' = <<>> \o <<c>> /\ toPico' = toPico \o <<c>>
      /\ UNCHANGED <<streaming, prebuffer, nextEvent, credit, batch, acksDue, staleCredit>>
  BY <1>4, <1>5 DEF Armed, Proceed, progress, ArmedNews
<1>7. c \in Request /\ c.type # "QUEUE_EVENT"
  BY DEF Request, Plain
<1> HIDE DEF c
<1>8. /\ toPico' = <<c>> /\ <<c>> \in Seq(Request) /\ Len(toPico') =< PipelineWindow /\ toPico' # <<>> /\ Len(toPico') = 1
      /\ \A i \in 1..Len(toPico') : toPico'[i] = c
  BY <1>6, <1>7, OneOnWire
<1>9. Links'
  <2>1. fromPico' \in Seq(Frame) /\ pending' \in Seq(Frame) /\ deferred' \in Seq(Frame)
    BY <1>1, TakenFacts
  <2> QED
    BY <1>6, <1>8, <2>1, ZeroLinks
<1>10. Feeder'
  <2>1. StopAt' = StopAt
    BY <1>6 DEF StopAt
  <2> QED
    BY <1>0, <1>1, <1>6, <2>1 DEF Feeder, Early, Late, Stages, Awaited
<1>11. OnWay' = {} /\ NewsIsLast' /\ NoStatus(fromPico')
  BY <1>3, <1>5, <1>9, EmptyWay
<1>12. Rows'
  <2>1. Loading'
    <3>1. ~uartFault
      BY <1>0, <1>4 DEF Links
    <3> QED
      BY <1>0, <1>3, <1>4, <1>6, <1>8, <1>11, <3>1 DEF Loading, Unfed, Fresh, c
  <2>2. ~Feeding' /\ stage' \notin Closing
    BY <1>6 DEF Feeding, Closing
  <2>3. Said'
    BY <1>6, <1>11, <2>2 DEF Said, NewsIsLast, LastAt
  <2> QED
    BY <1>2, <1>6, <2>1, <2>2, <2>3, RowsAre
<1>13. Answers'
  BY <1>6, <1>11, AnswerFields DEF Answers
<1>14. CreditInv'
  <2>1. NoEvents'
    BY <1>7, <1>8 DEF NoEvents
  <2>2. Counted'
    <3>1. Due' = 1
      BY <1>6 DEF Due
    <3>2. Due' - Len(toPico') = 0
      BY <1>8, <3>1
    <3>3. fromPico' \in Seq(Frame) /\ 0 \in Int
      BY <1>9 DEF Links
    <3>4. Outstanding(fromPico', 0)
      BY <1>11, <3>3, NoneOutstanding
    <3>5. Due' # 0
      BY <3>1
    <3> QED
      BY <1>3, <1>8, <3>2, <3>4, <3>5, EmptyIsSeq DEF Counted, Fresh
  <2> QED
    BY <1>6, <1>8, <2>1, <2>2, ZeroCredit
<1> QED
  BY <1>2, <1>9, <1>10, <1>12, <1>13, <1>14, ZeroInv

LEMMA ClearedKept ==
    ASSUME Full, Apart, Cleared
    PROVE  StreamInv'
<1>0. Links /\ Feeder /\ UNCHANGED <<mode, queue, ended, played, uartFault>>
  BY FullFacts, PicoSame
<1>1. /\ stage = "clearing" /\ CanRead /\ Consume(deferred) /\ deferred' = <<>> /\ IsStatus(NextFrame)
  BY DEF Cleared, Await, Wanted, Awaited, IsStatus
<1>2. ~staleCredit /\ ~streaming /\ Counting /\ Due = 1 /\ stage \in Setup /\ Due > 0 /\ Due - 1 = 0
  BY <1>0, <1>1 DEF Feeder, Early, Counting, Due, Setup
<1>3. /\ NoStatus(pending') /\ toPico = <<>> /\ Settled(fromPico', 0, Len(queue), NextFrame.free)
      /\ NextFrame.free + Len(queue) =< QueueCapacity
  BY <1>1, <1>2, StatusRead
<1>4. /\ fromPico' \in Seq(Frame) /\ pending' \in Seq(Frame) /\ deferred' \in Seq(Frame)
      /\ OnWay' \subseteq OnWay /\ (mode # "ERROR" => NewsIsLast')
  BY <1>1, TakenFacts
<1>5. mode # "ERROR" => /\ mode = "ARMED" /\ Unfed /\ pending' = <<>> /\ ~uartFault /\ played = 0
                        /\ \A x \in OnWay : IsStatus(x) \/ x = Plain("PLAY_READY")
  <2> SUFFICES ASSUME mode # "ERROR"
               PROVE  /\ mode = "ARMED" /\ Unfed /\ pending' = <<>> /\ ~uartFault /\ played = 0
                      /\ \A x \in OnWay : IsStatus(x) \/ x = Plain("PLAY_READY")
    OBVIOUS
  <2>1. Loading
    BY FullFacts DEF Rows
  <2>2. Fresh
    BY <1>1, <1>2, <2>1 DEF Loading, Fresh
  <2>3. pending' = <<>>
    BY <1>1, <2>2, TakenFacts DEF Fresh
  <2> QED
    BY <1>1, <1>2, <2>1, <2>3 DEF Loading
<1>6. CASE Fail
  BY <1>1, <1>3, <1>4, <1>5, <1>6, FailKept DEF Unfed
<1>7. CASE ~Fail
  <2>1. /\ stage' = "feed" /\ toPico' = toPico \o <<>> /\ credit' = NextFrame.free
        /\ UNCHANGED <<streaming, prebuffer, nextEvent, batch, acksDue, staleCredit>>
    BY <1>7 DEF Cleared, Proceed
  <2>2. toPico' = <<>> /\ Len(toPico') = 0
    BY <1>3, <2>1, EmptyIsSeq
  <2>3. credit' \in 0..QueueCapacity
    BY <1>1, <2>1, ReadFacts, FrameFields
  <2>4. Links'
    <3>1. <<>> \in Seq(Request)
      BY EmptyIsSeq
    <3> QED
      BY <1>4, <2>1, <3>1, ZeroLinks
  <2>5. Feeder'
    <3>1. StopAt' = StopAt
      BY <2>1 DEF StopAt
    <3> QED
      BY <1>0, <1>1, <2>1, <2>3, <3>1 DEF Feeder, Early, Late, Stages, Awaited
  <2>6. mode # "ERROR" => Rows'
    <3> SUFFICES ASSUME mode # "ERROR" PROVE Rows'
      OBVIOUS
    <3>1. Loading'
      <4>1. Events(nextEvent)' /\ ~ended'
        <5>1. nextEvent' = 0 /\ played' = 0 /\ queue' = <<>> /\ ~ended'
          BY <1>0, <1>5, <2>1 DEF Unfed
        <5>2. Len(queue') = 0
          BY <5>1, EmptyIsSeq
        <5> QED
          BY <2>2, <5>1, <5>2 DEF Events
      <4>2. \A x \in OnWay' : IsStatus(x) \/ x = Plain("PLAY_READY")
        BY <1>4, <1>5
      <4> HIDE DEF Events
      <4> QED
        BY <1>0, <1>1, <1>5, <2>1, <4>1, <4>2 DEF Loading
    <3>2. ~Feeding' /\ stage' \notin Closing
      BY <1>2, <2>1 DEF Feeding, Closing
    <3>3. Said'
      BY <1>4, <2>1, <2>2, <3>2, FullFacts, SaidShrinks DEF Rows
    <3> QED
      BY <2>1, <3>1, <3>2, <3>3, RowsAre
  <2>7. mode = "ERROR" => Doomed'
    <3>1. <<>> \in Seq(Request) /\ \A i \in 1..Len(<<>>) : <<>>[i].type # "MODE_SET"
      BY EmptyIsSeq
    <3> QED
      BY <1>4, <2>1, <3>1, DoomedKept
  <2>8. Answers'
    BY <1>1, <1>2, <1>4, <2>1, LoadingAnswers
  <2>9. CreditInv'
    <3>1. NoEvents' /\ Len(toPico') =< PipelineWindow
      BY <2>2, StreamAssumption DEF NoEvents
    <3>2. Counted'
      <4>1. Due' = 0
        BY <2>1 DEF Due
      <4>2. credit' + Len(queue') =< QueueCapacity
        BY <1>0, <1>3, <2>1
      <4>3. Settled(fromPico', Due', Len(queue'), credit')
        BY <1>0, <1>3, <2>1, <4>1
      <4> HIDE DEF Settled, Outstanding
      <4> QED
        BY <1>1, <1>3, <2>2, <4>2, <4>3, EmptyIsSeq DEF Counted, NoStatus
    <3> QED
      BY <2>1, <2>2, <3>1, <3>2, ZeroCredit
  <2> QED
    BY <2>4, <2>5, <2>6, <2>7, <2>8, <2>9, ZeroInv
<1> QED
  BY <1>6, <1>7

LEMMA OneWritten ==
    ASSUME Links, toPico = <<>>, NEW c \in Request, toPico' = toPico \o <<c>>
    PROVE  /\ toPico' = <<c>> /\ <<c>> \in Seq(Request) /\ Len(toPico') =< PipelineWindow
           /\ toPico' # <<>> /\ Len(toPico') = 1
           /\ \A i \in 1..Len(toPico') : i = 1 /\ toPico'[i] = c
<1>1. toPico' = <<>> \o <<c>>
  OBVIOUS
<1> QED
  BY <1>1, OneOnWire

\* Prebuffered or fed, no status is left on the way: it would be of PLAYING.
LEMMA LoadedAtRest ==
    ASSUME Full, stage = "feed", ~streaming
    PROVE  /\ ~staleCredit /\ toPico = <<>> /\ NoStatus(fromPico) /\ deferred = <<>> /\ stage \in Setup
           /\ NoStatus(pending) /\ credit + Len(queue) =< QueueCapacity
           /\ \A x \in OnWay : x # StartNews /\ x.type # "PLAY_STARTED" /\ x.type # "PLAY_READY"
                               /\ (IsStatus(x) => x.state = "ARMED")
           /\ mode # "ERROR" => Fresh /\ fromPico = <<>>
<1>0. Links /\ Feeder /\ Answers /\ CreditInv /\ Len(queue) \in Nat
  BY FullFacts
<1>1. ~staleCredit /\ stage \in Setup /\ Counting /\ Due = 0 /\ deferred = <<>>
  BY <1>0 DEF Feeder, Setup, Counting, Due, Awaited
<1>2. toPico = <<>> /\ Counted /\ NoStatus(pending) /\ credit + Len(queue) =< QueueCapacity
  BY <1>0, <1>1 DEF CreditInv, CountOK, Counted, NoStatus
<1>3. \A x \in OnWay : x # StartNews /\ x.type # "PLAY_STARTED" /\ x.type # "PLAY_READY"
                       /\ (IsStatus(x) => x.state = "ARMED")
  BY <1>0, <1>1 DEF Answers
<1>4. \A i \in 1..Len(fromPico) : fromPico[i] \in OnWay
  <2>1. fromPico \in Seq(Frame) /\ OnWay = Range(deferred) \cup Range(pending) \cup Range(fromPico)
    BY <1>0, WayFrames DEF Links
  <2> QED
    BY <2>1, InRange
<1>5. NoStatus(fromPico)
  <2>1. Settled(fromPico, 0, Len(queue), credit) /\ fromPico \in Seq(Frame)
    BY <1>0, <1>1, <1>2 DEF Counted, Links
  <2>2. \A i \in 1..Len(fromPico) : IsStatus(fromPico[i]) => fromPico[i].state = "PLAYING"
    BY <1>0, <2>1, SettledAtRest
  <2> QED
    BY <1>3, <1>4, <2>2 DEF NoStatus
<1>6. mode # "ERROR" => Fresh /\ fromPico = <<>>
  <2> SUFFICES ASSUME mode # "ERROR" PROVE Fresh /\ fromPico = <<>>
    OBVIOUS
  <2>1. Loading
    BY FullFacts DEF Rows
  <2>2. pending = <<>> /\ \A x \in OnWay : IsStatus(x) \/ x = Plain("PLAY_READY")
    BY <1>1, <2>1 DEF Loading
  <2>3. fromPico \in Seq(Frame) /\ Len(fromPico) \in Nat
    BY <1>0 DEF Links
  <2>4. ~(1 \in 1..Len(fromPico))
    BY <1>3, <1>4, <1>5, <2>2, AnswerFields DEF NoStatus
  <2>5. fromPico = <<>>
    BY <2>3, <2>4
  <2> QED
    BY <1>1, <2>2, <2>5 DEF Fresh
<1> QED
  BY <1>1, <1>2, <1>3, <1>5, <1>6

LEMMA PrebufferedKept ==
    ASSUME Full, Apart, Prebuffered
    PROVE  StreamInv'
<1>0. Links /\ Feeder /\ UNCHANGED <<mode, queue, ended, played, uartFault>> /\ Len(queue) \in Nat
  BY FullFacts, PicoSame
<1>1. /\ stage = "feed" /\ ~streaming /\ nextEvent = prebuffer
      /\ UNCHANGED <<fromPico, pending, deferred, streaming, prebuffer, nextEvent, credit, batch, acksDue, staleCredit>>
  BY DEF Prebuffered, progress
<1>2. /\ ~staleCredit /\ toPico = <<>> /\ NoStatus(fromPico) /\ deferred = <<>> /\ stage \in Setup
      /\ NoStatus(pending) /\ credit + Len(queue) =< QueueCapacity
      /\ \A x \in OnWay : x # StartNews /\ x.type # "PLAY_STARTED" /\ x.type # "PLAY_READY"
                          /\ (IsStatus(x) => x.state = "ARMED")
      /\ mode # "ERROR" => Fresh /\ fromPico = <<>>
  BY <1>1, LoadedAtRest
<1> DEFINE c == IF nextEvent = TotalEvents THEN Plain("QUEUE_END") ELSE Plain("PLAY_START")
<1>3. /\ c \in Request /\ c.type # "QUEUE_EVENT" /\ c.type # "MODE_SET" /\ toPico' = toPico \o <<c>>
      /\ stage' = IF nextEvent = TotalEvents THEN "ready" ELSE "accepted"
  BY DEF Prebuffered, Proceed, Request, Plain
<1>4. (c = IF nextEvent = TotalEvents THEN Plain("QUEUE_END") ELSE Plain("PLAY_START")) /\ stage' \in {"ready", "accepted"}
  BY <1>3
<1> HIDE DEF c
<1>5. /\ toPico' = <<c>> /\ <<c>> \in Seq(Request) /\ Len(toPico') =< PipelineWindow
      /\ toPico' # <<>> /\ Len(toPico') = 1
      /\ \A i \in 1..Len(toPico') : i = 1 /\ toPico'[i] = c
  BY <1>0, <1>2, <1>3, OneWritten
<1>6. Way' = Way /\ OnWay' = OnWay
  BY <1>1 DEF Way, OnWay
<1>7. Links'
  <2>1. fromPico' \in Seq(Frame) /\ pending' \in Seq(Frame) /\ deferred' \in Seq(Frame)
    BY <1>0, <1>1 DEF Links
  <2> QED
    BY <1>3, <1>5, <2>1, ZeroLinks
<1>8. Feeder'
  <2>1. StopAt' = StopAt
    BY <1>1 DEF StopAt
  <2> QED
    BY <1>0, <1>1, <1>2, <1>4, <2>1 DEF Feeder, Early, Late, Stages, Awaited
<1>9. mode # "ERROR" => Rows'
  <2> SUFFICES ASSUME mode # "ERROR" PROVE Rows'
    OBVIOUS
  <2>1. Fresh /\ Fresh' /\ fromPico' = <<>>
    BY <1>1, <1>2 DEF Fresh
  <2>2. OnWay' = {} /\ NewsIsLast'
    BY <1>7, <2>1, EmptyWay
  <2>3. Loading /\ played = 0 /\ mode = "ARMED" /\ ~uartFault /\ ~ended /\ Events(nextEvent)
    BY <1>1, <1>2, FullFacts DEF Rows, Loading
  <2>4. Len(queue) = nextEvent
    <3>1. played + Len(queue) + Len(toPico) = nextEvent /\ Len(toPico) = 0
      BY <1>2, <2>3, EmptyIsSeq DEF Events
    <3> QED
      BY <1>0, <2>3, <3>1
  <2>5. stage' \in Setup' => Loading'
    <3>1. stage' # "ready" => stage' \notin Setup'
      BY <1>4 DEF Setup
    <3>2. stage' = "ready" => Loading'
      <4> SUFFICES ASSUME stage' = "ready" PROVE Loading'
        OBVIOUS
      <4>1. nextEvent = TotalEvents /\ c = Plain("QUEUE_END")
        BY <1>3, <1>4
      <4> QED
        BY <1>0, <1>1, <1>2, <1>5, <2>1, <2>2, <2>3, <2>4, <4>1 DEF Loading, Fresh
    <3> QED
      BY <3>1, <3>2
  <2>6. Starting'
    <3> SUFFICES ASSUME stage' = "accepted" PROVE Starting'
      BY <1>4 DEF Starting
    <3>1. nextEvent # TotalEvents /\ c = Plain("PLAY_START")
      BY <1>3, <1>4
    <3>2. ~Over'
      BY <1>5 DEF Over
    <3> QED
      BY <1>0, <1>1, <1>5, <2>1, <2>3, <2>4, <3>1, <3>2 DEF Starting
  <2>7. ~Feeding' /\ stage' \notin Closing
    BY <1>4 DEF Feeding, Closing
  <2>8. Said'
    BY <1>4, <2>2, <2>7 DEF Said, NewsIsLast, LastAt
  <2> QED
    BY <1>4, <2>5, <2>6, <2>7, <2>8, RowsAre
<1>10. mode = "ERROR" => Doomed'
  <2>1. <<c>> \in Seq(Request) /\ \A i \in 1..Len(<<c>>) : <<c>>[i].type # "MODE_SET"
    BY <1>3, <1>5
  <2> QED
    BY <1>3, <1>4, <1>6, <2>1, DoomedKept
<1>11. Answers'
  <2>1. StartNews \notin OnWay' /\ Plain("PLAY_STARTED") \notin OnWay' /\ Plain("PLAY_READY") \notin OnWay'
    BY <1>2, <1>6, AnswerFields
  <2>2. ~(stage' \in DOMAIN Answer /\ Answer[stage'] \in OnWay')
    BY <1>4, <2>1, AnswerFields
  <2> QED
    BY <1>2, <1>4, <1>6, <2>1, <2>2 DEF Answers
<1>12. CreditInv'
  <2>1. NoEvents'
    BY <1>3, <1>5 DEF NoEvents
  <2>2. Counted'
    <3>1. Due' \in {0, 1}
      BY <1>4 DEF Due
    <3> DEFINE m == Due' - Len(toPico')
    <3>2. m \in Int
      BY <1>5, <3>1
    <3>3. fromPico' \in Seq(Frame) /\ NoStatus(fromPico')
      BY <1>1, <1>2, <1>7 DEF Links
    <3> HIDE DEF m
    <3>4. Outstanding(fromPico', m)
      BY <3>2, <3>3, NoneOutstanding
    <3>5. \A i \in 1..Len(pending') : ~IsStatus(pending'[i])
      BY <1>1, <1>2 DEF NoStatus
    <3>6. \A i \in 1..Len(deferred') : ~IsStatus(deferred'[i])
      BY <1>1, <1>2, EmptyIsSeq
    <3> HIDE DEF Outstanding, Settled
    <3> QED
      BY <1>0, <1>1, <1>2, <1>5, <3>4, <3>5, <3>6 DEF Counted, m
  <2> QED
    BY <1>1, <1>4, <1>5, <2>1, <2>2, ZeroCredit
<1> QED
  BY <1>7, <1>8, <1>9, <1>10, <1>11, <1>12, ZeroInv

LEMMA PlainFrame ==
    ASSUME NEW x \in Frame
    PROVE  /\ x.type = "PLAY_READY" => x = Plain("PLAY_READY")
           /\ x.type = "PLAY_STARTED" => x = Plain("PLAY_STARTED")
  BY DEF Frame, Plain

LEMMA AnswerRead ==
    ASSUME Full, CanRead, Consume(deferred), deferred' = <<>>,
           stage \in DOMAIN Answer, Answer[stage] \in OnWay
    PROVE  /\ NextFrame = Answer[stage] /\ Fresh /\ Fresh' /\ toPico = <<>> /\ Counting
           /\ fromPico # <<>> /\ fromPico' = Tail(fromPico) /\ NextFrame = fromPico[1]
           /\ Answer[stage] \notin OnWay'
           /\ stage = "accepted" /\ Plain("PLAY_STARTED") \in OnWay' =>
                 /\ fromPico'[1] = Plain("PLAY_STARTED")
                 /\ \A i \in 2..Len(fromPico') : fromPico'[i] # Plain("PLAY_STARTED")
<1>1. /\ NextFrame = Answer[stage] /\ Fresh /\ fromPico # <<>> /\ toPico = <<>> /\ Counting
  BY AnswerIsNext DEF Counting
<1>2. Fresh' /\ fromPico' = Tail(fromPico) /\ NextFrame = fromPico[1] /\ OnWay' \subseteq OnWay
  BY <1>1, TakenFacts
<1>3. fromPico \in Seq(Frame)
  BY FullFacts DEF Links
<1> DEFINE t == Tail(fromPico)
<1>4. /\ t \in Seq(Frame) /\ Len(fromPico) \in Nat /\ Len(t) \in Nat /\ Len(t) = Len(fromPico) - 1
      /\ \A i \in 1..Len(t) : i + 1 \in 1..Len(fromPico) /\ t[i] = fromPico[i + 1]
  BY <1>1, <1>3, TailFrames
<1>5. OnWay' = Range(t)
  <2>1. deferred' = <<>> /\ pending' = <<>> /\ fromPico' = t
    BY <1>2 DEF Fresh
  <2> HIDE DEF t
  <2>2. Way' = (<<>> \o <<>>) \o t
    BY <2>1 DEF Way
  <2>3. <<>> \o <<>> = <<>> /\ <<>> \o t = t
    BY <1>4, ConcatEmptySeq, EmptyIsSeq
  <2> QED
    BY <2>2, <2>3 DEF OnWay
<1> HIDE DEF t
<1>6. /\ \A i \in 2..Len(fromPico) : fromPico[i] # Answer[stage]
      /\ stage = "accepted" /\ Plain("PLAY_STARTED") \in OnWay =>
            /\ Len(fromPico) > 1 /\ fromPico[2] = Plain("PLAY_STARTED")
            /\ \A i \in 3..Len(fromPico) : fromPico[i] # Plain("PLAY_STARTED")
  BY FullFacts DEF Answers
<1>7. Answer[stage] \notin Range(t)
  <2>1. ASSUME NEW i \in 1..Len(t) PROVE t[i] # Answer[stage]
    <3>1. i + 1 \in 2..Len(fromPico) /\ t[i] = fromPico[i + 1]
      BY <1>4
    <3> QED
      BY <1>6, <3>1
  <2> QED
    BY <1>4, <2>1, InRange
<1>8. ASSUME stage = "accepted", Plain("PLAY_STARTED") \in OnWay'
      PROVE  /\ t[1] = Plain("PLAY_STARTED")
             /\ \A i \in 2..Len(t) : t[i] # Plain("PLAY_STARTED")
  <2>1. /\ Len(fromPico) > 1 /\ fromPico[2] = Plain("PLAY_STARTED")
        /\ \A i \in 3..Len(fromPico) : fromPico[i] # Plain("PLAY_STARTED")
    BY <1>2, <1>6, <1>8
  <2>2. t[1] = fromPico[2]
    BY <1>4, <2>1
  <2>3. ASSUME NEW i \in 2..Len(t) PROVE t[i] # Plain("PLAY_STARTED")
    <3>1. i + 1 \in 3..Len(fromPico) /\ t[i] = fromPico[i + 1]
      BY <1>4
    <3> QED
      BY <2>1, <3>1
  <2> QED
    BY <2>1, <2>2, <2>3
<1>9. fromPico' = t
  BY <1>2 DEF t
<1> QED
  BY <1>1, <1>2, <1>5, <1>7, <1>8, <1>9

LEMMA WireSame ==
    ASSUME Links, toPico' = toPico \o <<>>
    PROVE  toPico' = toPico /\ <<>> \in Seq(Request)
<1> DEFINE X == Request
<1>1. toPico \in Seq(X)
  BY DEF Links
<1> HIDE DEF X
<1>2. toPico \o <<>> = toPico
  BY <1>1, ConcatEmptySeq
<1> QED
  BY <1>2, EmptyIsSeq

LEMMA NothingSet == \A i \in 1..Len(<<>>) : <<>>[i].type # "MODE_SET"
  BY EmptyIsSeq

LEMMA ReadyKept ==
    ASSUME Full, Apart, Ready
    PROVE  StreamInv'
<1>0. Links /\ Feeder /\ UNCHANGED <<mode, queue, ended, played, uartFault>> /\ Len(queue) \in Nat
  BY FullFacts, PicoSame
<1>1. /\ stage = "ready" /\ CanRead /\ Consume(deferred) /\ deferred' = <<>> /\ NextFrame.type = "PLAY_READY"
      /\ stage' = "endAck" /\ toPico' = toPico \o <<>>
      /\ UNCHANGED <<streaming, prebuffer, nextEvent, credit, batch, acksDue, staleCredit>>
  BY DEF Ready, Await, Wanted, Awaited, Proceed, progress
<1>2. Answer[stage] \in OnWay /\ stage \in DOMAIN Answer /\ stage \in Setup
  BY <1>1, ReadFacts, PlainFrame, AnswerFields DEF Setup
<1>3. /\ NextFrame = Answer[stage] /\ Fresh' /\ toPico = <<>> /\ Counting
      /\ fromPico # <<>> /\ fromPico' = Tail(fromPico) /\ NextFrame = fromPico[1]
      /\ Plain("PLAY_READY") \notin OnWay'
  BY <1>1, <1>2, AnswerRead, AnswerFields
<1>4. /\ fromPico' \in Seq(Frame) /\ pending' \in Seq(Frame) /\ deferred' \in Seq(Frame)
      /\ OnWay' \subseteq OnWay /\ (mode # "ERROR" => NewsIsLast')
  BY <1>1, TakenFacts
<1>5. toPico' = <<>> /\ Len(toPico') = 0 /\ <<>> \in Seq(Request)
  BY <1>0, <1>1, <1>3, WireSame, EmptyIsSeq
<1>6. Links'
  BY <1>1, <1>4, <1>5, ZeroLinks
<1>7. Feeder'
  <2>1. StopAt' = StopAt
    BY <1>1 DEF StopAt
  <2> QED
    BY <1>0, <1>1, <2>1 DEF Feeder, Early, Late, Stages, Awaited
<1>8. mode # "ERROR" => Rows'
  <2> SUFFICES ASSUME mode # "ERROR" PROVE Rows'
    OBVIOUS
  <2>1. Loading
    BY FullFacts DEF Rows
  <2>2. Loading'
    <3>1. nextEvent = TotalEvents /\ Len(queue) = nextEvent /\ ended
      BY <1>1, <1>2, <1>3, <2>1 DEF Loading
    <3>2. \A x \in OnWay' : IsStatus(x) \/ x = Plain("PLAY_READY")
      BY <1>2, <1>4, <2>1 DEF Loading
    <3>3. mode = "ARMED" /\ ~uartFault /\ played = 0
      BY <1>2, <2>1 DEF Loading
    <3> QED
      BY <1>0, <1>1, <1>3, <1>5, <3>1, <3>2, <3>3 DEF Loading, Fresh
  <2>3. ~Feeding' /\ stage' \notin Closing
    BY <1>1 DEF Feeding, Closing
  <2>4. Said'
    BY <1>1, <1>4, <1>5, <2>3, FullFacts, SaidShrinks DEF Rows
  <2> QED
    BY <1>1, <2>2, <2>3, <2>4, RowsAre
<1>9. mode = "ERROR" => Doomed'
  BY <1>1, <1>4, <1>5, NothingSet, DoomedKept
<1>10. Answers'
  BY <1>1, <1>2, <1>4, LoadingAnswers
<1>11. CreditInv'
  <2>1. NoEvents' /\ Len(toPico') =< PipelineWindow
    BY <1>5, StreamAssumption DEF NoEvents
  <2>2. ASSUME ~staleCredit PROVE Counted'
    <3>1. Counted /\ Due = 1 /\ Due' = 1
      BY <1>1, <1>3, <2>2, CountedHas DEF Due
    <3>2. Settled(fromPico, 1, Len(queue), credit) /\ fromPico \in Seq(Frame)
      BY <1>0, <1>3, <3>1 DEF Counted, Links
    <3>3. ~IsStatus(fromPico[1])
      BY <1>1, <1>3 DEF IsStatus
    <3>4. Settled(fromPico', 1, Len(queue), credit)
      BY <1>0, <1>3, <3>2, <3>3, SettledRead
    <3> HIDE DEF Settled, Outstanding
    <3>5. Settled(fromPico', Due', Len(queue'), credit') /\ Due' # 0
      BY <1>0, <1>1, <3>1, <3>4
    <3> QED
      BY <1>3, <1>5, <3>5, EmptyIsSeq DEF Counted, Fresh
  <2> QED
    BY <1>1, <1>5, <2>1, <2>2, ZeroCredit
<1> QED
  BY <1>6, <1>7, <1>8, <1>9, <1>10, <1>11, ZeroInv

LEMMA EndAckKept ==
    ASSUME Full, Apart, EndAcknowledged
    PROVE  StreamInv'
<1>0. Links /\ Feeder /\ Answers /\ UNCHANGED <<mode, queue, ended, played, uartFault>> /\ Len(queue) \in Nat
  BY FullFacts, PicoSame
<1>1. /\ stage = "endAck" /\ CanRead /\ Consume(deferred) /\ deferred' = <<>> /\ IsStatus(NextFrame)
  BY DEF EndAcknowledged, Await, Wanted, Awaited, IsStatus
<1>2. ~staleCredit /\ ~streaming /\ Counting /\ Due = 1 /\ stage \in Setup /\ Due > 0 /\ Due - 1 = 0
  BY <1>0, <1>1 DEF Feeder, Early, Counting, Due, Setup
<1>3. /\ NoStatus(pending') /\ toPico = <<>> /\ Settled(fromPico', 0, Len(queue), NextFrame.free)
      /\ NextFrame.free + Len(queue) =< QueueCapacity
  BY <1>1, <1>2, StatusRead
<1>4. /\ fromPico' \in Seq(Frame) /\ pending' \in Seq(Frame) /\ deferred' \in Seq(Frame)
      /\ OnWay' \subseteq OnWay /\ (mode # "ERROR" => NewsIsLast')
  BY <1>1, TakenFacts
<1>5. \A x \in OnWay : x # StartNews /\ x # Plain("PLAY_STARTED") /\ (IsStatus(x) => x.state = "ARMED")
  BY <1>0, <1>2, AnswerFields DEF Answers
<1>6. NextFrame.state = "ARMED"
  BY <1>1, <1>5, ReadFacts
<1> DEFINE c == Plain("PLAY_START")
<1>7. /\ stage' = "accepted" /\ toPico' = toPico \o <<c>> /\ credit' = NextFrame.free
      /\ UNCHANGED <<streaming, prebuffer, nextEvent, batch, acksDue, staleCredit>>
  BY <1>6 DEF EndAcknowledged, Proceed
<1>8. c \in Request /\ c.type # "QUEUE_EVENT" /\ c.type # "MODE_SET"
  BY DEF Request, Plain
<1> HIDE DEF c
<1>9. /\ toPico' = <<c>> /\ <<c>> \in Seq(Request) /\ Len(toPico') =< PipelineWindow
      /\ toPico' # <<>> /\ Len(toPico') = 1
      /\ \A i \in 1..Len(toPico') : i = 1 /\ toPico'[i] = c
  BY <1>0, <1>3, <1>7, <1>8, OneWritten
<1>10. Links'
  BY <1>4, <1>7, <1>9, ZeroLinks
<1>11. credit' \in 0..QueueCapacity
  BY <1>1, <1>7, ReadFacts, FrameFields
<1>12. Feeder'
  <2>1. StopAt' = StopAt
    BY <1>7 DEF StopAt
  <2> QED
    BY <1>0, <1>1, <1>7, <1>11, <2>1 DEF Feeder, Early, Late, Stages, Awaited
<1>13. NoStatus(fromPico') /\ \A i \in 1..Len(fromPico') : fromPico'[i] \in OnWay
  <2>1. OnWay' = Range(deferred') \cup Range(pending') \cup Range(fromPico')
    <3>1. Way' = (deferred' \o pending') \o fromPico'
      BY DEF Way
    <3>2. deferred' \o pending' \in Seq(Frame)
      BY <1>4, JoinedFrames
    <3> QED
      BY <1>4, <3>1, <3>2, RangeOfConcat DEF OnWay
  <2>2. \A i \in 1..Len(fromPico') : fromPico'[i] \in OnWay
    BY <1>4, <2>1, InRange
  <2>3. \A i \in 1..Len(fromPico') : IsStatus(fromPico'[i]) => fromPico'[i].state = "PLAYING"
    BY <1>0, <1>3, <1>4, SettledAtRest
  <2> QED
    BY <1>5, <2>2, <2>3 DEF NoStatus
<1>14. mode # "ERROR" => Rows'
  <2> SUFFICES ASSUME mode # "ERROR" PROVE Rows'
    OBVIOUS
  <2>1. Loading
    BY FullFacts DEF Rows
  <2>2. /\ mode = "ARMED" /\ ~uartFault /\ played = 0 /\ nextEvent = TotalEvents /\ Len(queue) = nextEvent /\ ended
        /\ Fresh /\ Plain("PLAY_READY") \notin OnWay
        /\ \A x \in OnWay : IsStatus(x) \/ x = Plain("PLAY_READY")
    BY <1>1, <1>2, <2>1 DEF Loading, Fresh
  <2>3. Fresh'
    BY <1>1, <2>2, TakenFacts
  <2>4. fromPico' = <<>>
    <3>1. Len(fromPico') \in Nat
      BY <1>4
    <3>2. ~(1 \in 1..Len(fromPico'))
      BY <1>13, <2>2 DEF NoStatus
    <3> QED
      BY <1>4, <3>1, <3>2
  <2>5. OnWay' = {} /\ NewsIsLast'
    BY <1>10, <2>3, <2>4, EmptyWay
  <2>6. nextEvent = prebuffer
    BY <1>0, <1>2, <2>2, StreamAssumption DEF Feeder, StopAt
  <2>7. Starting'
    <3>1. ~Over'
      BY <1>9 DEF Over
    <3> QED
      BY <1>0, <1>7, <1>9, <2>2, <2>3, <2>4, <2>6, <3>1 DEF Starting, c
  <2>8. ~Feeding' /\ stage' \notin Closing /\ stage' \notin Setup'
    BY <1>7 DEF Feeding, Closing, Setup
  <2>9. Said'
    BY <1>7, <2>5, <2>8 DEF Said, NewsIsLast, LastAt
  <2> QED
    BY <1>7, <2>7, <2>8, <2>9, RowsAre
<1>15. mode = "ERROR" => Doomed'
  <2>1. \A i \in 1..Len(<<c>>) : <<c>>[i].type # "MODE_SET"
    BY <1>8, <1>9
  <2> QED
    BY <1>4, <1>7, <1>9, <2>1, DoomedKept
<1>16. Answers'
  <2>1. StartNews \notin OnWay' /\ Plain("PLAY_STARTED") \notin OnWay'
    BY <1>4, <1>5
  <2>2. stage' \notin Setup'
    BY <1>7 DEF Setup
  <2> QED
    BY <1>7, <2>1, <2>2, AnswerFields DEF Answers
<1>17. CreditInv'
  <2>1. NoEvents'
    BY <1>8, <1>9 DEF NoEvents
  <2>2. Counted'
    <3>1. Due' = 0
      BY <1>7 DEF Due
    <3> DEFINE m == Due' - Len(toPico')
    <3>2. m \in Int
      BY <1>9, <3>1
    <3> HIDE DEF m
    <3>4. Outstanding(fromPico', m)
      BY <1>4, <1>13, <3>2, NoneOutstanding
    <3>5. \A i \in 1..Len(pending') : ~IsStatus(pending'[i])
      BY <1>3 DEF NoStatus
    <3>6. \A i \in 1..Len(deferred') : ~IsStatus(deferred'[i])
      BY <1>1, EmptyIsSeq
    <3>7. credit' + Len(queue') =< QueueCapacity
      BY <1>0, <1>3, <1>7
    <3> HIDE DEF Outstanding, Settled
    <3> QED
      BY <1>9, <3>4, <3>5, <3>6, <3>7 DEF Counted, m
  <2> QED
    BY <1>7, <1>9, <2>1, <2>2, ZeroCredit
<1> QED
  BY <1>10, <1>12, <1>14, <1>15, <1>16, <1>17, ZeroInv

LEMMA AcceptedKept ==
    ASSUME Full, Apart, Accepted
    PROVE  StreamInv'
<1>0. Links /\ Feeder /\ UNCHANGED <<mode, queue, ended, played, uartFault>> /\ Len(queue) \in Nat
  BY FullFacts, PicoSame
<1>1. /\ stage = "accepted" /\ CanRead /\ Consume(deferred) /\ deferred' = <<>>
      /\ NextFrame.type = "MODE_CHANGED" /\ ~IsError(NextFrame)
  BY DEF Accepted, Await, Wanted, Awaited
<1>2. /\ fromPico' \in Seq(Frame) /\ pending' \in Seq(Frame) /\ deferred' \in Seq(Frame)
      /\ OnWay' \subseteq OnWay /\ (mode # "ERROR" => NewsIsLast')
  BY <1>1, TakenFacts
<1>3. CASE NextFrame # StartNews
  <2>1. Fail
    BY <1>3 DEF Accepted, StartNews
  <2>2. mode # "ERROR" => Over
    <3> SUFFICES ASSUME mode # "ERROR" PROVE Over
      OBVIOUS
    <3>1. Said
      BY FullFacts DEF Rows
    <3>2. RunFrame(NextFrame) /\ NextFrame \in OnWay
      BY <1>1, <1>3, <3>1, ReadFacts DEF Said
    <3>3. NextFrame = FinishedNews
      BY <1>1, <3>2 DEF RunFrame, IsStatus, IsUnderrun
    <3> QED
      BY <3>1, <3>2, <3>3 DEF Said
  <2> QED
    BY <1>1, <1>2, <2>1, <2>2, FailKept DEF Over
<1>4. CASE NextFrame = StartNews
  <2>1. /\ stage' = "epoch" /\ toPico' = toPico \o <<>>
        /\ UNCHANGED <<streaming, prebuffer, nextEvent, credit, batch, acksDue, staleCredit>>
    BY <1>4 DEF Accepted, Proceed, progress, StartNews
  <2>2. Answer[stage] \in OnWay /\ stage \in DOMAIN Answer /\ Answer[stage] = StartNews
    BY <1>1, <1>4, ReadFacts, AnswerFields
  <2>3. /\ Fresh' /\ toPico = <<>> /\ Counting
        /\ fromPico # <<>> /\ fromPico' = Tail(fromPico) /\ NextFrame = fromPico[1]
        /\ StartNews \notin OnWay'
        /\ Plain("PLAY_STARTED") \in OnWay' =>
              /\ fromPico'[1] = Plain("PLAY_STARTED")
              /\ \A i \in 2..Len(fromPico') : fromPico'[i] # Plain("PLAY_STARTED")
    BY <1>1, <2>2, AnswerRead
  <2>4. toPico' = <<>> /\ Len(toPico') = 0 /\ <<>> \in Seq(Request)
    BY <1>0, <2>1, <2>3, WireSame, EmptyIsSeq
  <2>5. Links'
    BY <1>2, <2>1, <2>4, ZeroLinks
  <2>6. Feeder'
    <3>1. StopAt' = StopAt
      BY <2>1 DEF StopAt
    <3> QED
      BY <1>0, <1>1, <2>1, <3>1 DEF Feeder, Early, Late, Stages, Awaited
  <2>7. mode # "ERROR" => Rows'
    <3> SUFFICES ASSUME mode # "ERROR" PROVE Rows'
      OBVIOUS
    <3>1. Starting /\ Said
      BY FullFacts DEF Rows
    <3>2. (Running \/ Over) /\ (Over => nextEvent = TotalEvents)
      <4>1. toPico # <<Plain("PLAY_START")>>
        BY <2>3, LenOfOne, EmptyIsSeq
      <4> QED
        BY <1>1, <3>1, <4>1 DEF Starting
    <3>3. Running' = Running /\ Over' = Over
      BY <1>0, <2>1, <2>3, <2>4 DEF Running, Over
    <3>4. Starting'
      BY <1>0, <2>1, <2>4, <3>2, <3>3 DEF Starting
    <3>5. stage' \notin Setup' /\ ~Feeding' /\ stage' \notin Closing
      BY <2>1 DEF Setup, Feeding, Closing
    <3>6. Said'
      <4>1. \A x \in OnWay' : RunFrame(x)
        BY <1>1, <1>2, <2>3, <3>1 DEF Said
      <4> QED
        BY <1>2, <2>1, <2>4, <3>1, <4>1, SaidShrinks
    <3> QED
      BY <2>1, <3>4, <3>5, <3>6, RowsAre
  <2>8. mode = "ERROR" => Doomed'
    BY <1>2, <2>1, <2>4, NothingSet, DoomedKept
  <2>9. Answers'
    <3>1. stage' \notin Setup'
      BY <2>1 DEF Setup
    <3>2. Answer[stage'] = Plain("PLAY_STARTED")
      BY <2>1, AnswerFields
    <3> QED
      BY <2>1, <2>3, <2>4, <3>1, <3>2 DEF Answers
  <2>10. CreditInv'
    <3>1. NoEvents' /\ Len(toPico') =< PipelineWindow
      BY <2>4, StreamAssumption DEF NoEvents
    <3>2. ASSUME ~staleCredit PROVE Counted'
      <4>1. Counted /\ Due = 0 /\ Due' = 0
        BY <1>1, <2>1, <2>3, <3>2, CountedHas DEF Due
      <4>2. Settled(fromPico, 0, Len(queue), credit) /\ fromPico \in Seq(Frame)
        BY <1>0, <2>3, <4>1 DEF Counted, Links
      <4>3. ~IsStatus(fromPico[1])
        BY <1>1, <2>3 DEF IsStatus
      <4>4. Settled(fromPico', 0, Len(queue), credit)
        BY <1>0, <2>3, <4>2, <4>3, SettledRead
      <4>5. credit + Len(queue) =< QueueCapacity
        BY <4>1 DEF Counted
      <4> HIDE DEF Settled, Outstanding
      <4>6. Settled(fromPico', Due', Len(queue'), credit') /\ credit' + Len(queue') =< QueueCapacity
        BY <1>0, <2>1, <4>1, <4>4, <4>5
      <4> QED
        BY <2>3, <2>4, <4>6, EmptyIsSeq DEF Counted, Fresh
    <3> QED
      BY <2>1, <2>4, <3>1, <3>2, ZeroCredit
  <2> QED
    BY <2>5, <2>6, <2>7, <2>8, <2>9, <2>10, ZeroInv
<1> QED
  BY <1>3, <1>4

LEMMA EpochKept ==
    ASSUME Full, Apart, EpochKnown
    PROVE  StreamInv'
<1>0. Links /\ Feeder /\ UNCHANGED <<mode, queue, ended, played, uartFault>> /\ Len(queue) \in Nat
  BY FullFacts, PicoSame
<1>1. /\ stage = "epoch" /\ CanRead /\ Consume(deferred) /\ deferred' = <<>>
      /\ NextFrame.type = "PLAY_STARTED"
      /\ stage' = (IF nextEvent < TotalEvents THEN "feed" ELSE "outcome")
      /\ toPico' = toPico \o <<>> /\ streaming' = TRUE
      /\ UNCHANGED <<prebuffer, nextEvent, credit, batch, acksDue, staleCredit>>
  BY DEF EpochKnown, Await, Wanted, Awaited, Proceed
<1>2. /\ fromPico' \in Seq(Frame) /\ pending' \in Seq(Frame) /\ deferred' \in Seq(Frame)
      /\ OnWay' \subseteq OnWay /\ (mode # "ERROR" => NewsIsLast')
  BY <1>1, TakenFacts
<1>3. Answer[stage] \in OnWay /\ stage \in DOMAIN Answer
  BY <1>1, ReadFacts, PlainFrame, AnswerFields
<1>4. /\ Fresh' /\ toPico = <<>> /\ Counting
      /\ fromPico # <<>> /\ fromPico' = Tail(fromPico) /\ NextFrame = fromPico[1]
  BY <1>1, <1>3, AnswerRead
<1>5. toPico' = <<>> /\ Len(toPico') = 0 /\ <<>> \in Seq(Request)
  BY <1>0, <1>1, <1>4, WireSame, EmptyIsSeq
<1>6. stage' \in {"feed", "outcome"} /\ nextEvent \in 0..TotalEvents /\ TotalEvents \in Nat
  BY <1>0, <1>1, StreamAssumption DEF Feeder
<1>7. Links'
  BY <1>1, <1>2, <1>5, ZeroLinks
<1>8. Feeder'
  <2>1. StopAt' = TotalEvents
    BY <1>1 DEF StopAt
  <2>2. nextEvent' =< StopAt'
    BY <1>1, <1>6, <2>1
  <2> QED
    BY <1>0, <1>1, <1>6, <2>2 DEF Feeder, Early, Late, Stages, Awaited
<1>9. stage' \notin Setup' /\ stage' \notin DOMAIN Answer
  BY <1>1, <1>6, AnswerFields DEF Setup
<1>10. mode # "ERROR" => Rows'
  <2> SUFFICES ASSUME mode # "ERROR" PROVE Rows'
    OBVIOUS
  <2>1. Starting /\ Said
    BY FullFacts DEF Rows
  <2>2. (Running \/ Over) /\ (Over => nextEvent = TotalEvents)
    BY <1>1, <2>1 DEF Starting
  <2>3. NoModeSet'
    BY <1>5 DEF NoModeSet
  <2>4. Running => Events(nextEvent)'
    <3> SUFFICES ASSUME Running PROVE Events(nextEvent)'
      OBVIOUS
    <3>1. played + Len(queue) = nextEvent /\ played \in Nat
      BY FullFacts DEF Running
    <3>2. played' + Len(queue') + Len(toPico') = nextEvent'
      BY <1>0, <1>1, <1>5, <1>6, <3>1
    <3> QED
      BY <1>5, <3>2 DEF Events
  <2>5. Playing'
    <3>1. CASE stage' = "feed"
      <4>1. nextEvent < TotalEvents /\ nextEvent # TotalEvents
        BY <1>1, <1>6, <3>1
      <4>2. Running /\ mode = "PLAYING" /\ ~ended
        BY <2>2, <4>1 DEF Running
      <4> HIDE DEF Events, EventsThen
      <4> QED
        BY <1>0, <2>3, <2>4, <3>1, <4>2 DEF Playing, Closing
    <3>2. CASE stage' = "outcome"
      <4>1. nextEvent = TotalEvents
        BY <1>1, <1>6, <3>2
      <4>2. CASE Over
        <5>1. Over'
          BY <1>0, <1>5, <4>2 DEF Over
        <5> HIDE DEF Events, EventsThen
        <5> QED
          BY <1>1, <3>2, <4>1, <5>1 DEF Playing, Feeding
      <4>3. CASE Running
        <5>1. mode = "PLAYING" /\ ended /\ Events(nextEvent)'
          BY <2>4, <4>1, <4>3 DEF Running
        <5>2. Events(TotalEvents)'
          BY <1>1, <4>1, <5>1 DEF Events
        <5> HIDE DEF Events, EventsThen
        <5> QED
          BY <1>0, <1>1, <1>5, <2>3, <3>2, <4>1, <5>1, <5>2 DEF Playing, Feeding
      <4> QED
        BY <2>2, <4>2, <4>3
    <3> QED
      BY <1>6, <3>1, <3>2
  <2>6. Said'
    <3>1. \A x \in OnWay' : RunFrame(x) \/ x.type = "PLAY_READY"
      BY <1>1, <1>2, <2>1 DEF Said
    <3> QED
      BY <1>2, <1>5, <1>6, <2>1, <3>1, SaidShrinks
  <2> QED
    BY <1>6, <1>9, <2>5, <2>6, RowsAre
<1>11. mode = "ERROR" => Doomed'
  BY <1>1, <1>2, <1>5, <1>6, NothingSet, DoomedKept
<1>12. Answers'
  BY <1>9, NoAnswer
<1>13. CreditInv'
  <2>1. NoEvents' /\ Len(toPico') =< PipelineWindow
    BY <1>5, StreamAssumption DEF NoEvents
  <2>2. ASSUME ~staleCredit PROVE Counted'
    <3>1. Counted /\ Due = 0 /\ Due' = 0
      BY <1>1, <1>4, <1>6, <2>2, CountedHas DEF Due
    <3>2. Settled(fromPico, 0, Len(queue), credit) /\ fromPico \in Seq(Frame)
      BY <1>0, <1>4, <3>1 DEF Counted, Links
    <3>3. ~IsStatus(fromPico[1])
      BY <1>1, <1>4 DEF IsStatus
    <3>4. Settled(fromPico', 0, Len(queue), credit)
      BY <1>0, <1>4, <3>2, <3>3, SettledRead
    <3>5. credit + Len(queue) =< QueueCapacity
      BY <3>1 DEF Counted
    <3> HIDE DEF Settled, Outstanding
    <3>6. Settled(fromPico', Due', Len(queue'), credit') /\ credit' + Len(queue') =< QueueCapacity
      BY <1>0, <1>1, <3>1, <3>4, <3>5
    <3> QED
      BY <1>4, <1>5, <3>6, EmptyIsSeq DEF Counted, Fresh
  <2> QED
    BY <1>1, <1>5, <1>6, <2>1, <2>2, ZeroCredit
<1> QED
  BY <1>7, <1>8, <1>10, <1>11, <1>12, <1>13, ZeroInv

\* The stages of feeding, before the start of the run and during it.
Feeds == {"feed", "acks", "credit"}

LEMMA FeedFinds ==
    ASSUME Full, mode # "ERROR", stage \in Feeds
    PROVE  /\ ~ended /\ FinishedNews \notin OnWay /\ (~uartFault => Events(Sent))
           /\ ~streaming => stage \in Setup /\ Fresh /\ mode = "ARMED" /\ ~uartFault /\ played = 0
           /\ streaming => Feeding /\ mode = "PLAYING" /\ NoModeSet
           /\ \A x \in OnWay : IsStatus(x) => x.state = ExpectedState
<1>1. Rows /\ Answers /\ Feeder
  BY FullFacts
<1>2. CASE ~streaming
  <2>1. stage \in Setup /\ stage # "ready"
    BY <1>2 DEF Setup, Feeds
  <2>2. /\ pending = <<>> /\ deferred = <<>> /\ mode = "ARMED" /\ ~uartFault /\ played = 0 /\ ~ended /\ Events(Sent)
        /\ \A x \in OnWay : IsStatus(x) \/ x = Plain("PLAY_READY")
    BY <1>1, <2>1 DEF Rows, Loading, Sent, Feeds
  <2>3. ~IsStatus(FinishedNews) /\ FinishedNews # Plain("PLAY_READY")
    BY DEF IsStatus, FinishedNews, ModeChanged, Plain
  <2>4. \A x \in OnWay : IsStatus(x) => x.state = ExpectedState
    BY <1>1, <1>2, <2>1 DEF Answers, ExpectedState
  <2> QED
    BY <1>2, <2>1, <2>2, <2>3, <2>4 DEF Fresh
<1>3. CASE streaming
  <2>1. Feeding
    BY <1>3 DEF Feeding, Feeds
  <2>2. mode = "PLAYING" /\ ~ended /\ NoModeSet /\ (~uartFault => Events(Sent))
    BY <1>1, <2>1 DEF Rows, Playing, Sent
  <2>3. FinishedNews \notin OnWay
    BY <1>1, <2>2 DEF Rows, Said, Over
  <2>4. \A x \in OnWay : IsStatus(x) => x.state = ExpectedState
    <3>1. \A x \in OnWay : RunFrame(x) \/ x.type = "PLAY_READY"
      BY <1>1, <2>1 DEF Rows, Said
    <3> QED
      BY <1>3, <3>1 DEF RunFrame, ExpectedState, IsStatus, IsUnderrun, FinishedNews, ModeChanged
  <2> QED
    BY <1>3, <2>1, <2>2, <2>3, <2>4
<1> QED
  BY <1>2, <1>3

\* One of these stages follows on another.
LEMMA FeedRows ==
    ASSUME Full, Apart, mode # "ERROR", stage \in Feeds, stage' \in Feeds, streaming' = streaming,
           OnWay' \subseteq OnWay, NewsIsLast', Fresh => Fresh',
           ~uartFault /\ Events(Sent) => Events(Sent)', NoModeSet => NoModeSet'
    PROVE  Rows'
<1>0. UNCHANGED <<mode, queue, ended, played, uartFault>> /\ Rows
  BY FullFacts, PicoSame
<1>1. /\ ~ended /\ FinishedNews \notin OnWay /\ (~uartFault => Events(Sent)')
      /\ ~streaming => stage \in Setup /\ Fresh /\ mode = "ARMED" /\ ~uartFault /\ played = 0
      /\ streaming => Feeding /\ mode = "PLAYING" /\ NoModeSet
  BY FeedFinds
<1>2. stage' \in Setup' => Loading'
  <2> SUFFICES ASSUME stage' \in Setup' PROVE Loading'
    OBVIOUS
  <2>1. ~streaming
    BY DEF Setup, Feeds
  <2>2. \A x \in OnWay' : IsStatus(x) \/ x = Plain("PLAY_READY")
    BY <1>0, <1>1, <2>1 DEF Rows, Loading
  <2>3. stage' \in {"feed", "credit"} => Events(nextEvent)'
    BY <1>1, <2>1 DEF Sent
  <2>4. stage' = "acks" => Events(nextEvent + batch)'
    BY <1>1, <2>1 DEF Sent
  <2> HIDE DEF Events
  <2> QED
    BY <1>0, <1>1, <2>1, <2>2, <2>3, <2>4 DEF Loading, Fresh, Feeds
<1>3. Feeding' \/ stage' \in Closing => Playing'
  <2> SUFFICES ASSUME Feeding' PROVE Playing'
    BY DEF Feeds, Closing
  <2>1. streaming /\ stage' \notin Closing
    BY DEF Feeding, Closing, Feeds
  <2>2. ~uartFault' => Events(IF stage = "acks" THEN nextEvent + batch ELSE nextEvent)'
    BY <1>0, <1>1 DEF Sent
  <2> HIDE DEF Events
  <2> QED
    BY <1>0, <1>1, <2>1, <2>2 DEF Playing
<1>4. Said'
  <2>1. FinishedNews \notin OnWay'
    BY <1>1
  <2>2. Feeding' => \A x \in OnWay' : RunFrame(x) \/ x.type = "PLAY_READY"
    BY <1>0, <1>1 DEF Rows, Said, Feeding
  <2>3. stage' \notin {"epoch"} \cup Closing /\ stage' # "accepted"
    BY DEF Feeds, Closing
  <2> QED
    BY <1>0, <2>1, <2>2, <2>3, SaidShrinks DEF Rows
<1>5. stage' \notin {"begin", "arming", "accepted", "epoch", "returning", "done", "failed"}
  BY DEF Feeds
<1> QED
  BY <1>2, <1>3, <1>4, <1>5, RowsAre

LEMMA FeedAnswers ==
    ASSUME Full, stage \in Feeds, stage' \in Feeds, streaming' = streaming, OnWay' \subseteq OnWay
    PROVE  Answers'
<1>1. CASE stage \in Setup
  BY <1>1, LoadingAnswers DEF Feeds
<1>2. CASE stage \notin Setup
  <2>1. stage' \notin Setup'
    BY <1>2 DEF Setup, Feeds
  <2>2. stage' \notin DOMAIN Answer
    BY AnswerFields DEF Feeds
  <2> QED
    BY <2>1, <2>2, NoAnswer
<1> QED
  BY <1>1, <1>2

\* The events of a batch follow those that are on the wire.
LEMMA EventsGrow ==
    ASSUME Links, UNCHANGED <<queue, played>>, played \in Nat, Len(queue) \in Nat, NEW n \in Nat, NEW b \in Nat,
           NEW c, c \in Seq(Request), Len(c) = b, \A i \in 1..b : c[i] = Event(n + i),
           toPico' = toPico \o c, Events(n)
    PROVE  /\ played' + Len(queue') + Len(toPico') = n + b
           /\ \A i \in 1..Len(toPico') : toPico'[i] = Event(played' + Len(queue') + i)
<1>1. /\ Len(toPico') = Len(toPico) + Len(c) /\ Len(toPico) \in Nat
      /\ \A i \in 1..Len(toPico) : toPico'[i] = toPico[i]
      /\ \A i \in 1..(Len(toPico) + Len(c)) : i > Len(toPico) => i - Len(toPico) \in 1..Len(c) /\ toPico'[i] = c[i - Len(toPico)]
  BY WireGrows
<1> DEFINE k == played + Len(queue)
           l == Len(toPico)
<1>2. k \in Nat /\ l \in Nat /\ k + l = n /\ \A i \in 1..l : toPico[i] = Event(k + i)
  BY <1>1 DEF Events
<1>3. /\ Len(toPico') = l + b /\ \A i \in 1..l : toPico'[i] = toPico[i]
      /\ \A i \in 1..(l + b) : i > l => i - l \in 1..b /\ toPico'[i] = c[i - l]
      /\ played' + Len(queue') = k
  BY <1>1
<1> HIDE DEF k, l
<1>4. ASSUME NEW i \in 1..(l + b) PROVE toPico'[i] = Event(k + i)
  <2>1. CASE i =< l
    <3>1. i \in 1..l
      BY <1>2, <2>1
    <3> QED
      BY <1>2, <1>3, <3>1
  <2>2. CASE i > l
    <3>1. i - l \in 1..b /\ toPico'[i] = c[i - l]
      BY <1>3, <2>2
    <3>2. toPico'[i] = Event(n + (i - l))
      BY <3>1
    <3>3. n + (i - l) = k + i
      BY <1>2
    <3> QED
      BY <3>2, <3>3
  <2>3. i =< l \/ i > l
    BY <1>2
  <2> QED
    BY <2>1, <2>2, <2>3
<1>5. k + (l + b) = n + b
  BY <1>2
<1> QED
  BY <1>3, <1>4, <1>5

LEMMA BatchIs ==
    ASSUME Feeder, nextEvent < StopAt, credit > 0
    PROVE  /\ BatchCount \in Nat /\ BatchCount > 0 /\ BatchCount =< PipelineWindow /\ BatchCount =< credit
           /\ nextEvent + BatchCount =< StopAt /\ StopAt =< TotalEvents /\ StopAt \in Nat
<1>1. StopAt \in Nat /\ StopAt =< TotalEvents
  BY StreamAssumption DEF Feeder, StopAt
<1> DEFINE s == StopAt
<1>2. nextEvent \in Nat /\ credit \in Nat /\ PipelineWindow \in Nat /\ PipelineWindow > 0 /\ s \in Nat /\ nextEvent < s
  BY <1>1, StreamAssumption, CapacityAssumption DEF Feeder
<1>3. BatchCount = Least(PipelineWindow, Least(credit, s - nextEvent))
  BY DEF BatchCount
<1> HIDE DEF s
<1>4. BatchCount \in Nat /\ BatchCount > 0 /\ BatchCount =< PipelineWindow /\ BatchCount =< credit
           /\ nextEvent + BatchCount =< s
  BY <1>2, <1>3 DEF Least
<1> QED
  BY <1>1, <1>4 DEF s

LEMMA SendKept ==
    ASSUME Full, Apart, SendBatch
    PROVE  StreamInv'
<1>0. Links /\ Feeder /\ UNCHANGED <<mode, queue, ended, played, uartFault>> /\ Len(queue) \in Nat /\ played \in Nat
  BY FullFacts, PicoSame
<1> DEFINE b == BatchCount
           c == [i \in 1..b |-> Event(nextEvent + i)]
<1>1. /\ stage = "feed" /\ stage' = "acks" /\ nextEvent < StopAt /\ credit > 0
      /\ toPico' = toPico \o c /\ batch' = b /\ acksDue' = b
      /\ UNCHANGED <<fromPico, pending, deferred, streaming, prebuffer, nextEvent, credit, staleCredit>>
  BY DEF SendBatch, Proceed, Event
<1>2. /\ b \in Nat /\ b > 0 /\ b =< PipelineWindow /\ b =< credit
      /\ nextEvent + b =< StopAt /\ StopAt =< TotalEvents /\ StopAt \in Nat /\ nextEvent \in Nat /\ TotalEvents \in Nat
      /\ credit \in Nat /\ QueueCapacity \in Nat /\ PipelineWindow \in Nat
  BY <1>0, <1>1, BatchIs, FullFacts, StreamAssumption DEF Feeder
<1> HIDE DEF b
<1>3. /\ c \in Seq(Request) /\ Len(c) = b /\ \A i \in 1..b : c[i] = Event(nextEvent + i)
  <2>1. ASSUME NEW i \in 1..b PROVE Event(nextEvent + i) \in Request
    <3>1. nextEvent + i \in 1..TotalEvents
      BY <1>2
    <3> QED
      BY <3>1 DEF Request
  <2> DEFINE X == Request
  <2>2. \A i \in 1..b : Event(nextEvent + i) \in X
    BY <2>1
  <2> HIDE DEF X
  <2>3. c \in Seq(X) /\ Len(c) = b
    BY <1>2, <2>2
  <2>4. \A i \in 1..b : c[i] = Event(nextEvent + i)
    OBVIOUS
  <2> QED
    BY <2>3, <2>4 DEF X
<1> HIDE DEF c
<1>4. /\ Len(toPico') = Len(toPico) + b /\ Len(toPico) \in Nat
      /\ \A i \in 1..Len(toPico) : toPico'[i] = toPico[i]
      /\ \A i \in 1..(Len(toPico) + b) : i > Len(toPico) => i - Len(toPico) \in 1..b /\ toPico'[i] = c[i - Len(toPico)]
  BY <1>0, <1>1, <1>3, WireGrows
<1>5. Way' = Way /\ OnWay' = OnWay
  BY <1>1 DEF Way, OnWay
<1>6. stage \in Feeds /\ stage' \in Feeds
  BY <1>1 DEF Feeds
<1>7. Links'
  <2>1. fromPico' \in Seq(Frame) /\ pending' \in Seq(Frame) /\ deferred' \in Seq(Frame)
    BY <1>0, <1>1 DEF Links
  <2> QED
    BY <1>1, <1>3, <2>1, ZeroLinks
<1>8. Feeder'
  <2>1. StopAt' = StopAt
    BY <1>1 DEF StopAt
  <2>2. batch' \in 0..PipelineWindow /\ acksDue' \in 0..batch' /\ acksDue' > 0 /\ nextEvent' + batch' =< StopAt'
    BY <1>1, <1>2, <2>1
  <2> QED
    BY <1>0, <1>1, <2>1, <2>2 DEF Feeder, Early, Late, Stages, Awaited
<1>9. \A i \in 1..b : c[i].type = "QUEUE_EVENT"
  BY <1>3, RequestTypes
<1>10. mode # "ERROR" => Rows'
  <2> SUFFICES ASSUME mode # "ERROR" PROVE Rows'
    OBVIOUS
  <2>1. NewsIsLast'
    BY <1>5, FullFacts DEF Rows, Said, NewsIsLast, LastAt
  <2>2. Events(Sent) => Events(Sent)'
    <3> SUFFICES ASSUME Events(Sent) PROVE Events(Sent)'
      OBVIOUS
    <3>1. Events(nextEvent)
      BY <1>1 DEF Sent
    <3>2. /\ played' + Len(queue') + Len(toPico') = nextEvent + b
          /\ \A i \in 1..Len(toPico') : toPico'[i] = Event(played' + Len(queue') + i)
      BY <1>0, <1>1, <1>2, <1>3, <3>1, EventsGrow
    <3>3. Sent' = nextEvent + b
      BY <1>1 DEF Sent
    <3> QED
      BY <3>2, <3>3 DEF Events
  <2>3. NoModeSet => NoModeSet'
    <3> SUFFICES ASSUME NoModeSet, NEW i \in 1..(Len(toPico) + b) PROVE toPico'[i].type # "MODE_SET"
      BY <1>4 DEF NoModeSet
    <3>1. CASE i =< Len(toPico)
      <4>1. i \in 1..Len(toPico)
        BY <1>4, <3>1
      <4> QED
        BY <1>4, <4>1 DEF NoModeSet
    <3>2. CASE i > Len(toPico)
      BY <1>4, <1>9, <3>2
    <3> QED
      BY <1>2, <1>4, <3>1, <3>2
  <2>4. Fresh => Fresh'
    BY <1>1 DEF Fresh
  <2> QED
    BY <1>1, <1>5, <1>6, <2>1, <2>2, <2>3, <2>4, FeedRows
<1>11. mode = "ERROR" => Doomed'
  <2>1. \A i \in 1..Len(c) : c[i].type # "MODE_SET"
    BY <1>3, <1>9
  <2> QED
    BY <1>1, <1>3, <1>5, <2>1, DoomedKept
<1>12. Answers'
  BY <1>1, <1>5, <1>6, FeedAnswers
<1>13. CreditInv'
  <2> SUFFICES ASSUME ~staleCredit
               PROVE  /\ Len(toPico') =< PipelineWindow
                      /\ Len(queue) + Len(toPico') =< QueueCapacity
                      /\ Len(toPico') =< acksDue'
                      /\ Counted'
    BY <1>1, ZeroCredit
  <2>1. Counting /\ Due = 0
    BY <1>1 DEF Counting, Due
  <2>2. toPico = <<>> /\ Len(toPico) = 0
    BY <1>1, FullFacts, EmptyIsSeq DEF CreditInv, CountOK
  <2>3. Counted /\ credit + Len(queue) =< QueueCapacity /\ Settled(fromPico, 0, Len(queue), credit)
    BY <2>1, <2>2, CountedHas
  <2>4. Len(toPico') = b /\ toPico' # <<>>
    BY <1>2, <1>4, <2>2, EmptyIsSeq
  <2>5. NoStatus(fromPico) /\ fromPico \in Seq(Frame)
    BY <1>0, <1>1, <2>3, SettledAtRest DEF Links
  <2>6. Due' - Len(toPico') = 0 /\ Due' # 0
    BY <1>1, <1>2, <2>4 DEF Due
  <2>7. Outstanding(fromPico', Due' - Len(toPico'))
    BY <1>1, <2>5, <2>6, NoneOutstanding
  <2>8. Len(queue) + Len(toPico') =< QueueCapacity
    BY <1>0, <1>2, <2>3, <2>4
  <2>9. Counted'
    <3> HIDE DEF Outstanding, Settled
    <3> QED
      BY <1>1, <2>3, <2>4, <2>6, <2>7 DEF Counted
  <2> QED
    BY <1>1, <1>2, <2>4, <2>8, <2>9
<1> QED
  BY <1>7, <1>8, <1>10, <1>11, <1>12, <1>13, ZeroInv

LEMMA OutOfCreditKept ==
    ASSUME Full, Apart, OutOfCredit
    PROVE  StreamInv'
<1>0. Links /\ Feeder /\ UNCHANGED <<mode, queue, ended, played, uartFault>> /\ Len(queue) \in Nat
  BY FullFacts, PicoSame
<1>1. /\ stage = "feed" /\ stage' = "credit" /\ credit = 0 /\ toPico' = toPico \o <<>>
      /\ UNCHANGED <<fromPico, pending, deferred, streaming, prebuffer, nextEvent, credit, batch, acksDue, staleCredit>>
  BY DEF OutOfCredit, Proceed, progress
<1>2. toPico' = toPico /\ <<>> \in Seq(Request)
  BY <1>0, <1>1, WireSame
<1>3. Way' = Way /\ OnWay' = OnWay /\ stage \in Feeds /\ stage' \in Feeds
  BY <1>1 DEF Way, OnWay, Feeds
<1>4. Links'
  <2>1. fromPico' \in Seq(Frame) /\ pending' \in Seq(Frame) /\ deferred' \in Seq(Frame)
    BY <1>0, <1>1 DEF Links
  <2> QED
    BY <1>1, <1>2, <2>1, ZeroLinks
<1>5. Feeder'
  <2>1. StopAt' = StopAt
    BY <1>1 DEF StopAt
  <2> QED
    BY <1>0, <1>1, <2>1 DEF Feeder, Early, Late, Stages, Awaited
<1>6. mode # "ERROR" => Rows'
  <2> SUFFICES ASSUME mode # "ERROR" PROVE Rows'
    OBVIOUS
  <2>1. NewsIsLast'
    BY <1>3, FullFacts DEF Rows, Said, NewsIsLast, LastAt
  <2>2. Events(Sent) => Events(Sent)'
    <3>1. Sent' = Sent
      BY <1>1 DEF Sent
    <3> QED
      BY <1>0, <1>2, <3>1 DEF Events
  <2>3. NoModeSet => NoModeSet'
    BY <1>2 DEF NoModeSet
  <2>4. Fresh => Fresh'
    BY <1>1 DEF Fresh
  <2> QED
    BY <1>1, <1>3, <2>1, <2>2, <2>3, <2>4, FeedRows
<1>7. mode = "ERROR" => Doomed'
  BY <1>1, <1>2, <1>3, NothingSet, DoomedKept
<1>8. Answers'
  BY <1>1, <1>3, FeedAnswers
<1>9. CreditInv'
  <2> SUFFICES ASSUME ~staleCredit
               PROVE  /\ Len(toPico') =< PipelineWindow
                      /\ NoEvents' \/ Len(queue) + Len(toPico') =< QueueCapacity
                      /\ toPico' = <<>>
                      /\ Counted'
    BY <1>1, ZeroCredit
  <2>1. Counting /\ Due = 0 /\ Due' = 0
    BY <1>1 DEF Counting, Due
  <2>2. toPico = <<>> /\ Len(toPico) =< PipelineWindow
    BY <1>1, FullFacts DEF CreditInv, CountOK
  <2>3. Counted
    BY <2>1, CountedHas
  <2>4. Counted'
    <3>1. /\ \A i \in 1..Len(pending') : ~IsStatus(pending'[i])
          /\ \A i \in 1..Len(deferred') : ~IsStatus(deferred'[i])
      BY <1>1, <2>3 DEF Counted
    <3>2. credit' + Len(queue') =< QueueCapacity /\ Settled(fromPico', Due', Len(queue'), credit')
      BY <1>0, <1>1, <2>1, <2>2, <2>3 DEF Counted
    <3> HIDE DEF Outstanding, Settled
    <3> QED
      BY <1>2, <2>2, <3>1, <3>2 DEF Counted
  <2>5. NoEvents'
    BY <1>2, <2>2, EmptyIsSeq DEF NoEvents
  <2> QED
    BY <1>2, <2>2, <2>4, <2>5
<1> QED
  BY <1>4, <1>5, <1>6, <1>7, <1>8, <1>9, ZeroInv

LEMMA AllSentKept ==
    ASSUME Full, Apart, AllSent
    PROVE  StreamInv'
<1>0. Links /\ Feeder /\ UNCHANGED <<mode, queue, ended, played, uartFault>> /\ Len(queue) \in Nat /\ played \in Nat
  BY FullFacts, PicoSame
<1> DEFINE c == Plain("QUEUE_END")
<1>1. /\ stage = "feed" /\ stage' = "outcome" /\ streaming /\ nextEvent = TotalEvents /\ toPico' = toPico \o <<c>>
      /\ UNCHANGED <<fromPico, pending, deferred, streaming, prebuffer, nextEvent, credit, batch, acksDue, staleCredit>>
  BY DEF AllSent, Proceed, progress
<1>2. c \in Request /\ c.type # "QUEUE_EVENT" /\ c.type # "MODE_SET"
  BY DEF Request, Plain
<1>3. c = Plain("QUEUE_END")
  OBVIOUS
<1> HIDE DEF c
<1>4. <<c>> \in Seq(Request) /\ Len(<<c>>) = 1 /\ \A i \in 1..Len(<<c>>) : i = 1 /\ <<c>>[i] = c
  BY <1>2, OneOnWire
<1>5. /\ Len(toPico') = Len(toPico) + 1 /\ Len(toPico) \in Nat
      /\ \A i \in 1..Len(toPico) : toPico'[i] = toPico[i]
      /\ \A i \in 1..(Len(toPico) + 1) : i > Len(toPico) => toPico'[i] = c
  <2> DEFINE d == <<c>>
  <2>1. d \in Seq(Request) /\ Len(d) = 1 /\ toPico' = toPico \o d /\ \A i \in 1..Len(d) : d[i] = c
    BY <1>1, <1>4
  <2> HIDE DEF d
  <2>2. /\ Len(toPico') = Len(toPico) + Len(d) /\ Len(toPico) \in Nat
        /\ \A i \in 1..Len(toPico) : toPico'[i] = toPico[i]
        /\ \A i \in 1..(Len(toPico) + Len(d)) : i > Len(toPico) => i - Len(toPico) \in 1..Len(d) /\ toPico'[i] = d[i - Len(toPico)]
    BY <1>0, <2>1, WireGrows
  <2> QED
    BY <2>1, <2>2
<1>6. Way' = Way /\ OnWay' = OnWay
  BY <1>1 DEF Way, OnWay
<1>7. Links'
  <2>1. fromPico' \in Seq(Frame) /\ pending' \in Seq(Frame) /\ deferred' \in Seq(Frame)
    BY <1>0, <1>1 DEF Links
  <2> QED
    BY <1>1, <1>4, <2>1, ZeroLinks
<1>8. Feeder'
  <2>1. StopAt' = StopAt
    BY <1>1 DEF StopAt
  <2> QED
    BY <1>0, <1>1, <2>1 DEF Feeder, Early, Late, Stages, Awaited
<1>9. mode # "ERROR" => Rows'
  <2> SUFFICES ASSUME mode # "ERROR" PROVE Rows'
    OBVIOUS
  <2>1. Feeding /\ mode = "PLAYING" /\ ~ended /\ NoModeSet /\ (~uartFault => Events(Sent)) /\ FinishedNews \notin OnWay
    BY <1>1, FeedFinds DEF Feeds
  <2>2. NoModeSet'
    <3> SUFFICES ASSUME NEW i \in 1..(Len(toPico) + 1) PROVE toPico'[i].type # "MODE_SET"
      BY <1>5 DEF NoModeSet
    <3>1. CASE i =< Len(toPico)
      <4>1. i \in 1..Len(toPico)
        BY <1>5, <3>1
      <4> QED
        BY <1>5, <2>1, <4>1 DEF NoModeSet
    <3>2. CASE i > Len(toPico)
      BY <1>2, <1>5, <3>2
    <3>3. i =< Len(toPico) \/ i > Len(toPico)
      BY <1>5
    <3> QED
      BY <3>1, <3>2, <3>3
  <2>3. Events(Sent) => EventsThen(TotalEvents, Plain("QUEUE_END"))'
    <3> SUFFICES ASSUME Events(Sent) PROVE EventsThen(TotalEvents, c)'
      BY <1>3
    <3>1. played + Len(queue) + Len(toPico) = TotalEvents /\ \A i \in 1..Len(toPico) : toPico[i] = Event(played + Len(queue) + i)
      BY <1>1 DEF Sent, Events
    <3>2. toPico' # <<>> /\ toPico'[Len(toPico')] = c
      <4>1. Len(toPico) + 1 \in 1..(Len(toPico) + 1) /\ Len(toPico) + 1 > Len(toPico) /\ Len(toPico) + 1 # 0
        BY <1>5
      <4> QED
        BY <1>5, <4>1, EmptyIsSeq
    <3>3. played' + Len(queue') + Len(toPico') - 1 = TotalEvents /\ Len(toPico') - 1 = Len(toPico)
      BY <1>0, <1>5, <3>1
    <3>4. \A i \in 1..Len(toPico) : toPico'[i] = Event(played' + Len(queue') + i)
      BY <1>0, <1>5, <3>1
    <3> QED
      BY <3>2, <3>3, <3>4, <1>3 DEF EventsThen
  <2>4. Playing'
    <3>1. ~Feeding'
      BY <1>1 DEF Feeding
    <3> HIDE DEF Events, EventsThen
    <3> QED
      BY <1>0, <1>1, <2>1, <2>2, <2>3, <3>1 DEF Playing
  <2>5. Said'
    <3>1. NewsIsLast' /\ Said
      BY <1>6, FullFacts DEF Rows, Said, NewsIsLast, LastAt
    <3>2. \A x \in OnWay' : RunFrame(x) \/ x.type = "PLAY_READY"
      BY <1>6, <2>1, <3>1 DEF Said
    <3> QED
      BY <1>1, <1>6, <2>1, <3>1, <3>2, SaidShrinks
  <2>6. stage' \notin Setup'
    BY <1>1 DEF Setup
  <2> QED
    BY <1>1, <2>4, <2>5, <2>6, RowsAre
<1>10. mode = "ERROR" => Doomed'
  <2>1. \A i \in 1..Len(<<c>>) : <<c>>[i].type # "MODE_SET"
    BY <1>2, <1>4
  <2> QED
    BY <1>1, <1>4, <1>6, <2>1, DoomedKept
<1>11. Answers'
  <2>1. stage' \notin DOMAIN Answer /\ stage' \notin Setup'
    BY <1>1, AnswerFields DEF Setup
  <2> QED
    BY <2>1, NoAnswer
<1>12. CreditInv'
  <2>1. ~Counting'
    BY <1>1, AnswerFields DEF Counting
  <2>2. ASSUME ~staleCredit PROVE NoEvents' /\ Len(toPico') =< PipelineWindow
    <3>1. toPico = <<>>
      BY <1>1, <2>2, FullFacts DEF CreditInv, CountOK
    <3>2. /\ Len(toPico') =< PipelineWindow /\ \A i \in 1..Len(toPico') : i = 1 /\ toPico'[i] = c
      BY <1>0, <1>1, <1>2, <3>1, OneWritten
    <3> QED
      BY <1>2, <3>2 DEF NoEvents
  <2> QED
    BY <1>1, <2>1, <2>2, ZeroUncounted
<1> QED
  BY <1>7, <1>8, <1>9, <1>10, <1>11, <1>12, ZeroInv

LEMMA AcknowledgedKept ==
    ASSUME Full, Apart, Acknowledged
    PROVE  StreamInv'
<1>0. Links /\ Feeder /\ UNCHANGED <<mode, queue, ended, played, uartFault>> /\ Len(queue) \in Nat /\ Len(toPico) \in Nat
  BY FullFacts, PicoSame
<1>1. /\ stage = "acks" /\ CanRead /\ Consume(deferred) /\ deferred' = <<>> /\ IsStatus(NextFrame)
  BY DEF Acknowledged, Await, Wanted, Awaited, IsStatus
<1>2. stage \in Feeds /\ Counting /\ Due = acksDue /\ acksDue > 0 /\ acksDue \in Nat
      /\ batch \in Nat /\ acksDue =< batch /\ nextEvent \in Nat /\ nextEvent + batch =< StopAt
  BY <1>0, <1>1, StreamAssumption DEF Feeder, Counting, Due, Feeds
<1>3. /\ fromPico' \in Seq(Frame) /\ pending' \in Seq(Frame) /\ deferred' \in Seq(Frame)
      /\ OnWay' \subseteq OnWay /\ (mode # "ERROR" => NewsIsLast') /\ (Fresh => Fresh')
  BY <1>1, TakenFacts
<1>4. CASE Fail
  <2>1. mode = "ERROR"
    <3> SUFFICES ASSUME mode # "ERROR" PROVE FALSE
      OBVIOUS
    <3>1. NextFrame.state = ExpectedState
      BY <1>1, <1>2, FeedFinds, ReadFacts
    <3>2. stage' = "failed" /\ stage' \in {"acks", "feed"}
      BY <1>4, <3>1 DEF Fail, Acknowledged, Proceed
    <3> QED
      BY <3>2
  <2> QED
    BY <1>1, <1>3, <1>4, <2>1, FailKept
<1>5. CASE ~Fail
  <2>1. /\ toPico' = toPico \o <<>> /\ credit' = NextFrame.free /\ acksDue' = acksDue - 1
        /\ stage' = (IF acksDue > 1 THEN "acks" ELSE "feed")
        /\ nextEvent' = (IF acksDue > 1 THEN nextEvent ELSE nextEvent + batch)
        /\ UNCHANGED <<streaming, prebuffer, batch, staleCredit>>
    BY <1>5 DEF Acknowledged, Proceed
  <2>2. toPico' = toPico /\ <<>> \in Seq(Request)
    BY <1>0, <2>1, WireSame
  <2>3. stage' \in Feeds /\ Sent' = Sent /\ StopAt' = StopAt
    BY <1>1, <2>1 DEF Feeds, Sent, StopAt
  <2>4. credit' \in 0..QueueCapacity
    BY <1>1, <2>1, ReadFacts, FrameFields
  <2>5. Links'
    BY <1>3, <2>1, <2>2, ZeroLinks
  <2>6. StopAt \in Nat /\ StopAt =< TotalEvents /\ TotalEvents \in Nat
    BY <1>0, StreamAssumption DEF Feeder, StopAt
  <2>7. /\ nextEvent' \in 0..TotalEvents /\ nextEvent' =< StopAt' /\ acksDue' \in 0..batch
        /\ stage' = "acks" => acksDue' > 0 /\ nextEvent' + batch =< StopAt
        /\ stage' # "acks" => acksDue' = 0
    <3> DEFINE s == StopAt
    <3>1. s \in Nat /\ s =< TotalEvents /\ nextEvent + batch =< s
      BY <1>2, <2>6
    <3> HIDE DEF s
    <3>2. CASE acksDue > 1
      <4>1. nextEvent' = nextEvent /\ acksDue' = acksDue - 1 /\ stage' = "acks"
        BY <2>1, <3>2
      <4>2. nextEvent' \in 0..TotalEvents /\ nextEvent' =< s /\ acksDue' \in 0..batch /\ acksDue' > 0 /\ nextEvent' + batch =< s
        BY <1>2, <2>6, <3>1, <3>2, <4>1
      <4> QED
        BY <2>3, <4>1, <4>2 DEF s
    <3>3. CASE ~(acksDue > 1)
      <4>1. nextEvent' = nextEvent + batch /\ acksDue' = 0 /\ stage' = "feed"
        BY <1>2, <2>1, <3>3
      <4>2. nextEvent' \in 0..TotalEvents /\ nextEvent' =< s /\ acksDue' \in 0..batch
        BY <1>2, <2>6, <3>1, <4>1
      <4> QED
        BY <2>3, <4>1, <4>2 DEF s
    <3> QED
      BY <3>2, <3>3
  <2>8. Feeder'
    BY <1>0, <1>1, <2>1, <2>3, <2>4, <2>7 DEF Feeder, Early, Late, Stages, Awaited, Feeds
  <2>9. mode # "ERROR" => Rows'
    <3> SUFFICES ASSUME mode # "ERROR" PROVE Rows'
      OBVIOUS
    <3>1. Events(Sent) => Events(Sent)'
      BY <1>0, <2>2, <2>3 DEF Events
    <3>2. NoModeSet => NoModeSet'
      BY <2>2 DEF NoModeSet
    <3> QED
      BY <1>2, <1>3, <2>1, <2>3, <3>1, <3>2, FeedRows
  <2>10. mode = "ERROR" => Doomed'
    <3>1. stage' \notin {"begin", "arming", "returning", "done"}
      BY <2>3 DEF Feeds
    <3> QED
      BY <1>3, <2>1, <2>2, <3>1, NothingSet, DoomedKept
  <2>11. Answers'
    BY <1>2, <1>3, <2>1, <2>3, FeedAnswers
  <2>12. CreditInv'
    <3> SUFFICES ASSUME ~staleCredit
                 PROVE  /\ Len(toPico') =< PipelineWindow
                        /\ NoEvents' \/ Len(queue) + Len(toPico') =< QueueCapacity
                        /\ stage' \in {"feed", "credit"} => toPico' = <<>>
                        /\ stage' = "acks" => Len(toPico') =< acksDue'
                        /\ stage' \notin {"begin", "arming", "credit"}
                        /\ Counted'
      BY <2>1, ZeroCredit
    <3>1. Len(toPico) =< PipelineWindow /\ (NoEvents \/ Len(queue) + Len(toPico) =< QueueCapacity)
      BY FullFacts DEF CreditInv, CountOK
    <3>2. NoEvents' = NoEvents
      BY <2>2 DEF NoEvents
    <3>3. /\ NoStatus(pending')
          /\ toPico # <<>> => Outstanding(fromPico', (Due - 1) - Len(toPico)) /\ Len(toPico) =< Due - 1
          /\ toPico = <<>> => /\ Settled(fromPico', Due - 1, Len(queue), NextFrame.free)
                              /\ Due = 1 => NextFrame.free + Len(queue) =< QueueCapacity
          /\ Due = 1 => toPico = <<>>
      BY <1>1, <1>2, StatusRead
    <3>4. Due' = Due - 1
      BY <1>2, <2>1 DEF Due
    <3>5. Due' = 0 => Due = 1
      BY <1>2, <3>4
    <3>6. stage' = "feed" => Due = 1
      BY <1>2, <2>1
    <3>7. stage' = "acks" => Len(toPico') =< acksDue'
      <4>1. CASE toPico = <<>>
        BY <1>2, <2>1, <2>2, <4>1, EmptyIsSeq
      <4>2. CASE toPico # <<>>
        BY <1>2, <2>1, <2>2, <3>3, <4>2
      <4> QED
        BY <4>1, <4>2
    <3>8. Counted'
      <4>1. \A i \in 1..Len(pending') : ~IsStatus(pending'[i])
        BY <3>3 DEF NoStatus
      <4>2. \A i \in 1..Len(deferred') : ~IsStatus(deferred'[i])
        BY <1>1, EmptyIsSeq
      <4>3. Due' = 0 => credit' + Len(queue') =< QueueCapacity
        BY <1>0, <2>1, <3>3, <3>5
      <4>4. toPico' # <<>> => Outstanding(fromPico', Due' - Len(toPico'))
        BY <2>2, <3>3, <3>4
      <4>5. toPico' = <<>> => Settled(fromPico', Due', Len(queue'), credit')
        BY <1>0, <2>1, <2>2, <3>3, <3>4
      <4> HIDE DEF Outstanding, Settled
      <4> QED
        BY <4>1, <4>2, <4>3, <4>4, <4>5 DEF Counted
    <3> QED
      BY <2>1, <2>2, <3>1, <3>2, <3>3, <3>6, <3>7, <3>8
  <2> QED
    BY <2>5, <2>8, <2>9, <2>10, <2>11, <2>12, ZeroInv
<1> QED
  BY <1>4, <1>5

\* No notice of a run is on its way while the queue is being loaded.
NoNotices == stage \in Setup => \A x \in OnWay : ~IsUnderrun(x)

\* A frame is dropped, and those passed over stay so.
LEMMA WayDropped ==
    ASSUME Links, CanRead, Consume(<<>>), deferred' = deferred
    PROVE  /\ Removed(Way', Way, Len(deferred) + 1) /\ OnWay' \subseteq OnWay
           /\ pending' \in Seq(Frame) /\ fromPico' \in Seq(Frame) /\ deferred' \in Seq(Frame)
           /\ pending = <<>> => pending' = <<>>
<1> DEFINE X == Frame
<1>1. pending \in Seq(X) /\ fromPico \in Seq(X) /\ deferred \in Seq(X) /\ <<>> \in Seq(X)
  BY DEF Links
<1>2. /\ pending = <<>> => pending' = <<>> /\ fromPico' = Tail(fromPico) /\ fromPico # <<>>
      /\ pending # <<>> => pending' = <<>> \o Tail(pending) /\ fromPico' = fromPico
  BY NextIsOnWay DEF Consume
<1> HIDE DEF X
<1>3. Way = Through(deferred, pending, fromPico) /\ Way' = Through(deferred, pending', fromPico')
  BY DEF Way, Through
<1>4. ASSUME pending = <<>>
      PROVE  Removed(Way', Way, Len(deferred) + 1) /\ pending' \in Seq(X) /\ fromPico' \in Seq(X)
  <2>1. fromPico # <<>> /\ Tail(fromPico) \in Seq(X)
    BY <1>1, <1>2, <1>4, HeadTailProperties
  <2>2. Removed(Through(deferred, <<>>, Tail(fromPico)), Through(deferred, <<>>, fromPico),
                Len(deferred) + Len(<<>>) + 1)
    BY <1>1, <2>1, ThroughLost
  <2>3. Len(deferred) + Len(<<>>) + 1 = Len(deferred) + 1
    BY <1>1, LenProperties
  <2> QED
    BY <1>1, <1>2, <1>3, <1>4, <2>1, <2>2, <2>3
<1>5. ASSUME pending # <<>>
      PROVE  Removed(Way', Way, Len(deferred) + 1) /\ pending' \in Seq(X) /\ fromPico' \in Seq(X)
  <2>1. Tail(pending) \in Seq(X)
    BY <1>1, <1>5, HeadTailProperties
  <2>2. Removed(Through(deferred, Tail(pending), fromPico), Through(deferred, pending, fromPico), Len(deferred) + 1)
    BY <1>1, <1>5, ThroughTaken
  <2>3. <<>> \o Tail(pending) = Tail(pending)
    BY <2>1, ConcatEmptySeq
  <2> QED
    BY <1>1, <1>2, <1>3, <1>5, <2>1, <2>2, <2>3
<1>6. Removed(Way', Way, Len(deferred) + 1) /\ pending' \in Seq(Frame) /\ fromPico' \in Seq(Frame)
  BY <1>4, <1>5 DEF X
<1>7. OnWay' \subseteq OnWay
  <2>1. Way \in Seq(Frame) /\ Way' \in Seq(Frame)
    <3>1. Way' = (deferred \o pending') \o fromPico' /\ deferred \o pending' \in Seq(Frame)
      BY <1>1, <1>6, JoinedFrames DEF Way, X
    <3> QED
      BY <1>6, <3>1, WayFrames, JoinedFrames
  <2>2. ASSUME NEW x \in Range(Way') PROVE x \in Range(Way)
    <3>1. PICK i \in 1..Len(Way') : Way'[i] = x
      BY <2>1, <2>2, InRange
    <3>2. \E j \in 1..Len(Way) : Way[j] = x
      <4>1. Len(Way) \in Nat /\ Len(Way') = Len(Way) - 1
        BY <1>6, WayFrames DEF Removed
      <4>2. i \in 1..Len(Way) /\ i + 1 \in 1..Len(Way)
        BY <4>1
      <4> QED
        BY <1>6, <3>1, <4>2 DEF Removed
    <3> QED
      BY <2>1, <3>2, InRange
  <2> QED
    BY <2>2 DEF OnWay
<1> QED
  BY <1>1, <1>2, <1>6, <1>7 DEF X

\* What a wait for credit finds on the wire, as long as it has not been misled.
LEMMA NoticeRead ==
    ASSUME Full, stage = "credit", CanRead, ~staleCredit, IsStatus(NextFrame) \/ IsUnderrun(NextFrame),
           IsUnderrun(NextFrame) => pending = <<>>
    PROVE  /\ pending = <<>> /\ toPico = <<>> /\ NextFrame.free # 0 /\ Counted
           /\ NextFrame.free + Len(queue) =< QueueCapacity
           /\ Settled(Tail(fromPico), 0, Len(queue), NextFrame.free)
<1>0. Links /\ Len(queue) \in Nat /\ QueueCapacity \in Nat \ {0} /\ fromPico \in Seq(Frame) /\ pending \in Seq(Frame)
  BY FullFacts DEF Links
<1>1. Counting /\ Due = 0
  BY DEF Counting, Due
<1>2. Counted /\ toPico = <<>>
  BY <1>1, CountedHas, FullFacts DEF CreditInv, CountOK
<1>3. pending = <<>>
  <2> SUFFICES ASSUME pending # <<>> PROVE FALSE
    OBVIOUS
  <2>1. NextFrame = pending[1] /\ 1 \in 1..Len(pending)
    BY <1>0, ReadFacts
  <2> QED
    BY <1>2, <2>1 DEF Counted
<1>4. fromPico # <<>> /\ NextFrame = fromPico[1] /\ NextFrame \in Frame
  BY <1>3, ReadFacts
<1>5. Settled(fromPico, 0, Len(queue), credit)
  BY <1>1, <1>2 DEF Counted
<1>6. /\ \A i \in 1..Len(fromPico) : IsStatus(fromPico[i]) => fromPico[i].free > 0 /\ fromPico[i].free + Len(queue) =< QueueCapacity
      /\ \A i, j \in 1..Len(fromPico) : IsStatus(fromPico[i]) /\ IsStatus(fromPico[j]) => i = j
      /\ NoUnderrun(fromPico) \/ Len(queue) = 0
      /\ \A j \in 1..Len(fromPico) : IsUnderrun(fromPico[j]) => \A k \in (j + 1)..Len(fromPico) : ~IsStatus(fromPico[k])
  BY <1>0, <1>5, SettledAtRest
<1> DEFINE t == Tail(fromPico)
<1>7. /\ t \in Seq(Frame) /\ Len(fromPico) \in Nat /\ Len(fromPico) > 0 /\ Len(t) = Len(fromPico) - 1
      /\ \A i \in 1..Len(t) : i + 1 \in 1..Len(fromPico) /\ t[i] = fromPico[i + 1]
  BY <1>0, <1>4, TailFrames
<1> HIDE DEF t
<1>8. 1 \in 1..Len(fromPico)
  BY <1>7
<1>9. NoStatus(t)
  <2>1. ASSUME NEW i \in 1..Len(t) PROVE ~IsStatus(t[i])
    <3>1. i + 1 \in 1..Len(fromPico) /\ t[i] = fromPico[i + 1] /\ i + 1 # 1 /\ i + 1 \in (1 + 1)..Len(fromPico)
      BY <1>7
    <3>2. CASE IsStatus(fromPico[1])
      BY <1>6, <1>8, <3>1, <3>2
    <3>3. CASE IsUnderrun(fromPico[1])
      BY <1>6, <1>8, <3>1, <3>3
    <3> QED
      BY <1>4, <3>2, <3>3
  <2> QED
    BY <2>1 DEF NoStatus
<1>10. NoUnderrun(t) \/ Len(queue) = 0
  BY <1>6, <1>7 DEF NoUnderrun
<1>11. Settled(t, 0, Len(queue), NextFrame.free)
  BY <1>0, <1>7, <1>9, <1>10, NoneSettled
<1>12. NextFrame.free # 0 /\ NextFrame.free + Len(queue) =< QueueCapacity
  <2>1. CASE IsStatus(NextFrame)
    <3>1. NextFrame.free \in 0..QueueCapacity
      BY <1>4, <2>1, FrameFields
    <3>2. NextFrame.free > 0 /\ NextFrame.free + Len(queue) =< QueueCapacity
      BY <1>4, <1>6, <1>8, <2>1
    <3> QED
      BY <3>1, <3>2
  <2>2. CASE IsUnderrun(NextFrame)
    <3>1. NextFrame.free = QueueCapacity
      BY <1>4, <2>2, FrameFields
    <3>2. Len(queue) = 0
      BY <1>4, <1>6, <1>8, <2>2 DEF NoUnderrun
    <3> QED
      BY <1>0, <3>1, <3>2
  <2> QED
    BY <2>1, <2>2
<1> QED
  BY <1>2, <1>3, <1>11, <1>12 DEF t

LEMMA CreditNoticeKept ==
    ASSUME Full, NoNotices, Apart, CreditNotice
    PROVE  StreamInv'
<1>0. Links /\ Feeder /\ UNCHANGED <<mode, queue, ended, played, uartFault>> /\ Len(queue) \in Nat /\ QueueCapacity \in Nat \ {0}
  BY FullFacts, PicoSame
<1>1. stage = "credit" /\ CanRead /\ (IsStatus(NextFrame) \/ IsUnderrun(NextFrame)) /\ stage \in Feeds
      /\ NextFrame \in Frame /\ NextFrame \in OnWay
  BY ReadFacts DEF CreditNotice, Wanted, IsStatus, IsUnderrun, Feeds
<1>2. CASE IsStatus(NextFrame) /\ NextFrame.state # ExpectedState
  <2>1. mode = "ERROR"
    BY <1>1, <1>2, FeedFinds
  <2>2. Consume(deferred) /\ deferred' = <<>> /\ Fail
    BY <1>2 DEF CreditNotice, IsStatus
  <2>3. /\ fromPico' \in Seq(Frame) /\ pending' \in Seq(Frame) /\ OnWay' \subseteq OnWay
    BY <1>1, <2>2, TakenFacts
  <2> QED
    BY <2>1, <2>2, <2>3, FailKept
<1>3. CASE ~(IsStatus(NextFrame) /\ NextFrame.state # ExpectedState) /\ NextFrame.free = 0
  <2>1. /\ Consume(<<>>)
        /\ UNCHANGED <<toPico, deferred, stage, streaming, prebuffer, nextEvent, credit, batch, acksDue, staleCredit>>
    BY <1>3 DEF CreditNotice, IsStatus, progress
  <2>2. IsStatus(NextFrame)
    BY <1>0, <1>1, <1>3, FrameFields
  <2>3. staleCredit
    BY <1>1, <1>3, <2>2, NoticeRead, KindsDiffer
  <2>4. /\ Removed(Way', Way, Len(deferred) + 1) /\ OnWay' \subseteq OnWay
        /\ pending' \in Seq(Frame) /\ fromPico' \in Seq(Frame) /\ deferred' \in Seq(Frame)
        /\ pending = <<>> => pending' = <<>>
    BY <1>0, <1>1, <2>1, WayDropped
  <2>5. toPico' = toPico \o <<>> /\ <<>> \in Seq(Request)
    BY <1>0, <2>1, NothingWritten
  <2>6. Links'
    BY <2>4, <2>5, ZeroLinks
  <2>7. Feeder'
    <3>1. StopAt' = StopAt
      BY <2>1 DEF StopAt
    <3> QED
      BY <1>0, <1>1, <2>1, <3>1 DEF Feeder
  <2>8. mode # "ERROR" => Rows'
    <3> SUFFICES ASSUME mode # "ERROR" PROVE Rows'
      OBVIOUS
    <3>1. NewsIsLast
      BY FullFacts DEF Rows, Said, NewsIsLast, LastAt
    <3>2. NewsIsLast'
      BY <1>0, <2>4, <3>1, NewsStaysLast
    <3>3. Events(Sent) => Events(Sent)'
      <4>1. Sent' = Sent
        BY <2>1 DEF Sent
      <4> QED
        BY <1>0, <2>1, <4>1 DEF Events
    <3>4. NoModeSet => NoModeSet'
      BY <2>1 DEF NoModeSet
    <3>5. Fresh => Fresh'
      BY <2>1, <2>4 DEF Fresh
    <3>6. stage' \in Feeds
      BY <1>1, <2>1
    <3> QED
      BY <1>1, <2>1, <2>4, <3>2, <3>3, <3>4, <3>5, <3>6, FeedRows
  <2>9. mode = "ERROR" => Doomed'
    BY <1>1, <2>1, <2>4, <2>5, NothingSet, DoomedKept
  <2>10. Answers'
    BY <1>1, <2>1, <2>4, FeedAnswers
  <2>11. CreditInv'
    BY <2>1, <2>3 DEF CreditInv
  <2> QED
    BY <2>6, <2>7, <2>8, <2>9, <2>10, <2>11, ZeroInv
<1>4. CASE ~(IsStatus(NextFrame) /\ NextFrame.state # ExpectedState) /\ NextFrame.free # 0
  <2>1. /\ Consume(deferred) /\ deferred' = <<>> /\ stage' = "feed" /\ toPico' = toPico \o <<>> /\ credit' = NextFrame.free
        /\ staleCredit' = (staleCredit \/ (IsUnderrun(NextFrame) /\ pending # <<>>))
        /\ UNCHANGED <<streaming, prebuffer, nextEvent, batch, acksDue>>
    BY <1>4 DEF CreditNotice, Proceed, IsStatus, IsUnderrun
  <2>2. toPico' = toPico /\ <<>> \in Seq(Request)
    BY <1>0, <2>1, WireSame
  <2>3. /\ fromPico' \in Seq(Frame) /\ pending' \in Seq(Frame) /\ deferred' \in Seq(Frame)
        /\ OnWay' \subseteq OnWay /\ (mode # "ERROR" => NewsIsLast') /\ (Fresh => Fresh')
        /\ (pending = <<>> => pending' = deferred /\ fromPico' = Tail(fromPico))
    BY <1>1, <2>1, TakenFacts
  <2>4. stage' \in Feeds /\ Sent' = Sent /\ StopAt' = StopAt
    BY <1>1, <2>1 DEF Feeds, Sent, StopAt
  <2>5. credit' \in 0..QueueCapacity
    BY <1>0, <1>1, <2>1, FrameFields
  <2>6. Links'
    BY <2>1, <2>2, <2>3, ZeroLinks
  <2>7. staleCredit' \in BOOLEAN /\ (staleCredit' => streaming)
    <3>1. ~streaming => ~IsUnderrun(NextFrame)
      BY <1>1 DEF NoNotices, Setup
    <3> QED
      BY <1>0, <2>1, <3>1 DEF Feeder
  <2>8. Feeder'
    BY <1>0, <1>1, <2>1, <2>4, <2>5, <2>7 DEF Feeder, Early, Late, Stages, Awaited
  <2>9. mode # "ERROR" => Rows'
    <3> SUFFICES ASSUME mode # "ERROR" PROVE Rows'
      OBVIOUS
    <3>1. Events(Sent) => Events(Sent)'
      BY <1>0, <2>2, <2>4 DEF Events
    <3>2. NoModeSet => NoModeSet'
      BY <2>2 DEF NoModeSet
    <3> QED
      BY <1>1, <2>1, <2>3, <2>4, <3>1, <3>2, FeedRows
  <2>10. mode = "ERROR" => Doomed'
    BY <2>1, <2>2, <2>3, NothingSet, DoomedKept
  <2>11. Answers'
    BY <1>1, <2>1, <2>3, <2>4, FeedAnswers
  <2>12. CreditInv'
    <3> SUFFICES ASSUME ~staleCredit' PROVE CountOK'
      BY DEF CreditInv
    <3>1. ~staleCredit /\ (IsUnderrun(NextFrame) => pending = <<>>)
      BY <2>1
    <3>2. /\ pending = <<>> /\ toPico = <<>> /\ Counted
          /\ NextFrame.free + Len(queue) =< QueueCapacity
          /\ Settled(Tail(fromPico), 0, Len(queue), NextFrame.free)
      BY <1>1, <3>1, NoticeRead
    <3>3. CountOK
      BY <3>1, FullFacts DEF CreditInv
    <3>4. Counted'
      <4>1. Due' = 0
        BY <2>1 DEF Due
      <4>2. credit' + Len(queue') =< QueueCapacity /\ Settled(fromPico', Due', Len(queue'), credit')
        BY <1>0, <2>1, <2>3, <3>2, <4>1
      <4>3. \A i \in 1..Len(pending') : ~IsStatus(pending'[i])
        BY <2>3, <3>2 DEF Counted
      <4> HIDE DEF Outstanding, Settled
      <4> QED
        BY <2>1, <2>2, <3>2, <4>2, <4>3, EmptyIsSeq DEF Counted
    <3>5. Len(toPico') =< PipelineWindow /\ NoEvents'
      BY <2>2, <3>2, <3>3, EmptyIsSeq DEF CountOK, NoEvents
    <3> QED
      BY <1>0, <2>1, <2>2, <3>2, <3>3, <3>4, <3>5 DEF CountOK
  <2> QED
    BY <2>6, <2>8, <2>9, <2>10, <2>11, <2>12, ZeroInv
<1> QED
  BY <1>2, <1>3, <1>4

\* A frame is read on the way to the end of the run.
LEMMA ClosingKept ==
    ASSUME Full, Apart, CanRead, Consume(deferred), deferred' = <<>>,
           stage \in Closing, stage' \in Closing, toPico' = toPico \o <<>>, UNCHANGED progress
    PROVE  StreamInv'
<1>0. Links /\ Feeder /\ CreditInv /\ UNCHANGED <<mode, queue, ended, played, uartFault>>
  BY FullFacts, PicoSame
<1>1. UNCHANGED <<streaming, prebuffer, nextEvent, credit, batch, acksDue, staleCredit>>
  BY DEF progress
<1>2. /\ fromPico' \in Seq(Frame) /\ pending' \in Seq(Frame) /\ deferred' \in Seq(Frame)
      /\ OnWay' \subseteq OnWay /\ (mode # "ERROR" => NewsIsLast')
  BY TakenFacts
<1>3. toPico' = toPico /\ <<>> \in Seq(Request)
  BY <1>0, WireSame
<1>4. Links'
  BY <1>2, <1>3, ZeroLinks
<1>5. Feeder'
  <2>1. StopAt' = StopAt
    BY <1>1 DEF StopAt
  <2> QED
    BY <1>0, <1>1, <2>1 DEF Feeder, Early, Late, Stages, Awaited, Closing
<1>6. stage' \notin Setup' /\ stage' \notin DOMAIN Answer /\ ~Feeding' /\ ~Feeding
  BY AnswerFields DEF Setup, Feeding, Closing
<1>7. mode # "ERROR" => Rows'
  <2> SUFFICES ASSUME mode # "ERROR" PROVE Rows'
    OBVIOUS
  <2>1. Playing /\ Said
    BY FullFacts DEF Rows
  <2>2. Over' = Over /\ NoModeSet' = NoModeSet /\ Events(TotalEvents)' = Events(TotalEvents)
        /\ EventsThen(TotalEvents, Plain("QUEUE_END"))' = EventsThen(TotalEvents, Plain("QUEUE_END"))
    BY <1>0, <1>3 DEF Over, NoModeSet, Events, EventsThen
  <2>3. Playing'
    <3> HIDE DEF Events, EventsThen, Over, NoModeSet
    <3> QED
      BY <1>0, <1>1, <1>3, <1>6, <2>1, <2>2 DEF Playing
  <2>4. Said'
    <3>1. FinishedNews \in OnWay' => toPico' = <<>>
      BY <1>2, <1>3, <2>1 DEF Said, Over
    <3>2. \A x \in OnWay' : RunFrame(x) \/ x.type = "PLAY_READY"
      BY <1>2, <2>1 DEF Said
    <3>3. stage' # "accepted"
      BY DEF Closing
    <3> QED
      BY <1>2, <2>1, <3>1, <3>2, <3>3, SaidShrinks
  <2>5. stage' \notin {"begin", "arming", "accepted", "epoch", "returning", "done", "failed"}
    BY DEF Closing
  <2> QED
    BY <1>6, <2>3, <2>4, <2>5, RowsAre
<1>8. mode = "ERROR" => Doomed'
  <2>1. stage' \notin {"begin", "arming", "returning", "done"}
    BY DEF Closing
  <2> QED
    BY <1>2, <1>3, <2>1, NothingSet, DoomedKept
<1>9. Answers'
  BY <1>6, NoAnswer
<1>10. CreditInv'
  <2>1. ~Counting'
    BY <1>6 DEF Counting, Closing
  <2>2. ~staleCredit => Len(toPico) =< PipelineWindow /\ (NoEvents \/ Len(queue) + Len(toPico) =< QueueCapacity)
    BY <1>0 DEF CreditInv, CountOK
  <2>3. NoEvents' = NoEvents
    BY <1>3 DEF NoEvents
  <2>4. stage' \notin {"feed", "credit", "acks", "begin", "arming"}
    BY DEF Closing
  <2> QED
    BY <1>1, <1>3, <2>1, <2>2, <2>3, <2>4, ZeroUncounted
<1> QED
  BY <1>4, <1>5, <1>7, <1>8, <1>9, <1>10, ZeroInv

LEMMA OutcomeKept ==
    ASSUME Full, Apart, Outcome \/ Metrics
    PROVE  StreamInv'
  BY ClosingKept DEF Outcome, Metrics, Await, Proceed, Closing

\* What is left once the news of the end has been read.
LEMMA FinishedWay ==
    ASSUME Links, CanRead, pending' = <<>>, deferred' = <<>>,
           fromPico' = IF pending = <<>> THEN Tail(fromPico) ELSE fromPico
    PROVE  /\ fromPico' \in Seq(Frame) /\ pending' \in Seq(Frame) /\ deferred' \in Seq(Frame)
           /\ Fresh' /\ Way' = fromPico' /\ OnWay' \subseteq OnWay
           /\ Len(Way) = Len(deferred) + 1 => fromPico' = <<>>
<1>1. fromPico \in Seq(Frame) /\ pending \in Seq(Frame) /\ Fresh'
  BY DEF Links, Fresh
<1>2. OnWay = Range(deferred) \cup Range(pending) \cup Range(fromPico)
      /\ Len(Way) = Len(deferred) + Len(pending) + Len(fromPico)
      /\ (pending = <<>> => fromPico # <<>>)
      /\ Len(deferred) \in Nat /\ Len(pending) \in Nat /\ Len(fromPico) \in Nat
  BY WayFrames, NextIsOnWay, LenProperties DEF Links
<1> DEFINE f == fromPico'
<1>3. f \in Seq(Frame) /\ Range(f) \subseteq Range(fromPico)
      /\ (Len(Way) = Len(deferred) + 1 => Len(f) = 0)
  <2>1. CASE pending = <<>>
    <3>1. fromPico # <<>> /\ f = Tail(fromPico)
      BY <1>2, <2>1
    <3> HIDE DEF f
    <3>2. /\ f \in Seq(Frame) /\ Len(fromPico) \in Nat /\ Len(fromPico) > 0 /\ Len(f) = Len(fromPico) - 1
          /\ \A i \in 1..Len(f) : i + 1 \in 1..Len(fromPico) /\ f[i] = fromPico[i + 1]
      BY <1>1, <3>1, TailFrames
    <3>3. ASSUME NEW x \in Range(f) PROVE x \in Range(fromPico)
      <4>1. PICK i \in 1..Len(f) : f[i] = x
        BY <3>2, <3>3, InRange
      <4>2. i + 1 \in 1..Len(fromPico) /\ fromPico[i + 1] = x
        BY <3>2, <4>1
      <4> QED
        BY <1>1, <4>2, InRange
    <3>4. Len(pending) = 0
      BY <2>1, EmptyIsSeq
    <3>5. Len(Way) = Len(deferred) + 1 => Len(f) = 0
      BY <1>2, <3>2, <3>4
    <3> QED
      BY <3>2, <3>3, <3>5
  <2>2. CASE pending # <<>>
    <3>1. f = fromPico
      BY <2>2
    <3> HIDE DEF f
    <3>2. Len(pending) > 0
      BY <1>1, <2>2, TailFrames
    <3>3. Len(Way) = Len(deferred) + 1 => Len(f) = 0
      BY <1>2, <3>1, <3>2
    <3> QED
      BY <1>1, <3>1, <3>3
  <2> QED
    BY <2>1, <2>2
<1>4. Way' = f
  <2>1. Way' = (<<>> \o <<>>) \o f
    BY DEF Way
  <2> HIDE DEF f
  <2>2. <<>> \o <<>> = <<>> /\ <<>> \o f = f
    BY <1>3, ConcatEmptySeq, EmptyIsSeq
  <2> QED
    BY <2>1, <2>2
<1>5. Len(Way) = Len(deferred) + 1 => f = <<>>
  <2> HIDE DEF f
  <2>1. Len(f) = 0 => f = <<>>
    BY <1>3, TailFrames
  <2> QED
    BY <1>3, <2>1
<1>6. OnWay' = Range(f)
  BY <1>4 DEF OnWay
<1> HIDE DEF f
<1>7. fromPico' = f
  BY DEF f
<1>8. pending' \in Seq(Frame) /\ deferred' \in Seq(Frame)
  BY EmptyIsSeq
<1> QED
  BY <1>1, <1>2, <1>3, <1>4, <1>5, <1>6, <1>7, <1>8

LEMMA FinishedKept ==
    ASSUME Full, Apart, Finished
    PROVE  StreamInv'
<1>0. Links /\ Feeder /\ CreditInv /\ UNCHANGED <<mode, queue, ended, played, uartFault>>
  BY FullFacts, PicoSame
<1>1. /\ stage = "finished" /\ CanRead /\ NextFrame.type = "MODE_CHANGED" /\ ~IsError(NextFrame)
      /\ pending' = <<>> /\ deferred' = <<>>
      /\ fromPico' = IF pending = <<>> THEN Tail(fromPico) ELSE fromPico
  BY DEF Finished, Wanted, Awaited
<1>2. /\ fromPico' \in Seq(Frame) /\ pending' \in Seq(Frame) /\ deferred' \in Seq(Frame)
      /\ Fresh' /\ Way' = fromPico' /\ OnWay' \subseteq OnWay
      /\ (Len(Way) = Len(deferred) + 1 => fromPico' = <<>>)
  BY <1>0, <1>1, FinishedWay
<1>3. NextFrame \in OnWay /\ NextFrame = Way[Len(deferred) + 1] /\ Len(deferred) + 1 \in 1..Len(Way)
  <2>1. NextFrame \in OnWay /\ NextFrame = Way[Len(deferred) + 1] /\ Len(Way) > Len(deferred)
    BY <1>0, <1>1, NextIsOnWay
  <2>2. Len(Way) \in Nat /\ Len(deferred) \in Nat
    BY <1>0, WayFrames, LenProperties DEF Links
  <2> QED
    BY <2>1, <2>2
<1>4. mode # "ERROR" => NextFrame = FinishedNews
  <2> SUFFICES ASSUME mode # "ERROR" PROVE NextFrame = FinishedNews
    OBVIOUS
  <2>1. RunFrame(NextFrame)
    BY <1>1, <1>3, FullFacts DEF Rows, Said, Closing
  <2> QED
    BY <1>1, <2>1 DEF RunFrame, IsStatus, IsUnderrun
<1>5. NextFrame = FinishedNews => /\ mode # "ERROR" /\ Over /\ fromPico' = <<>>
  <2> SUFFICES ASSUME NextFrame = FinishedNews PROVE mode # "ERROR" /\ Over /\ fromPico' = <<>>
    OBVIOUS
  <2>1. mode # "ERROR"
    BY <1>3, FullFacts DEF Doomed
  <2>2. Said
    BY <2>1, FullFacts DEF Rows
  <2>3. Over
    BY <1>3, <2>2 DEF Said
  <2>4. Len(deferred) + 1 = Len(Way)
    BY <1>3, <2>2 DEF Said
  <2> QED
    BY <1>2, <2>1, <2>3, <2>4
<1>6. CASE NextFrame # FinishedNews
  <2>1. Fail
    BY <1>6 DEF Finished, FinishedNews
  <2>2. mode = "ERROR"
    BY <1>4, <1>6
  <2> QED
    BY <1>1, <1>2, <2>1, <2>2, FailKept
<1>7. CASE NextFrame = FinishedNews
  <2> DEFINE c == SetMode("PASS")
  <2>1. /\ stage' = "returning" /\ toPico' = toPico \o <<c>>
        /\ UNCHANGED <<streaming, prebuffer, nextEvent, credit, batch, acksDue, staleCredit>>
    BY <1>7 DEF Finished, FinishedNews, Proceed, progress, SetMode
  <2>2. mode # "ERROR" /\ Over /\ fromPico' = <<>> /\ toPico = <<>>
    BY <1>5, <1>7 DEF Over
  <2>3. c \in Request /\ c.type # "QUEUE_EVENT"
    BY DEF Request, SetMode
  <2>4. c = SetMode("PASS")
    OBVIOUS
  <2> HIDE DEF c
  <2>5. /\ toPico' = <<c>> /\ <<c>> \in Seq(Request) /\ Len(toPico') =< PipelineWindow
        /\ \A i \in 1..Len(toPico') : i = 1 /\ toPico'[i] = c
    BY <1>0, <2>1, <2>2, <2>3, OneWritten
  <2>6. Links'
    BY <1>2, <2>1, <2>5, ZeroLinks
  <2>7. Feeder'
    <3>1. StopAt' = StopAt
      BY <2>1 DEF StopAt
    <3> QED
      BY <1>0, <1>1, <2>1, <3>1 DEF Feeder, Early, Late, Stages, Awaited
  <2>8. stage' \notin Setup' /\ stage' \notin DOMAIN Answer /\ ~Feeding' /\ stage' \notin Closing
    BY <2>1, AnswerFields DEF Setup, Feeding, Closing
  <2>9. Rows'
    <3>1. OnWay' = {} /\ NewsIsLast'
      BY <1>2, <2>2, <2>6, EmptyWay
    <3>2. Said /\ Said'
      <4>1. Said
        BY <2>2, FullFacts DEF Rows
      <4> QED
        BY <1>2, <2>1, <2>8, <3>1, <4>1, SaidShrinks
    <3>3. Leaving'
      BY <1>0, <1>1, <2>1, <2>2, <2>4, <2>5 DEF Leaving, Over
    <3> QED
      BY <2>1, <2>2, <2>8, <3>2, <3>3, RowsAre
  <2>10. Answers'
    BY <2>8, NoAnswer
  <2>11. CreditInv'
    <3>1. ~Counting'
      BY <2>1, <2>8 DEF Counting
    <3>2. NoEvents'
      BY <2>3, <2>5 DEF NoEvents
    <3> QED
      BY <2>1, <2>5, <3>1, <3>2, ZeroUncounted
  <2> QED
    BY <2>2, <2>6, <2>7, <2>9, <2>10, <2>11, ZeroInv
<1> QED
  BY <1>6, <1>7

LEMMA ReturnedKept ==
    ASSUME Full, Apart, Returned
    PROVE  StreamInv'
<1>0. Links /\ Feeder /\ CreditInv /\ UNCHANGED <<mode, queue, ended, played, uartFault>>
  BY FullFacts, PicoSame
<1>1. /\ stage = "returning" /\ CanRead /\ Consume(deferred) /\ deferred' = <<>>
  BY DEF Returned, Await
<1>2. mode # "ERROR" /\ Leaving /\ Said
  BY <1>1, FullFacts DEF Doomed, Rows
<1>3. Fresh /\ NextFrame = fromPico[1] /\ fromPico # <<>> /\ fromPico' = Tail(fromPico) /\ Fresh'
      /\ fromPico' \in Seq(Frame) /\ pending' \in Seq(Frame) /\ deferred' \in Seq(Frame) /\ OnWay' \subseteq OnWay
  <2>1. Fresh
    BY <1>1, <1>2 DEF Leaving, Fresh
  <2> QED
    BY <1>1, <2>1, TakenFacts
<1>4. played = TotalEvents /\ queue = <<>> /\ ~ended /\ mode = "PASS" /\ toPico = <<>> /\ fromPico = <<PassNews>>
  BY <1>1, <1>2, <1>3 DEF Leaving
<1>5. NextFrame = PassNews /\ fromPico' = <<>>
  BY <1>3, <1>4, LenOfOne
<1>6. /\ stage' = "done" /\ toPico' = toPico \o <<>>
      /\ UNCHANGED <<streaming, prebuffer, nextEvent, credit, batch, acksDue, staleCredit>>
  BY <1>5 DEF Returned, PassNews, Proceed, progress
<1>7. toPico' = <<>> /\ Len(toPico') = 0 /\ <<>> \in Seq(Request)
  BY <1>0, <1>4, <1>6, WireSame, EmptyIsSeq
<1>8. Links'
  BY <1>3, <1>6, <1>7, ZeroLinks
<1>9. Feeder'
  <2>1. StopAt' = StopAt
    BY <1>6 DEF StopAt
  <2> QED
    BY <1>0, <1>1, <1>6, <2>1 DEF Feeder, Early, Late, Stages, Awaited
<1>10. stage' \notin Setup' /\ stage' \notin DOMAIN Answer /\ ~Feeding' /\ stage' \notin Closing
  BY <1>6, AnswerFields DEF Setup, Feeding, Closing
<1>11. Rows'
  <2>1. OnWay' = {} /\ NewsIsLast'
    BY <1>3, <1>5, <1>8, EmptyWay
  <2>2. Said'
    BY <1>2, <1>3, <1>6, <1>10, <2>1, SaidShrinks
  <2>3. Leaving'
    BY <1>0, <1>3, <1>4, <1>5, <1>6, <1>7 DEF Leaving, Fresh
  <2> QED
    BY <1>2, <1>6, <1>10, <2>2, <2>3, RowsAre
<1>12. Answers'
  BY <1>10, NoAnswer
<1>13. CreditInv'
  <2>1. ~Counting'
    BY <1>6, <1>10 DEF Counting
  <2>2. NoEvents' /\ Len(toPico') =< PipelineWindow
    BY <1>7, StreamAssumption DEF NoEvents
  <2> QED
    BY <1>6, <2>1, <2>2, ZeroUncounted
<1> QED
  BY <1>2, <1>8, <1>9, <1>11, <1>12, <1>13, ZeroInv

\* Every step of the Zero.
LEMMA ZeroKept ==
    ASSUME Full, NoNotices, ZeroStep
    PROVE  StreamInv'
<1>1. Apart
  BY DEF ZeroStep, Apart
<1> QED
  BY <1>1, DeferKept, ErrorKept, BeginKept, ArmedKept, ClearedKept, PrebufferedKept, ReadyKept, EndAckKept,
     AcceptedKept, EpochKept, SendKept, AcknowledgedKept, OutOfCreditKept, CreditNoticeKept, AllSentKept,
     OutcomeKept, FinishedKept, ReturnedKept DEF ZeroStep

-----------------------------------------------------------------------------
(* No notice of a run reaches the wait for credit of a queue being loaded. *)

LEMMA ZeroWay ==
    ASSUME Full, ZeroStep
    PROVE  /\ OnWay' \subseteq OnWay
           /\ stage' \in Setup' => stage \in Setup \/ stage = "arming"
<1>0. Links
  BY FullFacts
<1>1. ASSUME UNCHANGED <<fromPico, pending, deferred>> PROVE OnWay' = OnWay
  BY <1>1 DEF OnWay, Way
<1>2. ASSUME NEW from, Await(from) PROVE OnWay' \subseteq OnWay /\ stage = from
  BY <1>2, TakenFacts DEF Await
<1>3. CASE DeferFrame
  <2>1. OnWay' = OnWay
    BY <1>0, <1>3, WayDeferred DEF DeferFrame
  <2> QED
    BY <1>3, <2>1 DEF DeferFrame, progress, Setup
<1>4. CASE ErrorSeen
  <2>1. OnWay' \subseteq OnWay
    BY <1>4, TakenFacts DEF ErrorSeen
  <2> QED
    BY <1>4, <2>1 DEF ErrorSeen, Fail, Setup
<1>5. CASE Begin
  BY <1>1, <1>5 DEF Begin, Proceed, Setup
<1>6. CASE Armed
  BY <1>2, <1>6 DEF Armed, Await
<1>7. CASE Cleared
  BY <1>2, <1>7 DEF Cleared, Setup
<1>8. CASE Prebuffered
  BY <1>1, <1>8 DEF Prebuffered, Proceed, Setup
<1>9. CASE Ready
  BY <1>2, <1>9 DEF Ready, Setup
<1>10. CASE EndAcknowledged
  BY <1>2, <1>10 DEF EndAcknowledged, Setup
<1>11. CASE Accepted
  BY <1>2, <1>11 DEF Accepted, Proceed, Fail, Setup
<1>12. CASE EpochKnown
  BY <1>2, <1>12 DEF EpochKnown, Proceed, Setup
<1>13. CASE SendBatch
  BY <1>1, <1>13 DEF SendBatch, Proceed, Setup
<1>14. CASE Acknowledged
  BY <1>2, <1>14 DEF Acknowledged, Proceed, Fail, progress, Setup
<1>15. CASE OutOfCredit
  BY <1>1, <1>15 DEF OutOfCredit, Proceed, progress, Setup
<1>16. CASE CreditNotice
  <2>1. OnWay' \subseteq OnWay
    <3>1. CASE Consume(deferred) /\ deferred' = <<>>
      BY <1>16, <3>1, TakenFacts DEF CreditNotice
    <3>2. CASE Consume(<<>>) /\ deferred' = deferred
      BY <1>0, <1>16, <3>2, WayDropped DEF CreditNotice
    <3> QED
      BY <1>16, <3>1, <3>2 DEF CreditNotice
  <2>2. stage = "credit" /\ (stage' = "failed" \/ (stage' \in {"credit", "feed"} /\ streaming' = streaming))
    BY <1>16 DEF CreditNotice, Fail, Proceed, progress
  <2> QED
    BY <2>1, <2>2 DEF Setup
<1>17. CASE AllSent
  BY <1>1, <1>17 DEF AllSent, Proceed, progress, Setup
<1>18. CASE Outcome
  BY <1>2, <1>18 DEF Outcome, Proceed, Setup
<1>19. CASE Metrics
  BY <1>2, <1>19 DEF Metrics, Proceed, Setup
<1>20. CASE Finished
  <2>1. OnWay' \subseteq OnWay
    BY <1>0, <1>20, FinishedWay DEF Finished
  <2> QED
    BY <1>20, <2>1 DEF Finished, Proceed, Fail, Setup
<1>21. CASE Returned
  BY <1>2, <1>21 DEF Returned, Proceed, Fail, Setup
<1> QED
  BY <1>3, <1>4, <1>5, <1>6, <1>7, <1>8, <1>9, <1>10, <1>11, <1>12, <1>13, <1>14, <1>15, <1>16, <1>17, <1>18,
     <1>19, <1>20, <1>21 DEF ZeroStep

\* The Zero leaves no notice behind when it begins to load the queue.
LEMMA NoticesZero ==
    ASSUME Full, NoNotices, ZeroStep
    PROVE  NoNotices'
<1>1. /\ OnWay' \subseteq OnWay
      /\ stage' \in Setup' => stage \in Setup \/ stage = "arming"
  BY ZeroWay
<1>2. stage = "arming" => \A x \in OnWay : ~IsUnderrun(x)
  <2> SUFFICES ASSUME stage = "arming", NEW x \in OnWay PROVE ~IsUnderrun(x)
    OBVIOUS
  <2>1. Links /\ Beginning
    BY FullFacts DEF Doomed, Rows
  <2>2. Fresh /\ fromPico \in {<<>>, <<ArmedNews>>}
    BY <2>1 DEF Beginning
  <2>3. OnWay = Range(fromPico)
    BY <2>1, <2>2, WayFrames
  <2>4. PICK i \in 1..Len(fromPico) : fromPico[i] = x
    BY <2>1, <2>3, InRange DEF Links
  <2>5. x = ArmedNews
    <3>1. fromPico = <<ArmedNews>>
      BY <2>2, <2>4, EmptyIsSeq
    <3>2. i = 1
      BY <2>4, <3>1, LenOfOne
    <3> QED
      BY <2>4, <3>1, <3>2, LenOfOne
  <2> QED
    BY <2>5 DEF ArmedNews, ModeChanged, IsUnderrun
<1> QED
  BY <1>1, <1>2 DEF NoNotices

\* Only a run says that it starves.
LEMMA UnderrunsOfRuns ==
    ASSUME PicoKind, tx'.sent \in Seq(Frame), mode # "PLAYING", NEW i \in 1..Len(tx'.sent)
    PROVE  ~IsUnderrun(tx'.sent[i])
<1> DEFINE s == tx'.sent
<1>1. s = <<>> => FALSE
  BY EmptyIsSeq
<1>2. ASSUME NEW x, s = <<x>> PROVE s[i] = x
  BY <1>2, LenOfOne
<1>3. ASSUME NEW x, NEW y, s = <<x, y>> PROVE s[i] = x \/ s[i] = y
  <2>1. Len(s) = 2 /\ s[1] = x /\ s[2] = y
    BY <1>3
  <2>2. i = 1 \/ i = 2
    BY <2>1
  <2> QED
    BY <2>1, <2>2
<1>4. /\ \A state, reason : ~IsUnderrun(ModeChanged(state, reason))
      /\ \A state, n : ~IsUnderrun(BufferStatus(state, n))
      /\ \A t : t # "PLAY_UNDERRUN" => ~IsUnderrun(Plain(t))
  BY DEF IsUnderrun, ModeChanged, BufferStatus, Plain
<1> DEFINE b == BufferStatus(mode, QueueCapacity - Len(queue) - 1)
           b2 == BufferStatus(mode, QueueCapacity - Len(queue))
           b3 == BufferStatus("ARMED", QueueCapacity)
<1>5. ~IsUnderrun(b) /\ ~IsUnderrun(b2) /\ ~IsUnderrun(b3) /\ ~IsUnderrun(ArmedNews) /\ ~IsUnderrun(PassNews)
      /\ ~IsUnderrun(StartNews) /\ ~IsUnderrun(FinishedNews)
      /\ ~IsUnderrun(Plain("PLAY_READY")) /\ ~IsUnderrun(Plain("PLAY_STARTED"))
  BY <1>4 DEF ArmedNews, PassNews, StartNews, FinishedNews
<1>6. CASE PicoStop
  <2>1. Ending(s[i]) \/ (i = 1 /\ s[1] = Plain("PLAY_READY"))
    BY <1>6 DEF PicoStop
  <2>2. Ending(s[i]) => ~IsUnderrun(s[i])
    BY DEF Ending, IsUnderrun
  <2> QED
    BY <1>5, <2>1, <2>2
<1> HIDE DEF s, b, b2, b3
<1>7. PicoQuiet \/ PicoOverrun => s = <<>>
  BY DEF PicoQuiet, PicoOverrun, Silent, s
<1>8. ~PicoFinish /\ ~PicoStarve /\ ~PicoPlay
  BY DEF PicoFinish, PicoStarve, PicoPlay
<1>9. CASE PicoArm \/ PicoPass
  <2>1. s = <<ArmedNews>> \/ s = <<PassNews>>
    BY <1>1, <1>9 DEF PicoArm, PicoPass, s
  <2> QED
    BY <1>2, <1>5, <2>1 DEF s
<1>10. CASE PicoClear \/ PicoAccept
  <2>1. s = <<b3>> \/ s = <<b>>
    BY <1>10 DEF PicoClear, PicoAccept, s, b, b3
  <2> QED
    BY <1>2, <1>5, <2>1 DEF s
<1>11. CASE PicoClose
  <2>1. s = <<b2>> \/ s = <<Plain("PLAY_READY"), b2>>
    BY <1>11 DEF PicoClose, s, b2
  <2> QED
    BY <1>2, <1>3, <1>5, <2>1 DEF s
<1>12. CASE PicoStart
  <2>1. s = <<StartNews>> \/ s = <<Plain("PLAY_STARTED")>> \/ s = <<StartNews, Plain("PLAY_STARTED")>>
    BY <1>1, <1>12 DEF PicoStart, s
  <2> QED
    BY <1>2, <1>3, <1>5, <2>1 DEF s
<1> QED
  BY <1>1, <1>6, <1>7, <1>8, <1>9, <1>10, <1>11, <1>12 DEF PicoKind

\* A queue being loaded starves nobody.
LEMMA NoticesPico ==
    ASSUME Full, NoNotices, PicoStep
    PROVE  NoNotices'
<1>1. PicoKind /\ Tidy /\ fromPico' = fromPico \o tx'.sent /\ UNCHANGED feeder
  BY FullFacts, PicoKinds
<1>2. tx'.sent \in Seq(Frame) /\ UNCHANGED <<pending, deferred, stage, streaming>>
  BY <1>1 DEF Tidy, feeder, progress
<1>3. OnWay' = OnWay \cup Range(tx'.sent)
  BY <1>1, <1>2, FullFacts, WayGrows
<1>4. Setup' = Setup
  BY <1>2 DEF Setup
<1>5. ASSUME stage \in Setup, NEW x \in Range(tx'.sent) PROVE ~IsUnderrun(x)
  <2>1. mode # "PLAYING"
    BY <1>5, FullFacts DEF Rows, Loading
  <2>2. PICK i \in 1..Len(tx'.sent) : tx'.sent[i] = x
    BY <1>2, <1>5, InRange
  <2> QED
    BY <1>1, <1>2, <2>1, <2>2, UnderrunsOfRuns
<1> QED
  BY <1>2, <1>3, <1>4, <1>5 DEF NoNotices

-----------------------------------------------------------------------------
(* The inductive invariant. *)

\* Nothing has been said before the session begins.
LEMMA StreamBegins == StreamInit => Full /\ NoNotices
<1> SUFFICES ASSUME StreamInit PROVE Full /\ NoNotices
  OBVIOUS
<1>1. /\ IInv /\ toPico = <<>> /\ fromPico = <<>> /\ pending = <<>> /\ deferred = <<>> /\ stage = "begin"
      /\ streaming = FALSE /\ prebuffer \in 1..TotalEvents /\ nextEvent = 0 /\ credit = 0 /\ batch = 0
      /\ acksDue = 0 /\ staleCredit = FALSE /\ played = 0
      /\ mode = "PASS" /\ queue = <<>> /\ ended = FALSE /\ uartFault = FALSE /\ capture = <<>> /\ backlog = 0
  BY InitIInv DEF StreamInit, Init
<1>2. Len(toPico) = 0 /\ Len(queue) = 0 /\ toPico \in Seq(Request) /\ fromPico \in Seq(Frame)
      /\ pending \in Seq(Frame) /\ deferred \in Seq(Frame)
  BY <1>1, EmptyIsSeq
<1>3. Links
  BY <1>1, <1>2 DEF Links
<1>4. Feeder
  <2>1. nextEvent \in 0..TotalEvents /\ credit \in 0..QueueCapacity /\ batch \in 0..PipelineWindow
        /\ acksDue \in 0..batch /\ played \in 0..TotalEvents /\ nextEvent =< prebuffer
    BY <1>1, StreamAssumption, CapacityAssumption
  <2>2. nextEvent =< StopAt
    BY <1>1, <2>1 DEF StopAt
  <2> QED
    BY <1>1, <2>1, <2>2 DEF Feeder, Early, Late, Stages, Awaited
<1>5. stage \notin Setup /\ stage \notin DOMAIN Answer /\ ~Feeding /\ stage \notin Closing
  BY <1>1, AnswerFields DEF Setup, Feeding, Closing
<1>6. OnWay = {} /\ Way = <<>>
  <2>1. Way = (<<>> \o <<>>) \o <<>>
    BY <1>1 DEF Way
  <2>2. Way = <<>>
    BY <2>1, ConcatEmptySeq, EmptyIsSeq
  <2>3. \A x : x \notin Range(Way)
    BY <2>2 DEF Range
  <2> QED
    BY <2>2, <2>3 DEF OnWay
<1>7. Rows
  <2>1. InOrder
    BY <1>2 DEF InOrder
  <2>2. Beginning
    BY <1>1 DEF Beginning, Fresh, Unfed
  <2>3. Loading /\ Starting /\ Playing /\ Leaving
    BY <1>1, <1>5 DEF Loading, Starting, Playing, Leaving
  <2>4. Said
    BY <1>1, <1>5, <1>6, EmptyIsSeq DEF Said
  <2> QED
    BY <2>1, <2>2, <2>3, <2>4 DEF Rows
<1>8. Answers
  BY <1>1, <1>5 DEF Answers
<1>9. CreditInv
  <2>1. ~Counting
    BY <1>1, <1>5 DEF Counting
  <2>2. NoEvents /\ Len(toPico) =< PipelineWindow
    BY <1>2, StreamAssumption DEF NoEvents
  <2> QED
    BY <1>1, <2>1, <2>2 DEF CreditInv, CountOK
<1>10. StreamInv
  BY <1>1, <1>3, <1>4, <1>7, <1>8, <1>9 DEF StreamInv
<1> QED
  BY <1>1, <1>5, <1>10 DEF Full, NoNotices

\* Every step of the two machines is a step of the firmware, or leaves it be.
LEMMA StepIsFirmware ==
    ASSUME Full, StreamNext \/ UNCHANGED streamVars
    PROVE  [Next]_vars
<1>1. CASE ZeroStep
  BY <1>1 DEF ZeroStep
<1>2. CASE UNCHANGED streamVars
  BY <1>2 DEF streamVars
<1>3. CASE PicoStep
  <2>1. CASE LoopBody
    BY <2>1 DEF Next, MainLoop
  <2>2. CASE PlayNext
    BY <2>2 DEF PlayNext, Next, MainLoop
  <2>3. CASE \E n \in 0..Len(toPico) : StreamPoll(n)
    BY <2>3 DEF StreamPoll, Next, MainLoop
  <2>4. CASE DispatchNext
    <3>1. toPico # <<>>
      <4>1. Len(toPico) > 0
        BY <2>4, FullFacts, BaseFacts DEF DispatchNext
      <4> QED
        BY <4>1, EmptyIsSeq
    <3>2. Head(toPico) \in Commands
      BY <3>1, FullFacts, HeadOfWire, RequestIsCommand
    <3> QED
      BY <2>4, <3>2 DEF DispatchNext, Next, MainLoop
  <2> QED
    BY <1>3, <2>1, <2>2, <2>3, <2>4 DEF PicoStep
<1> QED
  BY <1>1, <1>2, <1>3 DEF StreamNext

\* Stuttering.
LEMMA NothingHappens ==
    ASSUME Full, NoNotices, UNCHANGED streamVars
    PROVE  StreamInv' /\ NoNotices'
<1>1. /\ UNCHANGED <<toPico, fromPico, pending, deferred, stage>>
      /\ UNCHANGED <<streaming, prebuffer, nextEvent, credit, batch, acksDue, staleCredit, played>>
      /\ UNCHANGED <<mode, queue, ended, uartFault, capture, backlog, loop>>
  BY DEF streamVars, link, feeder, progress, vars, core, capturing, playback
<1>2. StreamInv
  BY DEF Full
<1>3. Way' = Way /\ OnWay' = OnWay /\ Fresh' = Fresh /\ Setup' = Setup /\ StopAt' = StopAt /\ Due' = Due
  BY <1>1 DEF Way, OnWay, Fresh, Setup, StopAt, Due
<1>4. Feeding' = Feeding /\ NoModeSet' = NoModeSet /\ NoEvents' = NoEvents /\ Over' = Over /\ Running' = Running
      /\ Unfed' = Unfed /\ Counting' = Counting
  BY <1>1, <1>3 DEF Feeding, NoModeSet, NoEvents, Over, Running, Unfed, Counting
<1>5. Links' /\ Feeder'
  BY <1>1, <1>2, <1>3 DEF StreamInv, Links, Feeder
<1>6. Beginning' = Beginning /\ InOrder' = InOrder /\ Leaving' = Leaving /\ Said' = Said
  BY <1>1, <1>3, <1>4 DEF Beginning, InOrder, Leaving, Said
<1>7. Loading' = Loading
  BY <1>1, <1>3, <1>4 DEF Loading, Events
<1>8. Starting' = Starting /\ Playing' = Playing
  BY <1>1, <1>3, <1>4 DEF Starting, Playing, Events, EventsThen
<1>9. Doomed' = Doomed /\ Answers' = Answers
  BY <1>1, <1>3, <1>4 DEF Doomed, Answers
<1>10. Counted' = Counted
  BY <1>1, <1>3 DEF Counted, Outstanding, Settled, Numbers, Frees, Underruns
<1>11. CreditInv' = CreditInv
  BY <1>1, <1>4, <1>10 DEF CreditInv, CountOK
<1>12. Rows' = Rows
  BY <1>6, <1>7, <1>8 DEF Rows
<1> QED
  BY <1>1, <1>2, <1>3, <1>5, <1>9, <1>11, <1>12 DEF StreamInv, NoNotices

\* The invariant is inductive.
LEMMA StreamSteps == Full /\ NoNotices /\ [StreamNext]_streamVars => Full' /\ NoNotices'
<1> SUFFICES ASSUME Full, NoNotices, [StreamNext]_streamVars PROVE Full' /\ NoNotices'
  OBVIOUS
<1>1. IInv'
  <2>1. IInv /\ [Next]_vars
    BY StepIsFirmware DEF Full
  <2> QED
    BY <2>1, NextIInv
<1>2. StreamInv' /\ NoNotices'
  BY <1>1, ZeroKept, NoticesZero, PicoKept, NoticesPico, NothingHappens DEF StreamNext
<1> QED
  BY <1>1, <1>2 DEF Full

\* What links, feeder and firmware know of each other, always.
THEOREM StreamInvariance == StreamSpec => [](Full /\ NoNotices)
<1>1. StreamInit => Full /\ NoNotices
  BY StreamBegins
<1>2. (Full /\ NoNotices) /\ [StreamNext]_streamVars => (Full /\ NoNotices)'
  BY StreamSteps
<1> QED
  BY <1>1, <1>2, PTL DEF StreamSpec

-----------------------------------------------------------------------------
(* The properties. *)

LEMMA EventsOnWireCounted ==
    ASSUME Links
    PROVE  EventsOnWire \in Nat /\ EventsOnWire =< Len(toPico) /\ (NoEvents => EventsOnWire = 0)
<1> DEFINE D == 1..Len(toPico)
           E == {i \in D : toPico[i].type = "QUEUE_EVENT"}
<1>1. Len(toPico) \in Nat /\ DOMAIN toPico = D
  BY DEF Links
<1>2. IsFiniteSet(D) /\ Cardinality(D) = Len(toPico)
  <2>1. Cardinality(D) = IF 1 > Len(toPico) THEN 0 ELSE Len(toPico) - 1 + 1
    BY <1>1, FS_Interval
  <2> QED
    BY <1>1, <2>1, FS_Interval
<1>3. E \in SUBSET D
  OBVIOUS
<1>4. IsFiniteSet(E) /\ Cardinality(E) =< Cardinality(D)
  BY <1>2, <1>3, FS_Subset
<1>5. Cardinality(E) \in Nat
  BY <1>4, FS_CardinalityType
<1>6. NoEvents => Cardinality(E) = 0
  <2> SUFFICES ASSUME NoEvents PROVE E = {}
    BY FS_EmptySet
  <2> QED
    BY DEF NoEvents
<1>7. EventsOnWire = Cardinality(E)
  BY <1>1 DEF EventsOnWire
<1> HIDE DEF D, E
<1> QED
  BY <1>1, <1>2, <1>4, <1>5, <1>6, <1>7

\* What it says of the limits.
LEMMA LimitsKept == Full => WithinLimits
<1> SUFFICES ASSUME Full PROVE WithinLimits
  OBVIOUS
<1>1. IInv /\ Links /\ Feeder /\ CreditInv /\ Len(queue) \in Nat /\ Len(queue) =< QueueCapacity
      /\ Len(toPico) \in Nat
  BY FullFacts
<1>2. TypeOK
  BY <1>1 DEF IInv, RingOK, CoreInv, CoreTypeOK, Placed, LoopTypeOK, TypeOK
<1>3. StreamTypeOK
  BY <1>1, <1>2 DEF StreamTypeOK, Feeder
<1>4. ~staleCredit => WithinAdvertisedCapacity /\ PipelineFitsCommandRing
  <2> SUFFICES ASSUME ~staleCredit PROVE WithinAdvertisedCapacity /\ PipelineFitsCommandRing
    OBVIOUS
  <2>1. ~uartFault /\ (NoEvents \/ Len(queue) + Len(toPico) =< QueueCapacity)
    BY <1>1 DEF CreditInv, CountOK
  <2>2. EventsOnWire \in Nat /\ EventsOnWire =< Len(toPico) /\ (NoEvents => EventsOnWire = 0)
    BY <1>1, EventsOnWireCounted
  <2>3. Len(queue) + EventsOnWire =< QueueCapacity
    BY <1>1, <2>1, <2>2, CapacityAssumption
  <2> QED
    BY <2>1, <2>3 DEF WithinAdvertisedCapacity, PipelineFitsCommandRing
<1> QED
  BY <1>3, <1>4 DEF WithinLimits

\* Feeder and firmware stay within the playback queue and the command ring:
\* _await_credit and the batches of _send_through never write an event the
\* queue has no room for, nor more commands than the ring holds, whatever the
\* capacities, the window and the recording, as long as no PLAY_UNDERRUN kept
\* from an earlier wait has been read as fresh credit.
THEOREM WithinLimitsAlways == StreamSpec => []WithinLimits
  BY StreamInvariance, LimitsKept, PTL

\* Only a run gives the PC what is at the head of the queue.
LEMMA OutputOfPlay ==
    ASSUME Full, StreamNext, output' # output, output'.from = "playback"
    PROVE  PlayNext
<1>1. /\ [keys |-> NoKeys, from |-> "release"].from # "playback"
      /\ \A k : [keys |-> k, from |-> "release"].from # "playback" /\ [keys |-> k, from |-> "physical"].from # "playback"
  OBVIOUS
<1>2. ~ZeroStep
  BY DEF ZeroStep, vars, usb
<1>3. ~\E n \in 0..Len(toPico) : StreamPoll(n)
  BY DEF StreamPoll, UartPoll, usb
<1>4. ~DispatchNext
  BY DEF DispatchNext, DispatchCommand, usb
<1>5. ~LoopBody
  <2>1. ~ReleaseService /\ ~ForwardHead
    BY DEF ReleaseService, ForwardHead, Send, usb
  <2> QED
    BY <2>1 DEF LoopBody, TudTask, TuhTaskDone, TakeFault, DispatchDone, RecordHead, PhysicalDone,
                SchedulerResume, SchedulerDone, FlowCheck, WatchdogExpires, WatchdogQuiet, TxTask, usb
<1> QED
  BY <1>2, <1>3, <1>4, <1>5 DEF StreamNext, PicoStep

LEMMA PlayOrdered ==
    ASSUME Full, [StreamNext]_streamVars, output' # output, output'.from = "playback"
    PROVE  output'.keys = played + 1
<1>1. PlayNext
  BY OutputOfPlay DEF streamVars, vars, usb
<1>2. running /\ queue # <<>> /\ output' = [keys |-> queue[1], from |-> "playback"]
  BY <1>1 DEF PlayNext, SchedulerDispatch, Send
<1>3. mode = "PLAYING"
  BY <1>2, FullFacts, BaseFacts
<1>4. InOrder /\ Len(queue) \in Nat
  BY <1>3, FullFacts DEF Rows
<1>5. queue[1] = played + 1
  <2>1. queue \in Seq(Reports)
    BY FullFacts
  <2>2. 1 \in 1..Len(queue)
    BY <1>2, <2>1
  <2> QED
    BY <1>4, <2>2 DEF InOrder
<1> QED
  BY <1>2, <1>5

\* The PC is given the events in recording order, each once: batches, credit
\* waits and the commands on the wire neither skip nor repeat an event.
THEOREM PlayedInOrderAlways == StreamSpec => PlayedInOrder
<1> DEFINE A == output' # output /\ output'.from = "playback" => output'.keys = played + 1
<1>1. Full /\ NoNotices /\ [StreamNext]_streamVars => [A]_streamVars
  BY PlayOrdered
<1> QED
  BY <1>1, StreamInvariance, PTL DEF StreamSpec, PlayedInOrder

\* A session that ends well has played the recording to its last event and left
\* the Pico in PASS: QUEUE_END overtakes no event, and the MODE_CHANGED taken
\* for the end of the run is the one the scheduler's end sent (_finish).
THEOREM DoneMeansPlayedAlways == StreamSpec => []DoneMeansPlayed
<1>1. Full => DoneMeansPlayed
  BY FullFacts DEF DoneMeansPlayed, Rows, Leaving, Doomed
<1> QED
  BY <1>1, StreamInvariance, PTL

-----------------------------------------------------------------------------
(* Why a session fails. *)

\* While PLAY_START is on its way the TX ring has room for what a start says.
RoomToStart == stage = "accepted" /\ toPico # <<>> => RoomForRun

Answered == stage = "accepted" /\ mode # "ERROR" /\ toPico = <<>> => StartNews \in OnWay

Told == Answered /\ FailsOnlyOnPicoError

LEMMA ErrorStays ==
    ASSUME PicoKind, mode = "ERROR"
    PROVE  mode' = "ERROR"
  BY DEF PicoKind, PicoQuiet, PicoOverrun, PicoStop, PicoFinish, PicoStarve, PicoPlay, PicoArm, PicoPass,
         PicoClear, PicoAccept, PicoClose, PicoStart

LEMMA ToldByPico ==
    ASSUME Full, Told, RoomToStart, PicoStep
    PROVE  Told'
<1>1. PicoKind /\ Tidy /\ fromPico' = fromPico \o tx'.sent /\ UNCHANGED feeder
  BY FullFacts, PicoKinds
<1>2. tx'.sent \in Seq(Frame) /\ UNCHANGED <<pending, deferred, stage, prebuffer>>
  BY <1>1 DEF Tidy, feeder, progress
<1>3. OnWay' = OnWay \cup Range(tx'.sent)
  BY <1>1, <1>2, FullFacts, WayGrows
<1>4. mode = "ERROR" => mode' = "ERROR"
  BY <1>1, ErrorStays
<1>5. FailsOnlyOnPicoError'
  BY <1>2, <1>4 DEF Told, FailsOnlyOnPicoError
<1>6. ASSUME stage = "accepted", mode' # "ERROR", toPico' = <<>>, toPico # <<>>
      PROVE  StartNews \in Range(tx'.sent)
  <2>1. mode # "ERROR" /\ RoomForRun /\ Links
    BY <1>4, <1>6, FullFacts DEF RoomToStart
  <2>2. toPico = <<Plain("PLAY_START")>>
    BY <1>6, <2>1, FullFacts DEF Rows, Starting
  <2>3. Head(toPico) = Plain("PLAY_START")
    BY <2>2, LenOfOne
  <2>4. toPico' # toPico
    BY <1>6
  <2>5. ~SameWire /\ ~PicoOverrun /\ ~PicoStop
    BY <1>6, <2>4 DEF SameWire, PicoOverrun, PicoStop
  <2>6. Head(toPico) # SetMode("ARMED") /\ Head(toPico) # SetMode("PASS") /\ Head(toPico) # Plain("QUEUE_CLEAR")
        /\ Head(toPico) # Plain("QUEUE_END") /\ Head(toPico).type # "QUEUE_EVENT"
    BY <2>3, RequestsDiffer, RequestTypes
  <2>7. PicoStart
    BY <1>1, <2>5, <2>6 DEF PicoKind, PicoQuiet, PicoFinish, PicoStarve, PicoPlay, PicoArm, PicoPass,
                            PicoClear, PicoAccept, PicoClose
  <2>8. tx'.sent # <<>> /\ tx'.sent[1] = StartNews
    BY <2>1, <2>7 DEF PicoStart
  <2>9. 1 \in 1..Len(tx'.sent)
    BY <1>2, <2>8
  <2> QED
    BY <1>2, <2>8, <2>9, InRange
<1>7. Answered'
  BY <1>2, <1>3, <1>4, <1>6 DEF Told, Answered
<1> QED
  BY <1>5, <1>7 DEF Told

\* A wait that gives up has seen the ERROR, or a queue too small.
LEMMA ToldByZero ==
    ASSUME Full, Told, ZeroStep, stage' = "failed"
    PROVE  mode = "ERROR" \/ prebuffer > QueueCapacity
<1> SUFFICES ASSUME mode # "ERROR" PROVE prebuffer > QueueCapacity
  OBVIOUS
<1>0. Rows /\ Links /\ Feeder /\ Answers /\ OnWay \subseteq Frame
  BY FullFacts, WayFrames
<1>1. ASSUME NEW from, Await(from) PROVE stage = from /\ CanRead /\ NextFrame \in OnWay
  BY <1>1, ReadFacts DEF Await
<1>2. ~ErrorSeen
  <2> SUFFICES ASSUME ErrorSeen PROVE FALSE
    OBVIOUS
  <2>1. CanRead /\ Waiting /\ NextFrame \in OnWay /\ NextFrame.type = "MODE_CHANGED" /\ NextFrame.state = "ERROR"
    BY ReadFacts DEF ErrorSeen, IsError
  <2>2. ~IsStatus(NextFrame) /\ ~RunFrame(NextFrame) /\ NextFrame # StartNews /\ NextFrame # ArmedNews /\ NextFrame # PassNews
        /\ NextFrame # Plain("PLAY_READY") /\ NextFrame.type # "PLAY_READY"
    BY <2>1 DEF IsStatus, RunFrame, IsUnderrun, StartNews, ArmedNews, PassNews, FinishedNews, ModeChanged, Plain
  <2>3. stage # "accepted" /\ stage # "epoch" /\ stage \notin Closing /\ ~Feeding
    BY <1>0, <2>1, <2>2 DEF Rows, Said
  <2>4. stage \notin Setup
    BY <1>0, <2>1, <2>2 DEF Rows, Loading
  <2>5. stage \in {"arming", "returning"}
    BY <1>0, <2>1, <2>3, <2>4, WaitStages DEF Setup, Feeding, Closing, Feeder
  <2>6. pending = <<>> /\ fromPico # <<>> /\ NextFrame = fromPico[1]
    BY <1>0, <2>1, <2>5, ReadFacts DEF Rows, Beginning, Leaving, Fresh
  <2>7. fromPico = <<ArmedNews>> \/ fromPico = <<PassNews>>
    BY <1>0, <2>5, <2>6 DEF Rows, Beginning, Leaving
  <2> QED
    BY <2>2, <2>6, <2>7, LenOfOne
<1>3. ~Armed
  <2> SUFFICES ASSUME Armed PROVE FALSE
    OBVIOUS
  <2>1. stage = "arming" /\ CanRead
    BY DEF Armed, Await
  <2>2. pending = <<>> /\ fromPico # <<>> /\ NextFrame = fromPico[1]
    BY <1>0, <2>1, ReadFacts DEF Rows, Beginning, Fresh
  <2>3. fromPico = <<ArmedNews>>
    BY <1>0, <2>1, <2>2 DEF Rows, Beginning
  <2>4. NextFrame = ModeChanged("ARMED", "OK")
    BY <2>2, <2>3, LenOfOne DEF ArmedNews
  <2> QED
    BY <2>4 DEF Armed, Proceed
<1>4. CASE Cleared
  <2>1. stage = "clearing" /\ CanRead /\ IsStatus(NextFrame) /\ NextFrame \in OnWay /\ stage \in Setup
    BY <1>1, <1>4 DEF Cleared, Await, Wanted, Awaited, IsStatus, Setup
  <2>2. NextFrame.state = "ARMED" /\ NextFrame.free = QueueCapacity
    BY <1>0, <2>1 DEF Answers, Rows, Loading
  <2>3. ~(prebuffer =< QueueCapacity)
    BY <1>4, <2>2 DEF Cleared, Proceed
  <2>4. prebuffer \in Nat /\ QueueCapacity \in Nat
    BY <1>0, StreamAssumption, CapacityAssumption DEF Feeder
  <2> QED
    BY <2>3, <2>4
<1>5. ~EndAcknowledged
  <2> SUFFICES ASSUME EndAcknowledged PROVE FALSE
    OBVIOUS
  <2>1. stage = "endAck" /\ CanRead /\ IsStatus(NextFrame) /\ NextFrame \in OnWay /\ stage \in Setup
    BY <1>1 DEF EndAcknowledged, Await, Wanted, Awaited, IsStatus, Setup
  <2>2. NextFrame.state = "ARMED"
    BY <1>0, <2>1 DEF Answers
  <2> QED
    BY <2>2 DEF EndAcknowledged, Proceed
<1>6. ~Accepted
  <2> SUFFICES ASSUME Accepted PROVE FALSE
    OBVIOUS
  <2>1. stage = "accepted" /\ CanRead /\ NextFrame.type = "MODE_CHANGED" /\ ~IsError(NextFrame) /\ NextFrame \in OnWay
        /\ Consume(deferred) /\ deferred' = <<>>
    BY <1>1 DEF Accepted, Await, Wanted, Awaited
  <2>2. NextFrame # StartNews
    BY DEF Accepted, Proceed, StartNews
  <2>3. RunFrame(NextFrame)
    BY <1>0, <2>1, <2>2 DEF Rows, Said
  <2>4. NextFrame = FinishedNews
    BY <2>1, <2>3 DEF RunFrame, IsStatus, IsUnderrun
  <2>5. toPico = <<>>
    BY <1>0, <2>1, <2>4 DEF Rows, Said, Over
  <2>6. StartNews \in OnWay
    BY <2>1, <2>5 DEF Told, Answered
  <2>7. stage \in DOMAIN Answer /\ Answer[stage] = StartNews
    BY <2>1, AnswerFields
  <2> QED
    BY <2>1, <2>2, <2>6, <2>7, AnswerRead
<1>7. ~Acknowledged
  <2> SUFFICES ASSUME Acknowledged PROVE FALSE
    OBVIOUS
  <2>1. stage = "acks" /\ CanRead /\ IsStatus(NextFrame) /\ NextFrame \in OnWay /\ stage \in Feeds
    BY <1>1 DEF Acknowledged, Await, Wanted, Awaited, IsStatus, Feeds
  <2>2. NextFrame.state = ExpectedState
    BY <2>1, FeedFinds
  <2> QED
    BY <2>2 DEF Acknowledged, Proceed
<1>8. ~CreditNotice
  <2> SUFFICES ASSUME CreditNotice PROVE FALSE
    OBVIOUS
  <2>1. stage = "credit" /\ CanRead /\ NextFrame \in OnWay /\ stage \in Feeds
    BY ReadFacts DEF CreditNotice, Feeds
  <2>2. NextFrame.type = "BUFFER_STATUS" => NextFrame.state = ExpectedState
    BY <2>1, FeedFinds DEF IsStatus
  <2> QED
    BY <2>1, <2>2 DEF CreditNotice, Proceed
<1>9. ~Finished
  <2> SUFFICES ASSUME Finished PROVE FALSE
    OBVIOUS
  <2>1. stage = "finished" /\ CanRead /\ NextFrame.type = "MODE_CHANGED" /\ NextFrame \in OnWay
    BY ReadFacts DEF Finished, Wanted, Awaited
  <2>2. RunFrame(NextFrame)
    BY <1>0, <2>1 DEF Rows, Said, Closing
  <2>3. NextFrame = ModeChanged("ARMED", "FINISHED")
    BY <2>1, <2>2 DEF RunFrame, IsStatus, IsUnderrun, FinishedNews
  <2> QED
    BY <2>3 DEF Finished, Proceed
<1>10. ~Returned
  <2> SUFFICES ASSUME Returned PROVE FALSE
    OBVIOUS
  <2>1. stage = "returning" /\ CanRead
    BY DEF Returned, Await
  <2>2. pending = <<>> /\ fromPico # <<>> /\ NextFrame = fromPico[1]
    BY <1>0, <2>1, ReadFacts DEF Rows, Leaving
  <2>3. fromPico = <<PassNews>>
    BY <1>0, <2>1, <2>2 DEF Rows, Leaving
  <2>4. NextFrame = ModeChanged("PASS", "OK")
    BY <2>2, <2>3, LenOfOne DEF PassNews
  <2> QED
    BY <2>4 DEF Returned, Proceed
<1>11. ~DeferFrame
  BY WaitStages DEF DeferFrame
<1>12. ~Begin /\ ~Prebuffered /\ ~Ready /\ ~EpochKnown /\ ~SendBatch /\ ~OutOfCredit /\ ~AllSent /\ ~Outcome /\ ~Metrics
  BY DEF Begin, Prebuffered, Ready, EpochKnown, SendBatch, OutOfCredit, AllSent, Outcome, Metrics, Proceed
<1> QED
  BY <1>2, <1>3, <1>4, <1>5, <1>6, <1>7, <1>8, <1>9, <1>10, <1>11, <1>12 DEF ZeroStep

LEMMA AnsweredByZero ==
    ASSUME Full, Told, ZeroStep, stage' = "accepted", mode # "ERROR", toPico' = <<>>
    PROVE  StartNews \in OnWay'
<1>0. Links /\ Apart
  BY FullFacts DEF ZeroStep, Apart
<1>1. ASSUME toPico' = toPico \o <<Plain("PLAY_START")>> PROVE FALSE
  <2> DEFINE d == <<Plain("PLAY_START")>>
  <2>1. d \in Seq(Request) /\ Len(d) = 1
    <3>1. Plain("PLAY_START") \in Request
      BY DEF Request
    <3> QED
      BY <3>1, OneOnWire
  <2>2. toPico' = toPico \o d
    BY <1>1
  <2> HIDE DEF d
  <2>3. Len(toPico') = Len(toPico) + Len(d) /\ Len(toPico) \in Nat
    BY <1>0, <2>1, <2>2, WireGrows
  <2>4. Len(toPico') = 0
    BY EmptyIsSeq
  <2> QED
    BY <2>1, <2>3, <2>4
<1>2. ~Prebuffered /\ ~EndAcknowledged
  BY <1>1 DEF Prebuffered, EndAcknowledged, Proceed, Fail
<1>3. CASE DeferFrame
  <2>1. OnWay' = OnWay /\ stage = "accepted" /\ toPico = <<>>
    BY <1>0, <1>3, WayDeferred DEF DeferFrame
  <2> QED
    BY <2>1 DEF Told, Answered
<1>4. DeferFrame
  BY <1>2 DEF ZeroStep, ErrorSeen, Begin, Armed, Cleared, Ready, Accepted, EpochKnown, SendBatch, Acknowledged, OutOfCredit,
              CreditNotice, AllSent, Outcome, Metrics, Finished, Returned, Proceed, Fail, Await
<1> QED
  BY <1>3, <1>4

\* A session gives up for a reason, and PLAY_START is answered.
LEMMA ToldKept == Full /\ Told /\ RoomToStart /\ [StreamNext]_streamVars => Told'
<1> SUFFICES ASSUME Full, Told, RoomToStart, [StreamNext]_streamVars PROVE Told'
  OBVIOUS
<1>1. CASE PicoStep
  BY <1>1, ToldByPico
<1>2. CASE ZeroStep
  <2>1. UNCHANGED mode
    BY <1>2, PicoSame DEF ZeroStep, Apart
  <2>2. prebuffer' = prebuffer
    BY <1>2 DEF ZeroStep, DeferFrame, ErrorSeen, Begin, Armed, Cleared, Prebuffered, Ready, EndAcknowledged, Accepted, EpochKnown,
                SendBatch, Acknowledged, OutOfCredit, CreditNotice, AllSent, Outcome, Metrics, Finished, Returned, Proceed, Fail, progress
  <2>3. FailsOnlyOnPicoError'
    BY <1>2, <2>1, <2>2, ToldByZero DEF FailsOnlyOnPicoError
  <2>4. Answered'
    BY <1>2, <2>1, AnsweredByZero DEF Answered
  <2> QED
    BY <2>3, <2>4 DEF Told
<1>3. CASE UNCHANGED streamVars
  <2>1. UNCHANGED <<mode, toPico, fromPico, pending, deferred, stage, prebuffer>>
    BY <1>3 DEF streamVars, link, feeder, progress, vars, core
  <2> QED
    BY <2>1 DEF Told, Answered, FailsOnlyOnPicoError, OnWay, Way
<1> QED
  BY <1>1, <1>2, <1>3 DEF StreamNext

\* How a session ends is what happened, for every recording, window and
\* capacity, as long as the TX ring has room for a start's announcements when
\* PLAY_START is dispatched: a success has played to the last event and left
\* the Pico in PASS, a failure means that the Pico is in ERROR or that the
\* recording needs more prebuffer than the Pico can hold (start, finish).
THEOREM EndIsTrueAlways == StreamSpec /\ []RoomToStart => []EndIsTrue
<1>1. StreamInit => Told
  BY DEF StreamInit, Told, Answered, FailsOnlyOnPicoError
<1>2. Full /\ NoNotices /\ Told /\ RoomToStart /\ [StreamNext]_streamVars => Told'
  BY ToldKept
<1>3. Told /\ DoneMeansPlayed => EndIsTrue
  BY DEF Told, EndIsTrue
<1> QED
  BY <1>1, <1>2, <1>3, StreamInvariance, DoneMeansPlayedAlways, PTL DEF StreamSpec

=============================================================================
