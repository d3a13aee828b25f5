------------------------- MODULE PicoFirmwareProofs -------------------------
(***************************************************************************)
(* Proofs about PicoFirmware, for every set of reports, every capacity and *)
(* every drain behaviour of the UART.                                      *)
(*                                                                         *)
(* CoreInv is about the state the handlers share and holds after every     *)
(* handler, whoever calls it; ReleaseGoesFirst and the last clause of      *)
(* WaitMatchesQueue are about where in the main loop a handler runs.       *)
(*                                                                         *)
(* The last part tells how the end of a run is told.  With room for a      *)
(* start and an end in the TX ring no frame of the step is dropped         *)
(* (Queued), so the frames of each handler can be named; and only a        *)
(* handler that stops the run names an outcome.                            *)
(***************************************************************************)
EXTENDS PicoFirmware, SequenceLemmas

RingOK(ring) == ring.used \in 0..TxCapacity

CoreTypeOK ==
    /\ releasePending \in BOOLEAN
    /\ mode \in Modes
    /\ capture \in Seq(Entries) /\ Len(capture) =< CaptureCapacity
    /\ headRecorded \in BOOLEAN
    /\ queue \in Seq(Reports) /\ Len(queue) =< QueueCapacity
    /\ running \in BOOLEAN
    /\ ended \in BOOLEAN
    /\ waiting \in BOOLEAN
    /\ underrun \in BOOLEAN
    /\ flowFault \in BOOLEAN

WaitIsForQueue ==
    /\ waiting = underrun
    /\ running /\ queue = <<>> => waiting
    /\ waiting => running

CoreInv ==
    /\ CoreTypeOK
    /\ RunMatchesMode
    /\ WaitIsForQueue
    /\ FlowFaultIsLive
    /\ NothingLeftBehind
    /\ RecordedOnce

-----------------------------------------------------------------------------
(* The TX ring. *)

\* Every frame the firmware sends has a size.
LEMMA FrameBytesNat == \A type \in PicoToZero : FrameBytes(type) \in Nat
  BY DEF PicoToZero, PayloadLen, FrameBytes

\* queue_frame never overruns the ring, whatever frame it is given.
LEMMA QueueFrameOK ==
  ASSUME NEW STATE ring, RingOK(ring), NEW frame, frame.type \in PicoToZero
  PROVE  RingOK(QueueFrame(ring, frame))
  <1>1. FrameBytes(frame.type) \in Nat
    BY FrameBytesNat
  <1> QED
    BY <1>1, CapacityAssumption DEF RingOK, QueueFrame, Fits

LEMMA CompleteRunOK ==
  ASSUME NEW STATE ring, RingOK(ring), NEW outcome \in PicoToZero
  PROVE  RingOK(CompleteRun(ring, outcome))
  <1>1. /\ Plain(outcome).type \in PicoToZero
        /\ Plain("PLAY_METRICS").type \in PicoToZero
    BY DEF Plain, PicoToZero, PayloadLen
  <1> QED
    BY <1>1, QueueFrameOK DEF CompleteRun

LEMMA StopRunOK ==
  ASSUME NEW STATE ring, RingOK(ring)
  PROVE  RingOK(StopRun(ring))
  <1>1. "PLAY_ABORTED" \in PicoToZero
    BY DEF PicoToZero, PayloadLen
  <1> QED
    BY <1>1, CompleteRunOK DEF StopRun

LEMMA ModeChangedFrame ==
  ASSUME NEW state, NEW reason
  PROVE  ModeChanged(state, reason).type \in PicoToZero
  BY DEF ModeChanged, PicoToZero, PayloadLen

LEMMA QuietOK ==
  ASSUME RingOK(tx)
  PROVE  RingOK(Quiet)
  BY DEF RingOK, Quiet

-----------------------------------------------------------------------------
(* The handlers of the mode machine. *)

\* The conclusion every handler lemma reaches.
Sound == CoreInv' /\ RingOK(tx')

LEMMA EmptyQueues ==
  /\ <<>> \in Seq(Entries) /\ <<>> \in Seq(Reports)
  /\ Len(<<>>) =< CaptureCapacity /\ Len(<<>>) =< QueueCapacity
  BY CapacityAssumption

\* A transition out of a run, or between modes without one.
LEMMA EnterModeSound ==
  ASSUME NEW state \in Modes \ {"PLAYING"}, NEW reason,
         NEW STATE ring, RingOK(ring),
         EnterMode(state, reason, ring)
  PROVE  Sound
  <1>1. RingOK(tx')
    BY StopRunOK, QueueFrameOK, ModeChangedFrame DEF EnterMode
  <1>2. CoreTypeOK'
    BY EmptyQueues
    DEF CoreTypeOK, EnterMode, ClearReleaseAndQueue, ClearAndRelease
  <1>3. (RunMatchesMode /\ WaitIsForQueue /\ FlowFaultIsLive)'
    BY DEF RunMatchesMode, WaitIsForQueue, FlowFaultIsLive, EnterMode,
           ClearReleaseAndQueue, ClearAndRelease
  <1>4. (NothingLeftBehind /\ RecordedOnce)'
    BY DEF NothingLeftBehind, RecordedOnce, EnterMode, ClearReleaseAndQueue,
           ClearAndRelease
  <1> QED
    BY <1>1, <1>2, <1>3, <1>4 DEF Sound, CoreInv

LEMMA CoreUnchangedSound ==
  ASSUME CoreInv, RingOK(tx'), UNCHANGED core
  PROVE  Sound
  <1>1. UNCHANGED <<mode, releasePending, capture, headRecorded, queue, running,
                    ended, waiting, underrun, flowFault>>
    BY DEF core, capturing, playback
  <1> QED
    BY <1>1 DEF Sound, CoreInv, CoreTypeOK, RunMatchesMode, WaitIsForQueue,
           FlowFaultIsLive, NothingLeftBehind, RecordedOnce

LEMMA NotifySound ==
  ASSUME CoreInv, NEW reason, NEW STATE ring, RingOK(ring), Notify(reason, ring)
  PROVE  Sound
  BY QueueFrameOK, ModeChangedFrame, CoreUnchangedSound DEF Notify

LEMMA EnterErrorSound ==
  ASSUME CoreInv, NEW reason, NEW STATE ring, RingOK(ring), EnterError(reason, ring)
  PROVE  Sound
  <1>1. "ERROR" \in Modes \ {"PLAYING"}
    BY DEF Modes
  <1> QED
    BY <1>1, NotifySound, EnterModeSound DEF EnterError

LEMMA ModeSetSound ==
  ASSUME CoreInv, RingOK(tx), NEW target \in Modes, ModeSet(target)
  PROVE  Sound
  <1>1. RingOK(Quiet)
    BY QuietOK
  <1>2. SettableModes \subseteq Modes \ {"PLAYING"}
    BY DEF SettableModes, Modes
  <1> QED
    BY <1>1, <1>2, NotifySound, EnterModeSound DEF ModeSet

LEMMA PlayAbortSound ==
  ASSUME CoreInv, RingOK(tx), PlayAbort
  PROVE  Sound
  <1>1. "ARMED" \in Modes \ {"PLAYING"}
    BY DEF Modes
  <1> QED
    BY <1>1, QuietOK, NotifySound, EnterModeSound DEF PlayAbort

-----------------------------------------------------------------------------
(* The scheduler's run. *)

LEMMA FinishRunSound ==
  ASSUME NEW STATE ring, RingOK(ring), FinishRun(ring)
  PROVE  Sound
  <1>1. RingOK(tx')
    <2>1. "PLAY_FINISHED" \in PicoToZero
      BY DEF PicoToZero, PayloadLen
    <2> QED
      BY <2>1, CompleteRunOK, QueueFrameOK, ModeChangedFrame DEF FinishRun
  <1>2. CoreTypeOK'
    BY EmptyQueues
    DEF CoreTypeOK, FinishRun, ClearReleaseAndQueue, ClearAndRelease, Modes
  <1>3. (RunMatchesMode /\ WaitIsForQueue /\ FlowFaultIsLive)'
    BY DEF RunMatchesMode, WaitIsForQueue, FlowFaultIsLive, FinishRun,
           ClearReleaseAndQueue, ClearAndRelease
  <1>4. (NothingLeftBehind /\ RecordedOnce)'
    BY DEF NothingLeftBehind, RecordedOnce, FinishRun, ClearReleaseAndQueue,
           ClearAndRelease
  <1> QED
    BY <1>1, <1>2, <1>3, <1>4 DEF Sound, CoreInv

\* A run goes on, from ARMED or in PLAYING, with the events it is left with.
LEMMA ContinueRunSound ==
  ASSUME CoreInv, mode \in {"ARMED", "PLAYING"},
         NEW STATE events, events \in Seq(Reports), Len(events) =< QueueCapacity,
         NEW STATE starving, starving \in BOOLEAN,
         NEW STATE lost, lost \in BOOLEAN,
         NEW STATE ring, RingOK(ring),
         ContinueRun(events, starving, lost, ring),
         releasePending' \in BOOLEAN,
         capture' = <<>>, headRecorded' = FALSE
  PROVE  Sound
  <1>1. RingOK(tx')
    <2>1. PlayUnderrun(QueueCapacity).type \in PicoToZero
      BY DEF PlayUnderrun, PicoToZero, PayloadLen
    <2> QED
      BY <2>1, QueueFrameOK DEF ContinueRun
  <1>2. CoreTypeOK'
    <2>1. /\ mode' = "PLAYING" /\ queue' = events /\ running' = TRUE
          /\ ended' = ended /\ waiting' \in BOOLEAN /\ underrun' \in BOOLEAN
      BY DEF ContinueRun
    <2>2. flowFault' \in BOOLEAN
      BY Zenon DEF ContinueRun
    <2> QED
      BY <2>1, <2>2, EmptyQueues DEF CoreInv, CoreTypeOK, Modes
  <1>3. (RunMatchesMode /\ WaitIsForQueue /\ FlowFaultIsLive)'
    BY DEF RunMatchesMode, WaitIsForQueue, FlowFaultIsLive, ContinueRun
  <1>4. (NothingLeftBehind /\ RecordedOnce)'
    BY DEF NothingLeftBehind, RecordedOnce, ContinueRun
  <1> QED
    BY <1>1, <1>2, <1>3, <1>4 DEF Sound, CoreInv

LEMMA PlayStartSound ==
  ASSUME CoreInv, RingOK(tx), PlayStart
  PROVE  Sound
  <1> DEFINE ring == QueueFrame(QueueFrame(Quiet, ModeChanged("PLAYING", "OK")),
                                Plain("PLAY_STARTED"))
  <1>1. RingOK(ring)
    <2>1. Plain("PLAY_STARTED").type \in PicoToZero
      BY DEF Plain, PicoToZero, PayloadLen
    <2> QED
      BY <2>1, QuietOK, QueueFrameOK, ModeChangedFrame
  <1> HIDE DEF ring
  <1>2. CASE mode # "ARMED" /\ Notify("INVALID_TRANSITION", Quiet)
    BY <1>2, QuietOK, NotifySound
  <1>3. CASE FinishRun(ring)
    BY <1>1, <1>3, FinishRunSound
  <1>4. CASE mode = "ARMED" /\ ClearAndRelease
               /\ ContinueRun(queue, FALSE, flowFault, ring)
    <2>1. /\ queue \in Seq(Reports) /\ Len(queue) =< QueueCapacity
          /\ flowFault \in BOOLEAN
      BY DEF CoreInv, CoreTypeOK
    <2>2. /\ releasePending' \in BOOLEAN
          /\ capture' = <<>> /\ headRecorded' = FALSE
      BY <1>4 DEF ClearAndRelease
    <2> QED
      BY <1>1, <1>4, <2>1, <2>2, ContinueRunSound
  <1> QED
    BY <1>2, <1>3, <1>4 DEF PlayStart, ring

-----------------------------------------------------------------------------
(* Queue commands. *)

LEMMA RepliesHaveSize ==
  ASSUME NEW STATE state, NEW STATE free
  PROVE  /\ BufferStatus(state, free).type \in PicoToZero
         /\ PicoStatus(state).type \in PicoToZero
         /\ Plain("PONG").type \in PicoToZero
         /\ Plain("PLAY_READY").type \in PicoToZero
  BY DEF BufferStatus, PicoStatus, Plain, PicoToZero, PayloadLen

LEMMA QueueClearSound ==
  ASSUME CoreInv, RingOK(tx), mode = "ARMED", QueueClear
  PROVE  Sound
  <1>1. CASE Fits(Quiet, "BUFFER_STATUS")
    <2>1. RingOK(tx')
      BY <1>1, QuietOK, QueueFrameOK, RepliesHaveSize DEF QueueClear
    <2>2. /\ ~running
          /\ UNCHANGED <<mode, releasePending, capture, headRecorded, running,
                         flowFault>>
          /\ queue' = <<>> /\ ended' = FALSE /\ waiting' = FALSE
          /\ underrun' = FALSE
      BY <1>1 DEF QueueClear, CoreInv, CoreTypeOK, RunMatchesMode, capturing
    <2>3. CoreInv'
      BY <2>2, EmptyQueues
      DEF CoreInv, CoreTypeOK, RunMatchesMode, WaitIsForQueue,
          FlowFaultIsLive, NothingLeftBehind, RecordedOnce
    <2> QED
      BY <2>1, <2>3 DEF Sound
  <1>2. CASE ~Fits(Quiet, "BUFFER_STATUS")
    BY <1>2, QuietOK, EnterErrorSound DEF QueueClear
  <1> QED
    BY <1>1, <1>2

LEMMA QueueEventSound ==
  ASSUME CoreInv, RingOK(tx), mode \in {"ARMED", "PLAYING"},
         NEW report \in Reports, QueueEvent(report)
  PROVE  Sound
  <1>1. CASE Len(queue) < QueueCapacity /\ Fits(Quiet, "BUFFER_STATUS")
    <2>1. RingOK(tx')
      BY <1>1, QuietOK, QueueFrameOK, RepliesHaveSize DEF QueueEvent
    <2>2. /\ UNCHANGED <<mode, releasePending, capture, headRecorded, running,
                         ended, waiting, underrun, flowFault>>
          /\ queue' = Append(queue, report)
      BY <1>1 DEF QueueEvent, capturing
    <2>3. queue \in Seq(Reports)
      BY DEF CoreInv, CoreTypeOK
    <2>4. /\ queue' \in Seq(Reports) /\ queue' # <<>>
          /\ Len(queue') =< QueueCapacity
      BY <1>1, <2>2, <2>3, AppendProperties, LenProperties, CapacityAssumption
    <2>5. CoreInv'
      BY <2>2, <2>4
      DEF CoreInv, CoreTypeOK, RunMatchesMode, WaitIsForQueue,
          FlowFaultIsLive, NothingLeftBehind, RecordedOnce
    <2> QED
      BY <2>1, <2>5 DEF Sound
  <1>2. CASE ~(Len(queue) < QueueCapacity /\ Fits(Quiet, "BUFFER_STATUS"))
    BY <1>2, QuietOK, EnterErrorSound DEF QueueEvent
  <1> QED
    BY <1>1, <1>2

LEMMA QueueEndSound ==
  ASSUME CoreInv, RingOK(tx), mode \in {"ARMED", "PLAYING"}, QueueEnd
  PROVE  Sound
  <1> DEFINE ring == IF mode = "ARMED"
                     THEN QueueFrame(Quiet, Plain("PLAY_READY")) ELSE Quiet
  <1>1. RingOK(ring)
    BY QuietOK, QueueFrameOK, RepliesHaveSize
  <1> HIDE DEF ring
  <1>2. CASE Fits(ring, "BUFFER_STATUS")
    <2>1. /\ UNCHANGED <<mode, releasePending, capture, headRecorded, queue,
                         running, waiting, underrun, flowFault>>
          /\ ended' = TRUE
          /\ tx' = QueueFrame(ring,
                       BufferStatus(mode, QueueCapacity - Len(queue)))
      BY <1>2 DEF QueueEnd, capturing, ring
    <2>2. RingOK(tx')
      BY <1>1, <2>1, QueueFrameOK, RepliesHaveSize
    <2>3. CoreInv'
      BY <2>1
      DEF CoreInv, CoreTypeOK, RunMatchesMode, WaitIsForQueue,
          FlowFaultIsLive, NothingLeftBehind, RecordedOnce
    <2> QED
      BY <2>2, <2>3 DEF Sound
  <1>3. CASE ~Fits(ring, "BUFFER_STATUS")
    <2>1. EnterError("PROTOCOL_ERROR", ring)
      BY <1>3 DEF QueueEnd, ring
    <2> QED
      BY <1>1, <2>1, EnterErrorSound
  <1> QED
    BY <1>2, <1>3

LEMMA QueueCommandSound ==
  ASSUME CoreInv, RingOK(tx), NEW command \in Commands,
         command.type \in QueueCommands, QueueCommand(command)
  PROVE  Sound
  <1>1. CASE EnterError("PROTOCOL_ERROR", Quiet)
    BY <1>1, QuietOK, EnterErrorSound
  <1>2. CASE /\ QueueCommandAllowed(command.type, mode)
             /\ command.type = "QUEUE_CLEAR" /\ QueueClear
    BY <1>2, QueueClearSound DEF QueueCommandAllowed
  <1>3. CASE /\ QueueCommandAllowed(command.type, mode)
             /\ command.type = "QUEUE_EVENT" /\ QueueEvent(command.report)
    <2>1. command.report \in Reports
      BY <1>3 DEF Commands
    <2> QED
      BY <1>3, <2>1, QueueEventSound DEF QueueCommandAllowed
  <1>4. CASE /\ QueueCommandAllowed(command.type, mode)
             /\ command.type = "QUEUE_END" /\ QueueEnd
    BY <1>4, QueueEndSound DEF QueueCommandAllowed
  <1> QED
    BY <1>1, <1>2, <1>3, <1>4 DEF QueueCommand

LEMMA ReplySound ==
  ASSUME CoreInv, RingOK(tx), NEW STATE frame, frame.type \in PicoToZero,
         Reply(frame)
  PROVE  Sound
  BY QuietOK, QueueFrameOK, CoreUnchangedSound DEF Reply

\* Whatever command arrives in whatever mode, the handler keeps CoreInv.
LEMMA DispatchSound ==
  ASSUME CoreInv, RingOK(tx), NEW command \in Commands, Dispatch(command)
  PROVE  Sound
  <1>1. CASE command.type = "MODE_SET" /\ ModeSet(command.target)
    <2>1. command.target \in Modes
      BY <1>1 DEF Commands
    <2> QED
      BY <1>1, <2>1, ModeSetSound
  <1>2. CASE PlayStart
    BY <1>2, PlayStartSound
  <1>3. CASE PlayAbort
    BY <1>3, PlayAbortSound
  <1>4. CASE Reply(Plain("PONG")) \/ Reply(PicoStatus(mode))
    BY <1>4, ReplySound, RepliesHaveSize
  <1>5. CASE command.type \in QueueCommands /\ QueueCommand(command)
    BY <1>5, QueueCommandSound
  <1> QED
    BY <1>1, <1>2, <1>3, <1>4, <1>5 DEF Dispatch

-----------------------------------------------------------------------------
(* Captured input. *)

LEMMA HeadOfSeq ==
  ASSUME NEW S, NEW STATE seq, seq \in Seq(S), seq # <<>>
  PROVE  seq[1] \in S
  <1>1. 1 \in 1..Len(seq)
    BY EmptySeq, LenProperties
  <1> QED
    BY <1>1, ElementOfSeq

LEMMA ReportReceivedSound ==
  ASSUME CoreInv, RingOK(tx), NEW report \in Reports, ReportReceived(report)
  PROVE  Sound
  <1> DEFINE entry == [report |-> report, events |-> 0]
  <1>1. /\ entry \in Entries /\ entry.events = 0
        /\ capture \in Seq(Entries) /\ Len(capture) \in Nat
        /\ capture' = Append(capture, entry) /\ Len(capture) < CaptureCapacity
    BY LenProperties DEF ReportReceived, Entries, CoreInv, CoreTypeOK
  <1> HIDE DEF entry
  <1>2. /\ capture' \in Seq(Entries) /\ Len(capture') = Len(capture) + 1
        /\ \A i \in 1..Len(capture) : capture'[i] = capture[i]
        /\ capture'[Len(capture) + 1] = entry
    BY <1>1, AppendProperties
  <1>3. /\ UNCHANGED <<mode, releasePending, headRecorded, queue, running,
                       ended, waiting, underrun, flowFault>>
        /\ mode \in {"PASS", "RECORD"}
    BY DEF ReportReceived, playback
  <1>4. CoreTypeOK'
    BY <1>1, <1>2, <1>3, CapacityAssumption DEF CoreInv, CoreTypeOK
  <1>5. (RunMatchesMode /\ WaitIsForQueue /\ FlowFaultIsLive
            /\ NothingLeftBehind)'
    BY <1>3 DEF CoreInv, RunMatchesMode, WaitIsForQueue, FlowFaultIsLive,
                NothingLeftBehind
  <1>6. RecordedOnce'
    <2>1. capture' # <<>>
      BY <1>1, <1>2
    <2>2. capture'[1].events = IF headRecorded' THEN 1 ELSE 0
      <3>1. CASE capture = <<>>
        BY <1>1, <1>2, <1>3, <3>1 DEF CoreInv, RecordedOnce
      <3>2. CASE capture # <<>>
        <4>1. 1 \in 1..Len(capture)
          BY <1>1, <3>2, EmptySeq
        <4> QED
          BY <1>2, <1>3, <3>2, <4>1 DEF CoreInv, RecordedOnce
      <3> QED
        BY <3>1, <3>2
    <2>3. \A i \in 2..Len(capture') : capture'[i].events = 0
      <3> SUFFICES ASSUME NEW i \in 2..Len(capture')
                   PROVE  capture'[i].events = 0
        OBVIOUS
      <3>1. CASE i = Len(capture) + 1
        BY <1>1, <1>2, <3>1
      <3>2. CASE i \in 2..Len(capture)
        <4>1. i \in 1..Len(capture)
          BY <1>1, <3>2
        <4> QED
          BY <1>2, <3>2, <4>1 DEF CoreInv, RecordedOnce
      <3> QED
        BY <1>1, <1>2, <3>1, <3>2
    <2> QED
      BY <1>3, <2>1, <2>2, <2>3 DEF CoreInv, RecordedOnce
  <1>7. RingOK(tx')
    BY QuietOK DEF ReportReceived
  <1> QED
    BY <1>4, <1>5, <1>6, <1>7 DEF Sound, CoreInv

LEMMA RecordHeadSound ==
  ASSUME CoreInv, RingOK(tx), RecordHead
  PROVE  Sound
  <1> DEFINE head == [capture[1] EXCEPT !.events = @ + 1]
  <1>1. /\ capture \in Seq(Entries) /\ capture # <<>> /\ 1 \in 1..Len(capture)
        /\ capture[1] \in Entries /\ capture[1].events = 0
        /\ ~headRecorded /\ mode = "RECORD"
    BY ElementOfSeq, EmptySeq, LenProperties
    DEF RecordHead, MustRecordHead, CoreInv, CoreTypeOK, RecordedOnce
  <1>2. head \in Entries /\ head.events = 1
    BY <1>1 DEF Entries
  <1>3. capture' = [capture EXCEPT ![1] = head]
    BY DEF RecordHead
  <1> HIDE DEF head
  <1>4. /\ capture' \in Seq(Entries) /\ Len(capture') = Len(capture)
        /\ capture'[1] = head
        /\ \A i \in 2..Len(capture) : capture'[i] = capture[i]
    BY <1>1, <1>2, <1>3, ExceptSeq
  <1>5. /\ UNCHANGED <<mode, releasePending, queue, running, ended, waiting,
                       underrun, flowFault>>
        /\ headRecorded' = TRUE
    BY DEF RecordHead, playback
  <1>6. CoreTypeOK'
    BY <1>4, <1>5 DEF CoreInv, CoreTypeOK
  <1>7. (RunMatchesMode /\ WaitIsForQueue /\ FlowFaultIsLive
            /\ NothingLeftBehind)'
    BY <1>1, <1>5 DEF CoreInv, RunMatchesMode, WaitIsForQueue,
                      FlowFaultIsLive, NothingLeftBehind
  <1>8. RecordedOnce'
    <2>1. capture' # <<>>
      BY <1>1, <1>4, EmptySeq
    <2> QED
      BY <1>1, <1>2, <1>4, <1>5, <2>1 DEF CoreInv, RecordedOnce
  <1>9. RingOK(tx')
    <2>1. RecordEvent(capture[1].report).type \in PicoToZero
      BY DEF RecordEvent, PicoToZero, PayloadLen
    <2> QED
      BY <2>1, QuietOK, QueueFrameOK DEF RecordHead
  <1> QED
    BY <1>6, <1>7, <1>8, <1>9 DEF Sound, CoreInv

LEMMA ForwardHeadSound ==
  ASSUME CoreInv, RingOK(tx), ForwardHead
  PROVE  Sound
  <1>1. /\ capture \in Seq(Entries) /\ capture # <<>>
        /\ Len(capture) \in Nat /\ Len(capture) =< CaptureCapacity
        /\ capture' = Tail(capture)
    BY LenProperties DEF ForwardHead, MayForwardHead, CoreInv, CoreTypeOK
  <1>2. /\ capture' \in Seq(Entries) /\ Len(capture') = Len(capture) - 1
        /\ \A i \in 1..Len(capture') : capture'[i] = capture[i + 1]
    BY <1>1, HeadTailProperties
  <1>3. /\ UNCHANGED <<mode, releasePending, queue, running, ended, waiting,
                       underrun, flowFault>>
        /\ headRecorded' = FALSE /\ mode \in {"PASS", "RECORD"}
    BY DEF ForwardHead, MayForwardHead, playback
  <1>4. CoreTypeOK'
    <2>1. Len(capture') =< CaptureCapacity
      BY <1>1, <1>2, CapacityAssumption
    <2> QED
      BY <1>2, <1>3, <2>1 DEF CoreInv, CoreTypeOK
  <1>5. (RunMatchesMode /\ WaitIsForQueue /\ FlowFaultIsLive
            /\ NothingLeftBehind)'
    BY <1>3 DEF CoreInv, RunMatchesMode, WaitIsForQueue, FlowFaultIsLive,
                NothingLeftBehind
  <1>6. \A i \in 1..Len(capture') : capture'[i].events = 0
    <2> SUFFICES ASSUME NEW i \in 1..Len(capture')
                 PROVE  capture'[i].events = 0
      OBVIOUS
    <2>1. i + 1 \in 2..Len(capture)
      BY <1>1, <1>2
    <2> QED
      BY <1>2, <2>1 DEF CoreInv, RecordedOnce
  <1>7. RecordedOnce'
    <2>1. capture' # <<>> => 1 \in 1..Len(capture')
      BY <1>2, EmptySeq, LenProperties
    <2>2. 2..Len(capture') \subseteq 1..Len(capture')
      BY <1>1, <1>2
    <2> QED
      BY <1>3, <1>6, <2>1, <2>2 DEF RecordedOnce
  <1>8. RingOK(tx')
    BY QuietOK DEF ForwardHead
  <1> QED
    BY <1>4, <1>5, <1>7, <1>8 DEF Sound, CoreInv

-----------------------------------------------------------------------------
(* The scheduler's task. *)

LEMMA SchedulerResumeSound ==
  ASSUME CoreInv, RingOK(tx), SchedulerResume
  PROVE  Sound
  <1>1. RingOK(Quiet)
    BY QuietOK
  <1>2. CASE FinishRun(Quiet)
    BY <1>1, <1>2, FinishRunSound
  <1>3. CASE /\ ContinueRun(queue, underrun, flowFault, Quiet)
             /\ UNCHANGED <<releasePending, capturing>>
    <2>1. mode = "PLAYING"
      BY DEF SchedulerResume, CoreInv, RunMatchesMode
    <2>2. capture = <<>> /\ headRecorded = FALSE
      BY <2>1 DEF CoreInv, CoreTypeOK, NothingLeftBehind, RecordedOnce
    <2>3. /\ queue \in Seq(Reports) /\ Len(queue) =< QueueCapacity
          /\ underrun \in BOOLEAN /\ flowFault \in BOOLEAN
          /\ releasePending \in BOOLEAN
      BY DEF CoreInv, CoreTypeOK
    <2>4. /\ capture' = <<>> /\ headRecorded' = FALSE
          /\ releasePending' \in BOOLEAN
      BY <1>3, <2>2, <2>3 DEF capturing
    <2> QED
      BY <1>1, <1>3, <2>1, <2>3, <2>4, ContinueRunSound
  <1> QED
    BY <1>2, <1>3 DEF SchedulerResume

LEMMA SchedulerDispatchSound ==
  ASSUME CoreInv, RingOK(tx), SchedulerDispatch
  PROVE  Sound
  <1> DEFINE rest == Tail(queue)
             edge == QueueWasFull /\ ~ended
             ring == IF edge
                     THEN QueueFrame(Quiet,
                              BufferStatus(mode, QueueCapacity - Len(rest)))
                     ELSE Quiet
             lost == flowFault \/ (edge /\ ~Fits(Quiet, "BUFFER_STATUS"))
  <1>1. RingOK(ring)
    BY QuietOK, QueueFrameOK, RepliesHaveSize
  <1>2. /\ queue \in Seq(Reports) /\ queue # <<>>
        /\ Len(queue) \in Nat /\ Len(queue) =< QueueCapacity
    BY LenProperties DEF SchedulerDispatch, CoreInv, CoreTypeOK
  <1>3. rest \in Seq(Reports) /\ Len(rest) =< QueueCapacity
    <2>1. rest \in Seq(Reports) /\ Len(rest) = Len(queue) - 1
      BY <1>2, HeadTailProperties
    <2> QED
      BY <1>2, <2>1, CapacityAssumption
  <1>4. lost \in BOOLEAN
    BY Zenon DEF CoreInv, CoreTypeOK
  <1>5. \/ FinishRun(ring)
        \/ /\ ContinueRun(rest, underrun, lost, ring)
           /\ UNCHANGED <<releasePending, capturing>>
    BY DEF SchedulerDispatch
  <1> HIDE DEF rest, edge, ring, lost
  <1>6. CASE FinishRun(ring)
    BY <1>1, <1>6, FinishRunSound
  <1>7. CASE /\ ContinueRun(rest, underrun, lost, ring)
             /\ UNCHANGED <<releasePending, capturing>>
    <2>1. mode = "PLAYING"
      BY DEF SchedulerDispatch, CoreInv, RunMatchesMode
    <2>2. capture = <<>> /\ headRecorded = FALSE
      BY <2>1 DEF CoreInv, CoreTypeOK, NothingLeftBehind, RecordedOnce
    <2>3. underrun \in BOOLEAN /\ releasePending \in BOOLEAN
      BY DEF CoreInv, CoreTypeOK
    <2>4. /\ capture' = <<>> /\ headRecorded' = FALSE
          /\ releasePending' \in BOOLEAN
      BY <1>7, <2>2, <2>3 DEF capturing
    <2> QED
      BY <1>1, <1>3, <1>4, <1>7, <2>1, <2>3, <2>4, ContinueRunSound
  <1> QED
    BY <1>5, <1>6, <1>7

-----------------------------------------------------------------------------
(* Where in the loop things happen. *)

LoopTypeOK ==
    /\ loop \in LoopPhases
    /\ hidReady \in BOOLEAN
    /\ output \in [keys : Reports, from : {"release", "physical", "playback"}]
    /\ outputReady \in BOOLEAN
    /\ uartFault \in BOOLEAN
    /\ backlog \in 0..CommandCapacity

\* Commands may refill or open the queue, so only between the end of the
\* scheduler's task and the next commands does a wait mean an empty queue.
WaitAfterTask ==
    running /\ loop \notin {"dispatch", "release", "physical", "scheduler"}
        => (waiting <=> queue = <<>>)

\* The part of the invariant that depends on the position in the main loop.
Placed == LoopTypeOK /\ ReleaseGoesFirst /\ WaitAfterTask

IInv == RingOK(tx) /\ CoreInv /\ Placed

\* The inductive invariant holds before the first turn of the loop.
LEMMA InitIInv == Init => IInv
  <1> SUFFICES ASSUME Init PROVE IInv
    OBVIOUS
  <1>1. RingOK(tx)
    BY CapacityAssumption DEF Init, RingOK
  <1>2. CoreInv
    <2>1. CoreTypeOK
      BY EmptyQueues DEF Init, CoreTypeOK, Modes
    <2>2. RecordedOnce
      BY DEF Init, RecordedOnce
    <2> QED
      BY <2>1, <2>2
      DEF Init, CoreInv, RunMatchesMode, WaitIsForQueue, FlowFaultIsLive,
          NothingLeftBehind
  <1>3. LoopTypeOK
    <2>1. output \in [keys : Reports, from : {"release", "physical", "playback"}]
      BY ReportsAssumption DEF Init, Released
    <2>2. backlog \in 0..CommandCapacity
      BY CapacityAssumption DEF Init
    <2> QED
      BY <2>1, <2>2 DEF Init, LoopTypeOK, LoopPhases
  <1>4. Placed
    BY <1>3 DEF Init, Placed, ReleaseGoesFirst, WaitAfterTask
  <1> QED
    BY <1>1, <1>2, <1>4 DEF IInv

\* An error either ends the run or leaves the core as it is.
LEMMA EnterErrorStops ==
  ASSUME NEW reason, NEW STATE ring, EnterError(reason, ring)
  PROVE  running' = FALSE \/ UNCHANGED <<running, waiting, queue>>
  BY DEF EnterError, EnterMode, ClearReleaseAndQueue, Notify, core, playback

\* The steps that leave the shared state alone, and the TX ring at that or
\* drained.
IdleStep ==
    \/ TudTask \/ TuhTaskDone \/ UartPoll \/ UartInterruptFault
    \/ DispatchDone \/ PhysicalDone \/ SchedulerDone \/ WatchdogQuiet \/ TxTask

LEMMA IdleStepSound ==
  ASSUME IInv, IdleStep
  PROVE  Sound
  <1>1. CoreInv /\ RingOK(tx)
    BY DEF IInv
  <1>2. UNCHANGED core
    BY DEF IdleStep, TudTask, TuhTaskDone, UartPoll, UartInterruptFault,
           DispatchDone, PhysicalDone, SchedulerDone, WatchdogQuiet, TxTask
  <1>3. RingOK(tx')
    <2>1. CASE TxTask
      <3>1. PICK n \in TxDrains :
               tx' = [used |-> IF n < tx.used THEN tx.used - n ELSE 0,
                      sent |-> <<>>]
        BY <2>1 DEF TxTask
      <3>2. n \in Nat /\ TxCapacity \in Nat
        BY CapacityAssumption
      <3> QED
        BY <1>1, <3>1, <3>2 DEF RingOK
    <2>2. CASE tx' = Quiet
      BY <1>1, <2>2, QuietOK
    <2> QED
      BY <2>1, <2>2
      DEF IdleStep, TudTask, TuhTaskDone, UartPoll, UartInterruptFault,
          DispatchDone, PhysicalDone, SchedulerDone, WatchdogQuiet
  <1> QED
    BY <1>1, <1>2, <1>3, CoreUnchangedSound

LEMMA IdleStepPlaced ==
  ASSUME IInv, IdleStep
  PROVE  Placed'
  <1>1. UNCHANGED <<mode, releasePending, running, waiting, queue>>
    BY DEF IdleStep, TudTask, TuhTaskDone, UartPoll, UartInterruptFault,
           DispatchDone, PhysicalDone, SchedulerDone, WatchdogQuiet, TxTask,
           core, playback
  <1>2. LoopTypeOK'
    BY CapacityAssumption
    DEF IInv, Placed, LoopTypeOK, LoopPhases, IdleStep, TudTask, TuhTaskDone,
        UartPoll, UartInterruptFault, DispatchDone, PhysicalDone,
        SchedulerDone, WatchdogQuiet, TxTask, Goto, usb
  <1>3. ReleaseGoesFirst'
    <2>1. CASE UartInterruptFault
      BY <1>1, <2>1
      DEF IInv, Placed, ReleaseGoesFirst, UartInterruptFault, usb
    <2>2. CASE PhysicalDone
      BY <1>1, <2>2 DEF IInv, Placed, ReleaseGoesFirst, PhysicalDone, Goto, usb
    <2>3. CASE ~UartInterruptFault /\ ~PhysicalDone
      <3>1. /\ loop # "physical" /\ loop' \notin {"physical", "scheduler"}
            /\ outputReady' = outputReady
        BY <2>3
        DEF IdleStep, TudTask, TuhTaskDone, UartPoll, DispatchDone,
            SchedulerDone, WatchdogQuiet, TxTask, Goto
      <3> QED
        BY <3>1 DEF IInv, Placed, LoopTypeOK, ReleaseGoesFirst
    <2> QED
      BY <2>1, <2>2, <2>3
  <1>4. WaitAfterTask'
    BY <1>1
    DEF IInv, Placed, CoreInv, CoreTypeOK, WaitIsForQueue, WaitAfterTask,
        IdleStep, TudTask, TuhTaskDone, UartPoll, UartInterruptFault,
        DispatchDone, PhysicalDone, SchedulerDone, WatchdogQuiet, TxTask, Goto
  <1> QED
    BY <1>2, <1>3, <1>4 DEF Placed

-----------------------------------------------------------------------------
(* The inductive invariant. *)

\* Handlers called where no report can be on its way: the endpoint result is
\* not valid there, and the next call neither forwards nor plays.
LEMMA HandlerPlaced ==
  ASSUME IInv, NEW from, NEW to \in LoopPhases, Goto(from, to),
         from # "physical", to \notin {"physical", "scheduler"},
         UNCHANGED <<usb, outputReady>>, uartFault' \in BOOLEAN,
         backlog' \in 0..CommandCapacity,
         WaitAfterTask'
  PROVE  Placed'
  <1>1. LoopTypeOK'
    BY DEF IInv, Placed, LoopTypeOK, Goto, usb
  <1>2. ReleaseGoesFirst'
    BY DEF IInv, Placed, LoopTypeOK, ReleaseGoesFirst, Goto
  <1> QED
    BY <1>1, <1>2 DEF Placed

LEMMA FaultStep ==
  ASSUME IInv, TakeFault
  PROVE  IInv'
  <1>1. Sound
    BY QuietOK, EnterErrorSound, CoreUnchangedSound DEF IInv, TakeFault
  <1>2. WaitAfterTask'
    BY DEF TakeFault, Goto, WaitAfterTask
  <1>3. backlog' \in 0..CommandCapacity /\ uartFault' \in BOOLEAN
    BY DEF IInv, Placed, LoopTypeOK, TakeFault
  <1>4. Placed'
    BY <1>2, <1>3, HandlerPlaced DEF TakeFault, LoopPhases
  <1> QED
    BY <1>1, <1>4 DEF IInv, Sound

LEMMA DispatchStep ==
  ASSUME IInv, NEW command \in Commands, DispatchCommand(command)
  PROVE  IInv'
  <1>1. Sound
    BY DispatchSound DEF IInv, DispatchCommand
  <1>2. WaitAfterTask'
    BY DEF DispatchCommand, Goto, WaitAfterTask
  <1>3. backlog' \in 0..CommandCapacity /\ uartFault' \in BOOLEAN
    BY CapacityAssumption DEF IInv, Placed, LoopTypeOK, DispatchCommand
  <1>4. Placed'
    BY <1>2, <1>3, HandlerPlaced DEF DispatchCommand, LoopPhases
  <1> QED
    BY <1>1, <1>4 DEF IInv, Sound

LEMMA FlowCheckStep ==
  ASSUME IInv, FlowCheck
  PROVE  IInv'
  <1>1. Sound
    BY QuietOK, EnterErrorSound, CoreUnchangedSound DEF IInv, FlowCheck
  <1>2. running' = FALSE \/ UNCHANGED <<running, waiting, queue>>
    BY EnterErrorStops DEF FlowCheck, core, playback
  <1>3. WaitAfterTask'
    BY <1>2 DEF IInv, Placed, FlowCheck, Goto, WaitAfterTask
  <1>4. Placed'
    BY <1>3, HandlerPlaced
    DEF IInv, Placed, LoopTypeOK, FlowCheck, LoopPhases
  <1> QED
    BY <1>1, <1>4 DEF IInv, Sound

LEMMA WatchdogStep ==
  ASSUME IInv, WatchdogExpires
  PROVE  IInv'
  <1>1. Sound
    BY QuietOK, EnterErrorSound DEF IInv, WatchdogExpires
  <1>2. running' = FALSE \/ UNCHANGED <<running, waiting, queue>>
    BY EnterErrorStops DEF WatchdogExpires
  <1>3. WaitAfterTask'
    BY <1>2 DEF IInv, Placed, WatchdogExpires, Goto, WaitAfterTask
  <1>4. Placed'
    BY <1>3, HandlerPlaced
    DEF IInv, Placed, LoopTypeOK, WatchdogExpires, LoopPhases
  <1> QED
    BY <1>1, <1>4 DEF IInv, Sound

LEMMA ReportStep ==
  ASSUME IInv, NEW report \in Reports, ReportReceived(report)
  PROVE  IInv'
  <1>1. Sound
    BY ReportReceivedSound DEF IInv
  <1>2. WaitAfterTask'
    BY DEF IInv, Placed, WaitAfterTask, ReportReceived, Goto, playback
  <1>3. Placed'
    BY <1>2, HandlerPlaced
    DEF IInv, Placed, LoopTypeOK, ReportReceived, LoopPhases
  <1> QED
    BY <1>1, <1>3 DEF IInv, Sound

\* The release service is where a release that is owed blocks the reports
\* that follow in this turn: it is sent, or the endpoint is busy.
LEMMA ReleaseServiceStep ==
  ASSUME IInv, ReleaseService
  PROVE  IInv'
  <1>1. /\ UNCHANGED <<mode, capture, headRecorded, queue, running, ended,
                       waiting, underrun, flowFault>>
        /\ releasePending' \in BOOLEAN
    BY DEF IInv, CoreInv, CoreTypeOK, ReleaseService, capturing, playback
  <1>2. CoreInv'
    BY <1>1
    DEF IInv, CoreInv, CoreTypeOK, RunMatchesMode, WaitIsForQueue,
        FlowFaultIsLive, NothingLeftBehind, RecordedOnce
  <1>3. RingOK(tx')
    BY QuietOK DEF IInv, ReleaseService
  <1>4. LoopTypeOK'
    <2>1. output' \in [keys : Reports, from : {"release", "physical", "playback"}]
      BY ReportsAssumption
      DEF IInv, Placed, LoopTypeOK, ReleaseService, Send, usb
    <2>2. hidReady' \in BOOLEAN /\ outputReady' \in BOOLEAN
      BY DEF IInv, Placed, LoopTypeOK, CoreInv, CoreTypeOK, ReleaseService,
             Send, usb
    <2> QED
      BY <2>1, <2>2
      DEF IInv, Placed, LoopTypeOK, LoopPhases, ReleaseService, Goto
  <1>5. ReleaseGoesFirst'
    BY DEF IInv, Placed, LoopTypeOK, CoreInv, CoreTypeOK, ReleaseGoesFirst,
           ReleaseService, Goto, Send, usb
  <1>6. WaitAfterTask'
    BY DEF WaitAfterTask, ReleaseService, Goto
  <1> QED
    BY <1>2, <1>3, <1>4, <1>5, <1>6 DEF IInv, Placed

LEMMA RecordHeadStep ==
  ASSUME IInv, RecordHead
  PROVE  IInv'
  <1>1. Sound
    BY RecordHeadSound DEF IInv
  <1>2. Placed'
    BY DEF IInv, Placed, LoopTypeOK, LoopPhases, ReleaseGoesFirst,
           WaitAfterTask, RecordHead, Goto, usb
  <1> QED
    BY <1>1, <1>2 DEF IInv, Sound

LEMMA ForwardHeadStep ==
  ASSUME IInv, ForwardHead
  PROVE  IInv'
  <1>1. Sound
    BY ForwardHeadSound DEF IInv
  <1>2. LoopTypeOK'
    <2>1. capture \in Seq(Entries) /\ capture # <<>>
      BY DEF IInv, CoreInv, CoreTypeOK, ForwardHead, MayForwardHead
    <2>2. capture[1] \in Entries
      BY <2>1, HeadOfSeq
    <2>3. output' \in [keys : Reports, from : {"release", "physical", "playback"}]
      BY <2>2 DEF Entries, ForwardHead, Send
    <2> QED
      BY <2>3
      DEF IInv, Placed, LoopTypeOK, LoopPhases, ForwardHead, Send, Goto
  <1>3. ReleaseGoesFirst' /\ WaitAfterTask'
    BY DEF IInv, Placed, ReleaseGoesFirst, WaitAfterTask, ForwardHead, Send,
           Goto
  <1> QED
    BY <1>1, <1>2, <1>3 DEF IInv, Sound, Placed

LEMMA SchedulerResumeStep ==
  ASSUME IInv, SchedulerResume
  PROVE  IInv'
  <1>1. Sound
    BY SchedulerResumeSound DEF IInv
  <1>2. running' = FALSE \/ releasePending' = releasePending
    BY DEF SchedulerResume, FinishRun, ClearReleaseAndQueue
  <1>3. LoopTypeOK' /\ WaitAfterTask'
    BY DEF IInv, Placed, LoopTypeOK, LoopPhases, WaitAfterTask,
           SchedulerResume, Goto, usb
  <1>4. ReleaseGoesFirst'
    BY <1>2
    DEF IInv, Placed, LoopTypeOK, ReleaseGoesFirst, SchedulerResume, Goto, usb
  <1> QED
    BY <1>1, <1>3, <1>4 DEF IInv, Sound, Placed

LEMMA SchedulerDispatchStep ==
  ASSUME IInv, SchedulerDispatch
  PROVE  IInv'
  <1>1. Sound
    BY SchedulerDispatchSound DEF IInv
  <1>2. queue[1] \in Reports
    <2>1. queue \in Seq(Reports) /\ queue # <<>>
      BY DEF IInv, CoreInv, CoreTypeOK, SchedulerDispatch
    <2> QED
      BY <2>1, HeadOfSeq
  <1>3. output' \in [keys : Reports, from : {"release", "physical", "playback"}]
    BY <1>2 DEF SchedulerDispatch, Send
  <1>4. Placed'
    BY <1>3
    DEF IInv, Placed, LoopTypeOK, LoopPhases, ReleaseGoesFirst, WaitAfterTask,
        SchedulerDispatch, Send, Goto
  <1> QED
    BY <1>1, <1>4 DEF IInv, Sound

\* Every step keeps the inductive invariant.
LEMMA NextIInv == IInv /\ [Next]_vars => IInv'
  <1> SUFFICES ASSUME IInv, [Next]_vars PROVE IInv'
    OBVIOUS
  <1>1. CASE IdleStep
    BY <1>1, IdleStepSound, IdleStepPlaced DEF IInv, Sound
  <1>2. CASE TakeFault
    BY <1>2, FaultStep
  <1>3. CASE \E command \in Commands : DispatchCommand(command)
    BY <1>3, DispatchStep
  <1>4. CASE ReleaseService
    BY <1>4, ReleaseServiceStep
  <1>5. CASE \E report \in Reports : ReportReceived(report)
    BY <1>5, ReportStep
  <1>6. CASE RecordHead
    BY <1>6, RecordHeadStep
  <1>7. CASE ForwardHead
    BY <1>7, ForwardHeadStep
  <1>8. CASE SchedulerResume
    BY <1>8, SchedulerResumeStep
  <1>9. CASE SchedulerDispatch
    BY <1>9, SchedulerDispatchStep
  <1>10. CASE FlowCheck
    BY <1>10, FlowCheckStep
  <1>11. CASE WatchdogExpires
    BY <1>11, WatchdogStep
  <1>12. CASE UNCHANGED vars
    BY <1>12
    DEF vars, usb, core, capturing, playback, IInv, RingOK, CoreInv,
        CoreTypeOK, RunMatchesMode, WaitIsForQueue, FlowFaultIsLive,
        NothingLeftBehind, RecordedOnce, Placed, LoopTypeOK,
        ReleaseGoesFirst, WaitAfterTask
  <1> QED
    BY <1>1, <1>2, <1>3, <1>4, <1>5, <1>6, <1>7, <1>8, <1>9, <1>10, <1>11, <1>12
    DEF Next, MainLoop, LoopBody, IdleStep

\* The inductive invariant holds in every state of every behaviour.
THEOREM Invariance == Spec => []IInv
  BY InitIInv, NextIInv, PTL DEF Spec

-----------------------------------------------------------------------------
(* The invariants the runs check. *)

\* Every variable stays in its range whatever arrives over the UART: the
\* command handlers, the capture FIFO, the playback queue and queue_frame
\* all check their capacity before they store.
THEOREM TypeCorrect == Spec => []TypeOK
  <1>1. IInv => TypeOK
    BY DEF IInv, RingOK, CoreInv, CoreTypeOK, Placed, LoopTypeOK, TypeOK
  <1> QED
    BY <1>1, Invariance, PTL

\* The scheduler's running flag and the mode machine's PLAYING agree after
\* every handler and callback, although each is changed by the other's calls.
THEOREM RunMatchesModeAlways == Spec => []RunMatchesMode
  <1>1. IInv => RunMatchesMode
    BY DEF IInv, CoreInv
  <1> QED
    BY <1>1, Invariance, PTL

\* waiting_for_event and underrun_active are what the queue says they are, so
\* the watchdog never stops a run that has events.
THEOREM WaitMatchesQueueAlways == Spec => []WaitMatchesQueue
  <1>1. IInv => WaitMatchesQueue
    BY DEF IInv, CoreInv, WaitIsForQueue, Placed, WaitAfterTask,
           WaitMatchesQueue
  <1> QED
    BY <1>1, Invariance, PTL

\* No report is forwarded or played before a release that is owed.
THEOREM ReleaseGoesFirstAlways == Spec => []ReleaseGoesFirst
  <1>1. IInv => ReleaseGoesFirst
    BY DEF IInv, Placed
  <1> QED
    BY <1>1, Invariance, PTL

\* A dropped flow-control frame is charged to the run it belongs to.
THEOREM FlowFaultIsLiveAlways == Spec => []FlowFaultIsLive
  <1>1. IInv => FlowFaultIsLive
    BY DEF IInv, CoreInv
  <1> QED
    BY <1>1, Invariance, PTL

\* A mode that blocks input holds no captured report, and a mode that takes
\* no sequence holds no queued event and no end marker.
THEOREM NothingLeftBehindAlways == Spec => []NothingLeftBehind
  <1>1. IInv => NothingLeftBehind
    BY DEF IInv, CoreInv
  <1> QED
    BY <1>1, Invariance, PTL

\* The parts of the firmware agree about the state they share, for every
\* capacity and every set of reports.
THEOREM ConsistentAlways == Spec => []Consistent
  <1>1. ASSUME TypeOK, RunMatchesMode, WaitMatchesQueue,
               ReleaseGoesFirst, FlowFaultIsLive, NothingLeftBehind
        PROVE  Consistent
    BY <1>1 DEF Consistent
  <1> QED
    BY <1>1, TypeCorrect, RunMatchesModeAlways, WaitMatchesQueueAlways,
       ReleaseGoesFirstAlways, FlowFaultIsLiveAlways, NothingLeftBehindAlways, PTL

\* Every captured report yields at most one RECORD_EVENT, and exactly one
\* before it is forwarded in RECORD.
THEOREM RecordedOnceAlways == Spec => []RecordedOnce
  <1>1. IInv => RecordedOnce
    BY DEF IInv, CoreInv
  <1> QED
    BY <1>1, Invariance, PTL

-----------------------------------------------------------------------------
(* The firmware keeps SafeOutput's promise. *)

\* What a handler does to the mode and the owed release is a step of the
\* gate, or none; it never touches the output.
GateHandler ==
    \/ mode' \in Gate!Successors[mode] /\ releasePending' = TRUE
    \/ UNCHANGED <<mode, releasePending>>

LEMMA CoreUnchangedGate ==
  ASSUME UNCHANGED core
  PROVE  GateHandler
  BY DEF core, GateHandler

LEMMA NotifyGate ==
  ASSUME NEW reason, NEW STATE ring, Notify(reason, ring)
  PROVE  GateHandler
  BY CoreUnchangedGate DEF Notify

LEMMA EnterModeGate ==
  ASSUME NEW state, NEW reason, NEW STATE ring, EnterMode(state, reason, ring),
         state \in Gate!Successors[mode]
  PROVE  GateHandler
  BY DEF EnterMode, ClearReleaseAndQueue, ClearAndRelease, GateHandler

LEMMA EnterErrorGate ==
  ASSUME CoreInv, NEW reason, NEW STATE ring, EnterError(reason, ring)
  PROVE  GateHandler
  <1>1. CASE mode \in {"PASS", "ERROR"}
    BY <1>1, NotifyGate DEF EnterError
  <1>2. CASE mode \in {"RECORD", "ARMED", "PLAYING"}
    <2>1. "ERROR" \in Gate!Successors[mode]
      BY <1>2 DEF Gate!Successors
    <2> QED
      BY <1>2, <2>1, EnterModeGate DEF EnterError
  <1> QED
    BY <1>1, <1>2 DEF CoreInv, CoreTypeOK, Modes

LEMMA DispatchGate ==
  ASSUME CoreInv, NEW command \in Commands, Dispatch(command)
  PROVE  GateHandler
  <1>1. ASSUME NEW target \in Modes, ModeSet(target)
        PROVE  GateHandler
    <2>1. CASE /\ target \in SettableModes \ {mode}
               /\ target = "PASS" \/ mode = "PASS"
               /\ EnterMode(target, "OK", Quiet)
      <3>1. target \in Gate!Successors[mode]
        BY <2>1 DEF Gate!Successors, SettableModes, CoreInv, CoreTypeOK, Modes
      <3> QED
        BY <2>1, <3>1, EnterModeGate
    <2> QED
      BY <1>1, <2>1, NotifyGate DEF ModeSet
  <1>2. CASE PlayStart
    <2>1. CASE mode # "ARMED"
      BY <1>2, <2>1, NotifyGate DEF PlayStart
    <2>2. CASE mode = "ARMED"
      <3>1. mode' \in {"ARMED", "PLAYING"} /\ releasePending' = TRUE
        BY <1>2, <2>2 DEF PlayStart, FinishRun, ContinueRun,
                          ClearReleaseAndQueue, ClearAndRelease
      <3> QED
        BY <2>2, <3>1 DEF GateHandler, Gate!Successors
    <2> QED
      BY <2>1, <2>2
  <1>3. CASE PlayAbort
    <2>1. CASE mode \in {"ARMED", "PLAYING"}
      <3>1. "ARMED" \in Gate!Successors[mode]
        BY <2>1 DEF Gate!Successors
      <3> QED
        BY <1>3, <2>1, <3>1, EnterModeGate DEF PlayAbort
    <2> QED
      BY <1>3, <2>1, NotifyGate DEF PlayAbort
  <1>4. ASSUME NEW STATE frame, Reply(frame)
        PROVE  GateHandler
    BY <1>4, CoreUnchangedGate DEF Reply
  <1>5. CASE QueueCommand(command)
    BY <1>5, EnterErrorGate
    DEF QueueCommand, QueueClear, QueueEvent, QueueEnd, GateHandler
  <1> QED
    BY <1>1, <1>2, <1>3, <1>4, <1>5 DEF Dispatch, Commands

\* A handler's step, as the gate sees it.
LEMMA HandlerIsGateStep ==
  ASSUME GateHandler, output' = output
  PROVE  [Gate!Next]_Gate!gateVars
  BY DEF GateHandler, Gate!Next, Gate!ChangeMode, Gate!gateVars

LEMMA InitGate == Init => Gate!Init
  BY DEF Init, Gate!Init, Released, Gate!Released

\* Every step of the firmware is a step of the gate or leaves it alone.
LEMMA NextGate == IInv /\ [Next]_vars => [Gate!Next]_Gate!gateVars
  <1> SUFFICES ASSUME IInv, [Next]_vars PROVE [Gate!Next]_Gate!gateVars
    OBVIOUS
  <1>0. CoreInv /\ ReleaseGoesFirst /\ LoopTypeOK
    BY DEF IInv, Placed
  <1>1. CASE IdleStep \/ RecordHead
              \/ \E report \in Reports : ReportReceived(report)
    <2>1. UNCHANGED <<output, mode, releasePending>>
      BY <1>1
      DEF IdleStep, TudTask, TuhTaskDone, UartPoll, UartInterruptFault,
          DispatchDone, PhysicalDone, SchedulerDone, WatchdogQuiet, TxTask,
          RecordHead, ReportReceived, core, usb
    <2> QED
      BY <2>1 DEF Gate!gateVars
  <1>2. CASE TakeFault \/ FlowCheck \/ WatchdogExpires
    <2>1. GateHandler /\ output' = output
      BY <1>0, <1>2, EnterErrorGate, CoreUnchangedGate
      DEF TakeFault, FlowCheck, WatchdogExpires, usb
    <2> QED
      BY <2>1, HandlerIsGateStep
  <1>3. CASE \E command \in Commands : DispatchCommand(command)
    <2>1. GateHandler /\ output' = output
      BY <1>0, <1>3, DispatchGate DEF DispatchCommand, usb
    <2> QED
      BY <2>1, HandlerIsGateStep
  <1>4. CASE ReleaseService
    <2>1. CASE releasePending /\ hidReady
      BY <1>4, <2>1
      DEF ReleaseService, Send, Gate!Next, Gate!SendRelease, Gate!Released
    <2>2. CASE ~(releasePending /\ hidReady)
      BY <1>4, <2>2 DEF ReleaseService, usb, Gate!gateVars
    <2> QED
      BY <2>1, <2>2
  <1>5. CASE ForwardHead
    <2>1. ~releasePending /\ mode \in {"PASS", "RECORD"}
      BY <1>0, <1>5 DEF ForwardHead, MayForwardHead, ReleaseGoesFirst
    <2>2. UNCHANGED <<mode, releasePending>>
      BY <1>5 DEF ForwardHead
    <2>3. capture[1] \in Entries
      <3>1. capture \in Seq(Entries) /\ capture # <<>>
        BY <1>0, <1>5 DEF CoreInv, CoreTypeOK, ForwardHead, MayForwardHead
      <3> QED
        BY <3>1, HeadOfSeq
    <2>4. \E report \in Reports :
             output' = [keys |-> report, from |-> "physical"]
      BY <1>5, <2>3 DEF ForwardHead, Send, Entries
    <2> QED
      BY <2>1, <2>2, <2>4 DEF Gate!Next, Gate!ForwardPhysical
  <1>6. CASE SchedulerResume
    <2>1. mode = "PLAYING"
      BY <1>0, <1>6 DEF SchedulerResume, CoreInv, RunMatchesMode
    <2>2. GateHandler /\ output' = output
      BY <1>6, <2>1
      DEF SchedulerResume, FinishRun, ContinueRun, ClearReleaseAndQueue,
          ClearAndRelease, GateHandler, Gate!Successors, usb
    <2> QED
      BY <2>2, HandlerIsGateStep
  <1>7. CASE SchedulerDispatch
    <2>1. mode = "PLAYING" /\ ~releasePending
      BY <1>0, <1>7
      DEF SchedulerDispatch, Send, Goto, CoreInv, RunMatchesMode,
          ReleaseGoesFirst
    <2>2. \E report \in Reports :
             output' = [keys |-> report, from |-> "playback"]
      <3>1. queue[1] \in Reports
        <4>1. queue \in Seq(Reports) /\ queue # <<>>
          BY <1>0, <1>7 DEF CoreInv, CoreTypeOK, SchedulerDispatch
        <4> QED
          BY <4>1, HeadOfSeq
      <3> QED
        BY <1>7, <3>1 DEF SchedulerDispatch, Send
    <2>3. \/ UNCHANGED <<mode, releasePending>>
          \/ mode' = "ARMED" /\ releasePending' = TRUE
      BY <1>7, <2>1
      DEF SchedulerDispatch, FinishRun, ContinueRun, ClearReleaseAndQueue,
          ClearAndRelease
    <2> QED
      BY <2>1, <2>2, <2>3 DEF Gate!Next, Gate!PlayEvent
  <1>8. CASE UNCHANGED vars
    BY <1>8 DEF vars, usb, core, Gate!gateVars
  <1> QED
    BY <1>1, <1>2, <1>3, <1>4, <1>5, <1>6, <1>7, <1>8
    DEF Next, MainLoop, LoopBody, IdleStep

\* The firmware implements SafeOutput for every capacity and every command
\* sequence: modes follow the fixed graph, a change owes a release, and no
\* report overtakes it or comes from a source its mode does not allow.
THEOREM FirmwareKeepsPromise == Spec => SafeOutputKept
  BY Invariance, InitGate, NextGate, PTL DEF Spec, SafeOutputKept, Gate!Spec

\* With no release owed, what the PC holds was put there by the source the
\* mode allows; a mode that blocks input leaves no key held.
THEOREM HeldKeysBelongToModeAlways == Spec => []HeldKeysBelongToMode
  <1>1. Gate!Init => Gate!HeldKeysBelongToMode
    BY DEF Gate!Init, Gate!HeldKeysBelongToMode
  <1>2. Gate!HeldKeysBelongToMode /\ [Gate!Next]_Gate!gateVars
          => Gate!HeldKeysBelongToMode'
    BY DEF Gate!HeldKeysBelongToMode, Gate!Next, Gate!gateVars,
           Gate!ChangeMode, Gate!SendRelease, Gate!ForwardPhysical,
           Gate!PlayEvent
  <1> QED
    BY <1>1, <1>2, FirmwareKeepsPromise, PTL
    DEF SafeOutputKept, Gate!Spec, HeldKeysBelongToMode

-----------------------------------------------------------------------------
(* How the end of a run is told. *)

Outcomes == {"PLAY_FINISHED", "PLAY_ABORTED"}

\* The bytes of every frame the firmware sends.
LEMMA Sizes ==
    /\ FrameBytes("MODE_CHANGED") = 9 /\ FrameBytes("PLAY_STARTED") = 15
    /\ FrameBytes("PLAY_FINISHED") = 7 /\ FrameBytes("PLAY_ABORTED") = 7
    /\ FrameBytes("PLAY_METRICS") = 40 /\ FrameBytes("BUFFER_STATUS") = 12
    /\ FrameBytes("PLAY_READY") = 7 /\ FrameBytes("PLAY_UNDERRUN") = 17
    /\ FrameBytes("RECORD_EVENT") = 24 /\ FrameBytes("PONG") = 7
    /\ FrameBytes("PICO_STATUS") = 12
  BY DEF FrameBytes, PayloadLen

\* What LastFrames sees when an end is told after nothing, one or two frames.
LEMMA LastThree ==
    ASSUME NEW a, NEW b, NEW c, NEW x, NEW y
    PROVE  /\ LastFrames(<<a, b, c>>, 3) = <<a, b, c>>
           /\ LastFrames(<<x, a, b, c>>, 3) = <<a, b, c>>
           /\ LastFrames(<<x, y, a, b, c>>, 3) = <<a, b, c>>
<1> DEFINE S == {a, b, c, x, y}
           three == <<a, b, c>>
           four == <<x, a, b, c>>
           five == <<x, y, a, b, c>>
<1>1. /\ three \in Seq(S) /\ Len(three) = 3
      /\ three[1] = a /\ three[2] = b /\ three[3] = c
  OBVIOUS
<1>2. /\ four \in Seq(S) /\ Len(four) = 4
      /\ four[2] = a /\ four[3] = b /\ four[4] = c
  OBVIOUS
<1>3. /\ five \in Seq(S) /\ Len(five) = 5
      /\ five[3] = a /\ five[4] = b /\ five[5] = c
  OBVIOUS
<1>4. a \in S /\ b \in S /\ c \in S
  OBVIOUS
<1> HIDE DEF S, three, four, five
<1>5. ASSUME NEW s, NEW m \in {1, 2, 3}, s[m] = a, s[m + 1] = b, s[m + 2] = c
      PROVE  SubSeq(s, m, m + 2) = three
  <2>1. \A i \in m..(m + 2) : s[i] \in S
    BY <1>4, <1>5
  <2>2. /\ SubSeq(s, m, m + 2) \in Seq(S) /\ Len(SubSeq(s, m, m + 2)) = 3
        /\ \A i \in 1..3 : SubSeq(s, m, m + 2)[i] = s[m + i - 1]
    BY <2>1, SubSeqProperties
  <2>3. \A i \in 1..3 : SubSeq(s, m, m + 2)[i] = three[i]
    BY <1>1, <1>5, <2>2
  <2> QED
    BY <1>1, <2>2, <2>3, SeqEqual
<1>6. LastFrames(three, 3) = three
  <2>1. SubSeq(three, 1, 3) = three
    BY <1>1, <1>5
  <2> QED
    BY <1>1, <2>1 DEF LastFrames
<1>7. LastFrames(four, 3) = three
  <2>1. SubSeq(four, 2, 4) = three
    BY <1>2, <1>5
  <2> QED
    BY <1>2, <2>1 DEF LastFrames
<1>8. LastFrames(five, 3) = three
  <2>1. SubSeq(five, 3, 5) = three
    BY <1>3, <1>5
  <2> QED
    BY <1>3, <2>1 DEF LastFrames
<1> QED
  BY <1>6, <1>7, <1>8 DEF three, four, five

\* A sequence one longer, with the same elements and then elt.
LEMMA AppendIs ==
    ASSUME NEW S, NEW s \in Seq(S), NEW elt \in S, NEW t \in Seq(S),
           Len(t) = Len(s) + 1, t[Len(s) + 1] = elt,
           \A i \in 1..Len(s) : t[i] = s[i]
    PROVE  Append(s, elt) = t
<1>1. /\ Append(s, elt) \in Seq(S) /\ Len(Append(s, elt)) = Len(t)
      /\ Append(s, elt)[Len(s) + 1] = elt
      /\ \A i \in 1..Len(s) : Append(s, elt)[i] = s[i]
  BY AppendProperties
<1>2. Len(s) \in Nat
  OBVIOUS
<1>3. \A i \in 1..Len(t) : Append(s, elt)[i] = t[i]
  BY <1>1, <1>2
<1> QED
  BY <1>1, <1>3, SeqEqual

LEMMA AppendTo0 == ASSUME NEW a PROVE Append(<<>>, a) = <<a>>
  OBVIOUS

LEMMA AppendTo1 ==
    ASSUME NEW a, NEW b
    PROVE  Append(<<a>>, b) = <<a, b>>
<1> DEFINE S == {a, b}
           one == <<a>>
           two == <<a, b>>
<1>1. one \in Seq(S) /\ two \in Seq(S) /\ b \in S
  OBVIOUS
<1>2. Len(one) = 1 /\ Len(two) = 1 + 1
  OBVIOUS
<1>3. two[1 + 1] = b
  OBVIOUS
<1>4. \A i \in 1..1 : two[i] = one[i]
  OBVIOUS
<1> HIDE DEF S, one, two
<1>5. Append(one, b) = two
  BY <1>1, <1>2, <1>3, <1>4, AppendIs
<1> QED
  BY <1>5 DEF one, two

LEMMA AppendTo2 ==
    ASSUME NEW a, NEW b, NEW c
    PROVE  Append(<<a, b>>, c) = <<a, b, c>>
<1> DEFINE S == {a, b, c}
           two == <<a, b>>
           three == <<a, b, c>>
<1>1. two \in Seq(S) /\ three \in Seq(S) /\ c \in S
  OBVIOUS
<1>2. Len(two) = 2 /\ Len(three) = 2 + 1
  OBVIOUS
<1>3. three[2 + 1] = c
  OBVIOUS
<1>4. \A i \in 1..2 : three[i] = two[i]
  OBVIOUS
<1> HIDE DEF S, two, three
<1>5. Append(two, c) = three
  BY <1>1, <1>2, <1>3, <1>4, AppendIs
<1> QED
  BY <1>5 DEF two, three

LEMMA AppendTo3 ==
    ASSUME NEW a, NEW b, NEW c, NEW d
    PROVE  Append(<<a, b, c>>, d) = <<a, b, c, d>>
<1> DEFINE S == {a, b, c, d}
           three == <<a, b, c>>
           four == <<a, b, c, d>>
<1>1. three \in Seq(S) /\ four \in Seq(S) /\ d \in S
  OBVIOUS
<1>2. Len(three) = 3 /\ Len(four) = 3 + 1
  OBVIOUS
<1>3. four[3 + 1] = d
  OBVIOUS
<1>4. \A i \in 1..3 : four[i] = three[i]
  OBVIOUS
<1> HIDE DEF S, three, four
<1>5. Append(three, d) = four
  BY <1>1, <1>2, <1>3, <1>4, AppendIs
<1> QED
  BY <1>5 DEF three, four

LEMMA AppendTo4 ==
    ASSUME NEW a, NEW b, NEW c, NEW d, NEW e
    PROVE  Append(<<a, b, c, d>>, e) = <<a, b, c, d, e>>
<1> DEFINE S == {a, b, c, d, e}
           four == <<a, b, c, d>>
           five == <<a, b, c, d, e>>
<1>1. four \in Seq(S) /\ five \in Seq(S) /\ e \in S
  OBVIOUS
<1>2. Len(four) = 4 /\ Len(five) = 4 + 1
  OBVIOUS
<1>3. five[4 + 1] = e
  OBVIOUS
<1>4. \A i \in 1..4 : five[i] = four[i]
  OBVIOUS
<1> HIDE DEF S, four, five
<1>5. Append(four, e) = five
  BY <1>1, <1>2, <1>3, <1>4, AppendIs
<1> QED
  BY <1>5 DEF four, five

\* The three frames of an end, after what the step said before.
LEMMA ThreeAppendedTo0 ==
    ASSUME NEW a, NEW b, NEW c
    PROVE  Append(Append(Append(<<>>, a), b), c) = <<a, b, c>>
<1>1. Append(<<>>, a) = <<a>>
  BY AppendTo0
<1>2. Append(<<a>>, b) = <<a, b>>
  BY AppendTo1
<1>3. Append(<<a, b>>, c) = <<a, b, c>>
  BY AppendTo2
<1> QED
  BY <1>1, <1>2, <1>3

LEMMA ThreeAppendedTo1 ==
    ASSUME NEW x, NEW a, NEW b, NEW c
    PROVE  Append(Append(Append(<<x>>, a), b), c) = <<x, a, b, c>>
<1>1. Append(<<x>>, a) = <<x, a>>
  BY AppendTo1
<1>2. Append(<<x, a>>, b) = <<x, a, b>>
  BY AppendTo2
<1>3. Append(<<x, a, b>>, c) = <<x, a, b, c>>
  BY AppendTo3
<1> QED
  BY <1>1, <1>2, <1>3

LEMMA ThreeAppendedTo2 ==
    ASSUME NEW x, NEW y, NEW a, NEW b, NEW c
    PROVE  Append(Append(Append(<<x, y>>, a), b), c) = <<x, y, a, b, c>>
<1>1. Append(<<x, y>>, a) = <<x, y, a>>
  BY AppendTo2
<1>2. Append(<<x, y, a>>, b) = <<x, y, a, b>>
  BY AppendTo3
<1>3. Append(<<x, y, a, b>>, c) = <<x, y, a, b, c>>
  BY AppendTo4
<1> QED
  BY <1>1, <1>2, <1>3

\* What a ring holds after `bytes' more, and these frames of the step.
After(bytes, frames) == [used |-> tx.used + bytes, sent |-> frames]

Roomy == RoomForRun /\ tx.used \in Nat

LEMMA QuietIs == ASSUME Roomy PROVE Quiet = After(0, <<>>)
  BY DEF Quiet, After, Roomy

\* With room for a start and an end (80 bytes) nothing of a step is dropped.
LEMMA Queued ==
    ASSUME Roomy, NEW bytes \in Nat, NEW frames, NEW frame, NEW size \in Nat,
           FrameBytes(frame.type) = size, bytes + size =< 80
    PROVE  QueueFrame(After(bytes, frames), frame)
             = After(bytes + size, Append(frames, frame))
<1>1. tx.used + 80 =< TxCapacity
  BY Sizes DEF Roomy, RoomForRun, RunStartBytes, RunEndBytes
<1>2. Fits(After(bytes, frames), frame.type)
  BY <1>1, CapacityAssumption DEF Roomy, Fits, After
<1>3. (tx.used + bytes) + size = tx.used + (bytes + size)
  BY DEF Roomy
<1>4. After(bytes, frames).used = tx.used + bytes /\ After(bytes, frames).sent = frames
  BY DEF After
<1> QED
  BY <1>2, <1>3, <1>4 DEF QueueFrame, After

\* The end of a run, told whole.
LEMMA Completed ==
    ASSUME Roomy, NEW bytes \in 0..24, NEW frames, NEW outcome \in Outcomes,
           NEW state, NEW reason
    PROVE  QueueFrame(CompleteRun(After(bytes, frames), outcome), ModeChanged(state, reason)).sent
             = Append(Append(Append(frames, Plain(outcome)), Plain("PLAY_METRICS")),
                      ModeChanged(state, reason))
<1> DEFINE a == Plain(outcome)
           b == Plain("PLAY_METRICS")
           c == ModeChanged(state, reason)
<1>1. FrameBytes(a.type) = 7 /\ FrameBytes(b.type) = 40 /\ FrameBytes(c.type) = 9
  BY Sizes DEF Plain, ModeChanged, Outcomes
<1>2. /\ bytes \in Nat /\ bytes + 7 \in Nat /\ bytes + 7 + 40 \in Nat
      /\ bytes + 7 =< 80 /\ bytes + 7 + 40 =< 80 /\ bytes + 7 + 40 + 9 =< 80
  OBVIOUS
<1>3. CompleteRun(After(bytes, frames), outcome)
        = QueueFrame(QueueFrame(After(bytes, frames), a), b)
  BY DEF CompleteRun
<1> HIDE DEF a, b, c
<1>4. QueueFrame(After(bytes, frames), a) = After(bytes + 7, Append(frames, a))
  BY <1>1, <1>2, Queued
<1>5. QueueFrame(After(bytes + 7, Append(frames, a)), b)
        = After(bytes + 7 + 40, Append(Append(frames, a), b))
  BY <1>1, <1>2, Queued
<1>6. QueueFrame(After(bytes + 7 + 40, Append(Append(frames, a), b)), c)
        = After(bytes + 7 + 40 + 9, Append(Append(Append(frames, a), b), c))
  BY <1>1, <1>2, Queued
<1>7. QueueFrame(CompleteRun(After(bytes, frames), outcome), c).sent
        = Append(Append(Append(frames, a), b), c)
  BY <1>3, <1>4, <1>5, <1>6 DEF After
<1> QED
  BY <1>7 DEF a, b, c

-----------------------------------------------------------------------------
(* What a step has to show, by what it says and where it leads. *)

NoOutcome(frames) == \A frame \in Range(frames) : frame.type \notin Outcomes

Uneventful(frames) ==
    \A frame \in Range(frames) : frame.type \notin Outcomes \cup {"PLAY_STARTED"}

LEMMA RangeOfNone == Range(<<>>) = {}
  BY DEF Range

LEMMA RangeOfOne == ASSUME NEW a PROVE Range(<<a>>) = {a}
  BY DEF Range

LEMMA RangeOfTwo == ASSUME NEW a, NEW b PROVE Range(<<a, b>>) = {a, b}
  BY DEF Range

LEMMA RangeOfThree ==
    ASSUME NEW a, NEW b, NEW c PROVE Range(<<a, b, c>>) = {a, b, c}
  BY DEF Range

LEMMA FrameTypes ==
    \A p, q :
       /\ Plain(p).type = p /\ ModeChanged(p, q).type = "MODE_CHANGED"
       /\ BufferStatus(p, q).type = "BUFFER_STATUS"
       /\ PlayUnderrun(p).type = "PLAY_UNDERRUN"
       /\ RecordEvent(p).type = "RECORD_EVENT"
       /\ PicoStatus(p).type = "PICO_STATUS"
  BY DEF Plain, ModeChanged, BufferStatus, PlayUnderrun, RecordEvent, PicoStatus

\* A step that neither starts nor stops a run.
LEMMA GoesOn ==
    ASSUME Uneventful(tx'.sent), mode = "PLAYING" => mode' = "PLAYING"
    PROVE  EndIsTold
<1>1. \A type \in Outcomes \cup {"PLAY_STARTED"} : Plain(type) \notin Range(tx'.sent)
  BY FrameTypes DEF Uneventful
<1>2. ~RunEnds
  BY <1>1 DEF RunEnds
<1> QED
  BY <1>1, <1>2 DEF EndIsTold, Outcomes

\* A step that starts one, or lets it run on.
LEMMA Starts ==
    ASSUME NoOutcome(tx'.sent), mode' = "PLAYING"
    PROVE  EndIsTold
<1>1. \A type \in Outcomes : Plain(type) \notin Range(tx'.sent)
  BY FrameTypes DEF NoOutcome
<1> QED
  BY <1>1 DEF EndIsTold, RunEnds, Outcomes

\* A step that stops one.
LEMMA Ends ==
    ASSUME mode' # "PLAYING",
           mode = "PLAYING" \/ Plain("PLAY_STARTED") \in Range(tx'.sent),
           NEW outcome \in Outcomes, NEW reason \in Reasons,
           outcome = "PLAY_FINISHED" <=> reason = "FINISHED",
           LastFrames(tx'.sent, 3)
             = <<Plain(outcome), Plain("PLAY_METRICS"), ModeChanged(mode', reason)>>
    PROVE  EndIsTold
  BY DEF EndIsTold, RunEnds, Outcomes

\* The first frame of a step.
LEMMA FirstFrame ==
    ASSUME Roomy, NEW frame, NEW size \in 0..24, FrameBytes(frame.type) = size
    PROVE  QueueFrame(Quiet, frame) = After(size, <<frame>>)
<1>1. size \in Nat /\ 0 + size = size /\ size =< 80
  OBVIOUS
<1>2. 0 + size =< 80 /\ 0 \in Nat
  BY <1>1
<1>3. QueueFrame(After(0, <<>>), frame) = After(0 + size, Append(<<>>, frame))
  <2> DEFINE none == <<>>
             zero == 0
  <2>1. zero \in Nat /\ zero + size =< 80 /\ size \in Nat
    BY <1>1, <1>2
  <2> HIDE DEF none, zero
  <2>2. QueueFrame(After(zero, none), frame) = After(zero + size, Append(none, frame))
    BY <2>1, Queued
  <2> QED
    BY <2>2 DEF none, zero
<1> QED
  BY <1>1, <1>3, QuietIs, AppendTo0

\* A frame that is about no run, and a step that says nothing else.
LEMMA OneFrame ==
    ASSUME Roomy, NEW frame,
           frame.type \in {"MODE_CHANGED", "BUFFER_STATUS", "RECORD_EVENT",
                           "PONG", "PICO_STATUS"},
           tx' = QueueFrame(Quiet, frame)
    PROVE  Uneventful(tx'.sent)
<1>1. FrameBytes(frame.type) \in 0..24
  BY Sizes
<1>2. tx' = After(FrameBytes(frame.type), <<frame>>)
  BY <1>1, FirstFrame
<1>3. tx'.sent = <<frame>>
  BY <1>2 DEF After
<1>4. Range(tx'.sent) = {frame}
  BY <1>3, RangeOfOne
<1> QED
  BY <1>4 DEF Uneventful, Outcomes

LEMMA NoFrame == ASSUME tx' = Quiet PROVE Uneventful(tx'.sent)
  BY RangeOfNone DEF Quiet, Uneventful

-----------------------------------------------------------------------------
(* The handlers. *)

LEMMA NotifyTold ==
    ASSUME Roomy, NEW reason, Notify(reason, Quiet)
    PROVE  EndIsTold
<1>1. Uneventful(tx'.sent)
  BY OneFrame, FrameTypes DEF Notify
<1>2. mode' = mode
  BY DEF Notify, core
<1> QED
  BY <1>1, <1>2, GoesOn

LEMMA EnterModeTold ==
    ASSUME CoreInv, Roomy, NEW state, state # "PLAYING",
           NEW reason \in Reasons \ {"FINISHED"}, EnterMode(state, reason, Quiet)
    PROVE  EndIsTold
<1>1. mode' = state /\ tx' = QueueFrame(StopRun(Quiet), ModeChanged(state, reason))
  BY DEF EnterMode
<1>2. CASE running
  <2>1. mode = "PLAYING"
    BY <1>2 DEF CoreInv, RunMatchesMode
  <2> DEFINE a == Plain("PLAY_ABORTED")
             b == Plain("PLAY_METRICS")
             c == ModeChanged(state, reason)
  <2>2. "PLAY_ABORTED" \in Outcomes
    BY DEF Outcomes
  <2>3. tx' = QueueFrame(CompleteRun(After(0, <<>>), "PLAY_ABORTED"), c)
    BY <1>1, <1>2, QuietIs DEF StopRun
  <2>4. tx'.sent = Append(Append(Append(<<>>, a), b), c)
    BY <2>2, <2>3, Completed
  <2> HIDE DEF a, b, c
  <2>5. tx'.sent = <<a, b, c>>
    BY <2>4, ThreeAppendedTo0
  <2>6. LastFrames(tx'.sent, 3) = <<a, b, c>>
    BY <2>5, LastThree
  <2> QED
    BY <1>1, <2>1, <2>2, <2>6, Ends DEF a, b, c
<1>3. CASE ~running
  <2>1. mode # "PLAYING"
    BY <1>3 DEF CoreInv, RunMatchesMode
  <2>2. Uneventful(tx'.sent)
    BY <1>1, <1>3, OneFrame, FrameTypes DEF StopRun
  <2> QED
    BY <2>1, <2>2, GoesOn
<1> QED
  BY <1>2, <1>3

LEMMA EnterErrorTold ==
    ASSUME CoreInv, Roomy, NEW reason \in Reasons \ {"FINISHED"},
           EnterError(reason, Quiet)
    PROVE  EndIsTold
  BY NotifyTold, EnterModeTold DEF EnterError

\* The ways a step may have come to the end of its run: nothing said yet, the
\* space of a full queue told, or the run's start told.
Before == {After(0, <<>>)}
            \cup {After(12, <<BufferStatus(mode, free)>>) : free \in Int}
            \cup {After(24, <<ModeChanged("PLAYING", "OK"), Plain("PLAY_STARTED")>>)}

LEMMA FinishRunTold ==
    ASSUME Roomy, NEW ring \in Before, FinishRun(ring),
           \/ mode = "PLAYING"
           \/ ring = After(24, <<ModeChanged("PLAYING", "OK"), Plain("PLAY_STARTED")>>)
    PROVE  EndIsTold
<1> DEFINE a == Plain("PLAY_FINISHED")
           b == Plain("PLAY_METRICS")
           c == ModeChanged("ARMED", "FINISHED")
           x == ModeChanged("PLAYING", "OK")
           y == Plain("PLAY_STARTED")
<1>1. mode' = "ARMED" /\ tx' = QueueFrame(CompleteRun(ring, "PLAY_FINISHED"), c)
  BY DEF FinishRun
<1>2. "PLAY_FINISHED" \in Outcomes /\ "FINISHED" \in Reasons
  BY DEF Outcomes, Reasons
<1>3. ASSUME NEW bytes \in 0..24, NEW frames, ring = After(bytes, frames)
      PROVE  tx'.sent = Append(Append(Append(frames, a), b), c)
  BY <1>1, <1>2, <1>3, Completed
<1>4. ASSUME LastFrames(tx'.sent, 3) = <<a, b, c>>,
             mode = "PLAYING" \/ y \in Range(tx'.sent)
      PROVE  EndIsTold
  BY <1>1, <1>2, <1>4, Ends
<1>5. ring = After(24, <<x, y>>) \/ mode = "PLAYING"
  OBVIOUS
<1>6. \/ ring = After(0, <<>>)
      \/ \E free : ring = After(12, <<BufferStatus(mode, free)>>)
      \/ ring = After(24, <<x, y>>)
  BY DEF Before
<1> HIDE DEF a, b, c, x, y
<1>7. CASE ring = After(24, <<x, y>>)
  <2>1. tx'.sent = <<x, y, a, b, c>>
    <3>0. 24 \in 0..24
      OBVIOUS
    <3>1. tx'.sent = Append(Append(Append(<<x, y>>, a), b), c)
      BY Zenon, <1>3, <1>7, <3>0
    <3>2. Append(Append(Append(<<x, y>>, a), b), c) = <<x, y, a, b, c>>
      BY ThreeAppendedTo2
    <3> QED
      BY Zenon, <3>1, <3>2
  <2>2. y \in Range(tx'.sent)
    BY <2>1 DEF Range
  <2> QED
    BY <1>4, <2>1, <2>2, LastThree
<1>8. CASE ring = After(0, <<>>) /\ mode = "PLAYING"
  <2>1. tx'.sent = <<a, b, c>>
    <3>0. 0 \in 0..24
      OBVIOUS
    <3>1. tx'.sent = Append(Append(Append(<<>>, a), b), c)
      BY Zenon, <1>3, <1>8, <3>0
    <3>2. Append(Append(Append(<<>>, a), b), c) = <<a, b, c>>
      BY ThreeAppendedTo0
    <3> QED
      BY Zenon, <3>1, <3>2
  <2> QED
    BY <1>4, <1>8, <2>1, LastThree
<1>9. ASSUME NEW frame, ring = After(12, <<frame>>), mode = "PLAYING"
      PROVE  EndIsTold
  <2>1. tx'.sent = <<frame, a, b, c>>
    <3>0. 12 \in 0..24
      OBVIOUS
    <3>1. tx'.sent = Append(Append(Append(<<frame>>, a), b), c)
      BY Zenon, <1>3, <1>9, <3>0
    <3>2. Append(Append(Append(<<frame>>, a), b), c) = <<frame, a, b, c>>
      BY ThreeAppendedTo1
    <3> QED
      BY Zenon, <3>1, <3>2
  <2> QED
    BY <1>4, <1>9, <2>1, LastThree
<1> QED
  BY <1>5, <1>6, <1>7, <1>8, <1>9

LEMMA ContinueRunTold ==
    ASSUME Roomy, NEW ring \in Before, NEW events, NEW starving, NEW lost,
           ContinueRun(events, starving, lost, ring)
    PROVE  EndIsTold
<1> DEFINE u == PlayUnderrun(QueueCapacity)
<1>1. FrameBytes(u.type) = 17 /\ u.type = "PLAY_UNDERRUN"
  BY Sizes, FrameTypes
<1>2. mode' = "PLAYING" /\ tx' \in {ring, QueueFrame(ring, u)}
  BY DEF ContinueRun
<1> HIDE DEF u
<1>3. ASSUME NEW bytes \in 0..24, NEW frames, ring = After(bytes, frames)
      PROVE  tx'.sent = frames \/ tx'.sent = Append(frames, u)
  <2>1. bytes \in Nat /\ bytes + 17 =< 80
    OBVIOUS
  <2>2. QueueFrame(After(bytes, frames), u) = After(bytes + 17, Append(frames, u))
    BY <1>1, <2>1, Queued
  <2> QED
    BY <1>2, <1>3, <2>2 DEF After
<1>4. CASE ring = After(0, <<>>)
  <2>1. Append(<<>>, u) = <<u>> /\ 0 \in 0..24
    BY AppendTo0
  <2>2. tx'.sent = <<>> \/ tx'.sent = <<u>>
    BY Zenon, <1>3, <1>4, <2>1
  <2>3. Range(<<>>) = {} /\ Range(<<u>>) = {u}
    BY RangeOfNone, RangeOfOne
  <2>4. NoOutcome(tx'.sent)
    BY <1>1, <2>2, <2>3 DEF NoOutcome, Outcomes
  <2> QED
    BY <1>2, <2>4, Starts
<1>5. ASSUME NEW free, ring = After(12, <<BufferStatus(mode, free)>>)
      PROVE  EndIsTold
  <2> DEFINE f == BufferStatus(mode, free)
  <2>1. f.type = "BUFFER_STATUS"
    BY FrameTypes
  <2> HIDE DEF f
  <2>2. ring = After(12, <<f>>)
    BY <1>5 DEF f
  <2>3. Append(<<f>>, u) = <<f, u>> /\ 12 \in 0..24
    BY AppendTo1
  <2>4. tx'.sent = <<f>> \/ tx'.sent = <<f, u>>
    BY Zenon, <1>3, <2>2, <2>3
  <2>5. Range(<<f>>) = {f} /\ Range(<<f, u>>) = {f, u}
    BY RangeOfOne, RangeOfTwo
  <2>6. NoOutcome(tx'.sent)
    BY <1>1, <2>1, <2>4, <2>5 DEF NoOutcome, Outcomes
  <2> QED
    BY <1>2, <2>6, Starts
<1>6. ASSUME ring = After(24, <<ModeChanged("PLAYING", "OK"), Plain("PLAY_STARTED")>>)
      PROVE  EndIsTold
  <2> DEFINE x == ModeChanged("PLAYING", "OK")
             y == Plain("PLAY_STARTED")
  <2>1. x.type = "MODE_CHANGED" /\ y.type = "PLAY_STARTED"
    BY FrameTypes
  <2> HIDE DEF x, y
  <2>2. ring = After(24, <<x, y>>)
    BY <1>6 DEF x, y
  <2>3. Append(<<x, y>>, u) = <<x, y, u>> /\ 24 \in 0..24
    BY AppendTo2
  <2>4. tx'.sent = <<x, y>> \/ tx'.sent = <<x, y, u>>
    BY Zenon, <1>3, <2>2, <2>3
  <2>5. Range(<<x, y>>) = {x, y} /\ Range(<<x, y, u>>) = {x, y, u}
    BY RangeOfTwo, RangeOfThree
  <2>6. NoOutcome(tx'.sent)
    BY <1>1, <2>1, <2>4, <2>5 DEF NoOutcome, Outcomes
  <2> QED
    BY <1>2, <2>6, Starts
<1> QED
  BY <1>4, <1>5, <1>6 DEF Before

LEMMA PlayStartTold == ASSUME Roomy, PlayStart PROVE EndIsTold
<1> DEFINE x == ModeChanged("PLAYING", "OK")
           y == Plain("PLAY_STARTED")
           ring == QueueFrame(QueueFrame(Quiet, x), y)
<1>1. FrameBytes(x.type) = 9 /\ FrameBytes(y.type) = 15
  BY Sizes, FrameTypes
<1>2. \/ Notify("INVALID_TRANSITION", Quiet)
      \/ FinishRun(ring)
      \/ ContinueRun(queue, FALSE, flowFault, ring)
  BY DEF PlayStart
<1> HIDE DEF x, y
<1>3. QueueFrame(Quiet, x) = After(9, <<x>>)
  BY <1>1, FirstFrame
<1>4. 9 \in Nat /\ 9 + 15 = 24 /\ 9 + 15 =< 80
  OBVIOUS
<1>5. ring = After(24, <<x, y>>)
  <2>1. ring = After(9 + 15, Append(<<x>>, y))
    BY <1>1, <1>3, <1>4, Queued
  <2>2. Append(<<x>>, y) = <<x, y>>
    BY AppendTo1
  <2> QED
    BY <1>4, <2>1, <2>2
<1> HIDE DEF ring
<1>6. ring = After(24, <<ModeChanged("PLAYING", "OK"), Plain("PLAY_STARTED")>>)
  BY <1>5 DEF x, y
<1>7. ring \in Before
  BY <1>6 DEF Before
<1> QED
  BY <1>2, <1>6, <1>7, NotifyTold, FinishRunTold, ContinueRunTold


\* A queue command that is acknowledged.
LEMMA AnswerTold ==
    ASSUME Roomy, NEW state, NEW free, mode' = mode,
           tx' = QueueFrame(Quiet, BufferStatus(state, free))
    PROVE  EndIsTold
<1>1. Uneventful(tx'.sent)
  BY OneFrame, FrameTypes
<1> QED
  BY <1>1, GoesOn

LEMMA QueueEndTold == ASSUME CoreInv, Roomy, QueueEnd PROVE EndIsTold
<1> DEFINE f == BufferStatus(mode, QueueCapacity - Len(queue))
           r == Plain("PLAY_READY")
<1>1. CASE mode = "ARMED"
  <2>1. /\ FrameBytes("BUFFER_STATUS") = 12 /\ f.type = "BUFFER_STATUS"
        /\ FrameBytes(r.type) = 7 /\ r.type = "PLAY_READY"
    BY Sizes, FrameTypes
  <2>2. \/ /\ mode' = mode
           /\ tx' = QueueFrame(QueueFrame(Quiet, r), f)
        \/ ~Fits(QueueFrame(Quiet, r), "BUFFER_STATUS")
    BY <1>1 DEF QueueEnd
  <2> HIDE DEF f, r
  <2>3. QueueFrame(Quiet, r) = After(7, <<r>>)
    BY <2>1, FirstFrame
  <2>4. 7 \in Nat /\ 7 + 12 =< 80
    OBVIOUS
  <2>5. QueueFrame(After(7, <<r>>), f) = After(7 + 12, Append(<<r>>, f))
    BY <2>1, <2>4, Queued
  <2>6. Fits(After(7, <<r>>), "BUFFER_STATUS")
    <3>1. tx.used + 80 =< TxCapacity
      BY Sizes DEF Roomy, RoomForRun, RunStartBytes, RunEndBytes
    <3> QED
      BY <2>1, <3>1, CapacityAssumption DEF Roomy, Fits, After
  <2>7. mode' = mode /\ tx' = After(7 + 12, Append(<<r>>, f))
    BY <2>2, <2>3, <2>5, <2>6
  <2>8. Append(<<r>>, f) = <<r, f>>
    BY AppendTo1
  <2>9. tx'.sent = <<r, f>>
    BY <2>7, <2>8 DEF After
  <2>10. Range(<<r, f>>) = {r, f}
    BY RangeOfTwo
  <2>11. Uneventful(tx'.sent)
    BY <2>1, <2>9, <2>10 DEF Uneventful, Outcomes
  <2> QED
    BY <2>7, <2>11, GoesOn
<1>2. CASE mode # "ARMED"
  BY <1>2, EnterErrorTold, AnswerTold DEF QueueEnd, Reasons
<1> QED
  BY <1>1, <1>2

LEMMA DispatchTold ==
    ASSUME CoreInv, Roomy, NEW command \in Commands, Dispatch(command)
    PROVE  EndIsTold
<1>1. ASSUME NEW target, ModeSet(target) PROVE EndIsTold
  <2>1. CASE \E reason : Notify(reason, Quiet)
    BY <2>1, NotifyTold
  <2>2. CASE target \in SettableModes /\ EnterMode(target, "OK", Quiet)
    <3>1. target # "PLAYING" /\ "OK" \in Reasons \ {"FINISHED"}
      BY <2>2 DEF SettableModes, Reasons
    <3> QED
      BY <2>2, <3>1, EnterModeTold
  <2> QED
    BY <1>1, <2>1, <2>2 DEF ModeSet
<1>2. CASE PlayAbort
  <2>1. "ABORTED" \in Reasons \ {"FINISHED"}
    BY DEF Reasons
  <2> QED
    BY <1>2, <2>1, NotifyTold, EnterModeTold DEF PlayAbort
<1>3. CASE \/ Reply(Plain("PONG"))
           \/ Reply(PicoStatus(mode))
  <2>1. Uneventful(tx'.sent) /\ mode' = mode
    BY <1>3, OneFrame, FrameTypes DEF Reply, core
  <2> QED
    BY <2>1, GoesOn
<1>4. CASE QueueCommand(command)
  <2>1. "PROTOCOL_ERROR" \in Reasons \ {"FINISHED"}
    BY DEF Reasons
  <2>2. CASE EnterError("PROTOCOL_ERROR", Quiet)
    BY <2>1, <2>2, EnterErrorTold
  <2>3. CASE QueueClear
    BY <2>1, <2>3, EnterErrorTold, AnswerTold DEF QueueClear
  <2>4. ASSUME NEW report, QueueEvent(report) PROVE EndIsTold
    BY <2>1, <2>4, EnterErrorTold, AnswerTold DEF QueueEvent
  <2> QED
    BY <1>4, <2>2, <2>3, <2>4, QueueEndTold DEF QueueCommand
<1> QED
  BY <1>1, <1>2, <1>3, <1>4, PlayStartTold DEF Dispatch

LEMMA SchedulerTold ==
    ASSUME CoreInv, Roomy, SchedulerResume \/ SchedulerDispatch
    PROVE  EndIsTold
<1>1. mode = "PLAYING"
  BY DEF SchedulerResume, SchedulerDispatch, CoreInv, RunMatchesMode
<1>2. Quiet \in Before
  BY QuietIs DEF Before
<1>3. CASE SchedulerResume
  BY <1>1, <1>2, <1>3, FinishRunTold, ContinueRunTold DEF SchedulerResume
<1>4. CASE SchedulerDispatch
  <2> DEFINE free == QueueCapacity - Len(Tail(queue))
             edge == QueueWasFull /\ ~ended
             ring == IF edge THEN QueueFrame(Quiet, BufferStatus(mode, free))
                             ELSE Quiet
             lost == flowFault \/ (edge /\ ~Fits(Quiet, "BUFFER_STATUS"))
  <2>1. FinishRun(ring) \/ ContinueRun(Tail(queue), underrun, lost, ring)
    BY <1>4 DEF SchedulerDispatch
  <2>2. free \in Int
    <3>1. queue \in Seq(Reports) /\ queue # <<>>
      BY <1>4 DEF CoreInv, CoreTypeOK, SchedulerDispatch
    <3>2. Len(Tail(queue)) \in Nat
      BY <3>1, HeadTailProperties, LenProperties
    <3> QED
      BY <3>2, CapacityAssumption
  <2> HIDE DEF free
  <2>3. QueueFrame(Quiet, BufferStatus(mode, free)) = After(12, <<BufferStatus(mode, free)>>)
    <3>1. FrameBytes(BufferStatus(mode, free).type) = 12 /\ 12 \in 0..24
      BY Sizes, FrameTypes
    <3> QED
      BY <3>1, FirstFrame
  <2>4. ring \in Before
    BY <1>2, <2>2, <2>3 DEF Before
  <2> HIDE DEF ring, lost
  <2> QED
    BY <1>1, <2>1, <2>4, FinishRunTold, ContinueRunTold
<1> QED
  BY <1>3, <1>4

-----------------------------------------------------------------------------
(* Every step. *)

LEMMA NextTold == ASSUME IInv, RoomForRun, Next PROVE EndIsTold
<1>1. CoreInv /\ Roomy
  <2>1. tx.used \in 0..TxCapacity /\ TxCapacity \in Nat
    BY CapacityAssumption DEF IInv, RingOK
  <2> QED
    BY <2>1 DEF IInv, Roomy
<1>2. CASE /\ mode' = mode
           /\ tx' = Quiet \/ tx'.sent = <<>>
  <2>1. Uneventful(tx'.sent)
    BY <1>2, NoFrame, RangeOfNone DEF Uneventful
  <2> QED
    BY <1>2, <2>1, GoesOn
<1>3. CASE TakeFault \/ FlowCheck \/ WatchdogExpires
  <2>1. {"UART_FAULT", "PROTOCOL_ERROR", "UNDERRUN"} \subseteq Reasons \ {"FINISHED"}
    BY DEF Reasons
  <2>2. \/ \E reason \in Reasons \ {"FINISHED"} : EnterError(reason, Quiet)
        \/ mode' = mode /\ tx' = Quiet
    BY <1>3, <2>1 DEF TakeFault, FlowCheck, WatchdogExpires, core
  <2> QED
    BY <1>1, <1>2, <2>2, EnterErrorTold
<1>4. CASE RecordHead
  <2>1. Uneventful(tx'.sent) /\ mode' = mode
    BY <1>1, <1>4, OneFrame, FrameTypes DEF RecordHead
  <2> QED
    BY <2>1, GoesOn
<1>5. CASE \E command \in Commands : DispatchCommand(command)
  BY <1>1, <1>5, DispatchTold DEF DispatchCommand
<1>6. CASE SchedulerResume \/ SchedulerDispatch
  BY <1>1, <1>6, SchedulerTold
<1>7. CASE IdleStep
  <2>1. CASE TxTask
    <3>1. tx'.sent = <<>> /\ mode' = mode
      BY <2>1 DEF TxTask, core
    <3> QED
      BY <1>2, <3>1
  <2>2. CASE ~TxTask
    <3>1. tx' = Quiet /\ mode' = mode
      BY <1>7, <2>2
      DEF IdleStep, TudTask, TuhTaskDone, UartPoll, UartInterruptFault,
          DispatchDone, PhysicalDone, SchedulerDone, WatchdogQuiet, core
    <3> QED
      BY <1>2, <3>1
  <2> QED
    BY <2>1, <2>2
<1>8. CASE ReleaseService \/ ForwardHead \/ \E report \in Reports : ReportReceived(report)
  BY <1>2, <1>8 DEF ReleaseService, ForwardHead, ReportReceived
<1> QED
  BY <1>3, <1>4, <1>5, <1>6, <1>7, <1>8 DEF Next, MainLoop, LoopBody, IdleStep

\* However a run ends -- drained, aborted, replaced by a mode, stopped by an
\* error or the watchdog, or over as it starts -- the step that ends it tells
\* Zero the outcome, the metrics and the mode change, in this order, and no
\* other step names an outcome, for every TX ring with room for the frames
\* (playback_complete, clear_release_and_queue).
THEOREM RunEndReportedAlways == Spec => RunEndReported
<1>1. IInv /\ [Next]_vars => [RoomForRun => EndIsTold]_vars
  BY NextTold
<1> QED
  BY <1>1, Invariance, PTL DEF Spec, RunEndReported

-----------------------------------------------------------------------------
(* What the Zero is told of modes. *)

\* The function by which News is defined, up to the n-th frame.
Kept(g, frames, n) ==
    g = [m \in 0..n |->
            IF m = 0 THEN <<>>
            ELSE IF IsModeNews(frames[m]) THEN Append(g[m - 1], frames[m])
            ELSE g[m - 1]]

\* Any such function has the same values.
LEMMA KeptNext ==
    ASSUME NEW g, NEW frames, NEW n \in Nat, Kept(g, frames, n), NEW m \in 0..n
    PROVE  g[m] = IF m = 0 THEN <<>>
                  ELSE IF IsModeNews(frames[m]) THEN Append(g[m - 1], frames[m])
                  ELSE g[m - 1]
  BY DEF Kept

LEMMA KeptExists ==
    ASSUME NEW frames, NEW n \in Nat
    PROVE  \E g : Kept(g, frames, n)
<1> DEFINE S == {m \in Nat : \E g : Kept(g, frames, m)}
<1>1. 0 \in S
  <2> DEFINE g == [m \in 0..0 |-> <<>>]
  <2>1. Kept(g, frames, 0)
    BY DEF Kept
  <2> QED
    BY <2>1
<1>2. ASSUME NEW k \in Nat, k \in S PROVE k + 1 \in S
  <2>1. PICK g : Kept(g, frames, k)
    BY <1>2
  <2> DEFINE Step(f, m) == IF m = 0 THEN <<>>
                           ELSE IF IsModeNews(frames[m]) THEN Append(f[m - 1], frames[m])
                           ELSE f[m - 1]
             last == Step(g, k + 1)
             h == [m \in 0..(k + 1) |-> IF m = k + 1 THEN last ELSE g[m]]
             next == [m \in 0..(k + 1) |-> Step(h, m)]
  <2>2. (\A m \in 0..k : h[m] = g[m]) /\ h[k + 1] = last
    OBVIOUS
  <2>3. \A m \in 0..k : g[m] = Step(g, m)
    BY <2>1, KeptNext
  <2>4. DOMAIN h = 0..(k + 1) /\ DOMAIN next = 0..(k + 1)
        /\ \A m \in 0..(k + 1) : next[m] = Step(h, m)
    OBVIOUS
  <2> HIDE DEF h, next
  <2>5. ASSUME NEW m \in 0..(k + 1) PROVE h[m] = next[m]
    <3>1. CASE m = k + 1
      <4>1. m - 1 \in 0..k /\ m - 1 = k /\ m # 0
        BY <3>1
      <4> QED
        BY <2>2, <2>4, <3>1, <4>1
    <3>2. CASE m # k + 1
      <4>1. m \in 0..k /\ (m # 0 => m - 1 \in 0..k)
        BY <3>2
      <4> QED
        BY <2>2, <2>3, <2>4, <4>1
    <3> QED
      BY <3>1, <3>2
  <2>6. h = next
    <3>1. h = [m \in 0..(k + 1) |-> h[m]] /\ next = [m \in 0..(k + 1) |-> next[m]]
      BY DEF h, next
    <3> QED
      BY <2>5, <3>1
  <2>7. Kept(h, frames, k + 1)
    BY <2>6 DEF Kept, next
  <2> QED
    BY <2>7
<1>3. Nat \subseteq S
  <2> HIDE DEF S
  <2> QED
    BY <1>1, <1>2, SetInduction
<1> QED
  BY <1>3

LEMMA NewsKept ==
    ASSUME NEW frames, Len(frames) \in Nat
    PROVE  \E g : Kept(g, frames, Len(frames)) /\ News(frames) = g[Len(frames)]
<1>1. \E g : Kept(g, frames, Len(frames))
  BY KeptExists
<1> DEFINE chosen == CHOOSE g : Kept(g, frames, Len(frames))
<1>2. Kept(chosen, frames, Len(frames))
  BY <1>1
<1>3. News(frames) = chosen[Len(frames)]
  BY DEF News, Kept
<1> QED
  BY <1>2, <1>3

LEMMA NewsOfNone == News(<<>>) = <<>>
<1>1. Len(<<>>) = 0 /\ Len(<<>>) \in Nat
  OBVIOUS
<1>2. PICK g : Kept(g, <<>>, Len(<<>>)) /\ News(<<>>) = g[Len(<<>>)]
  BY <1>1, NewsKept
<1>3. g[0] = <<>>
  BY <1>1, <1>2, KeptNext
<1> QED
  BY <1>1, <1>2, <1>3

LEMMA NewsOfAppend ==
    ASSUME NEW X, NEW frames \in Seq(X), NEW x \in X
    PROVE  News(Append(frames, x)) = IF IsModeNews(x) THEN Append(News(frames), x) ELSE News(frames)
<1> DEFINE n == Len(frames)
           more == Append(frames, x)
<1>1. n \in Nat /\ Len(more) = n + 1 /\ Len(more) \in Nat /\ more[n + 1] = x
      /\ \A m \in 1..n : more[m] = frames[m]
  OBVIOUS
<1> HIDE DEF n, more
<1>2. PICK g : Kept(g, frames, n) /\ News(frames) = g[n]
  BY <1>1, NewsKept DEF n
<1>3. PICK h : Kept(h, more, n + 1) /\ News(more) = h[n + 1]
  BY <1>1, NewsKept
<1> DEFINE S == {m \in Nat : m =< n => h[m] = g[m]}
<1>4. 0 \in S
  <2>1. 0 \in 0..n /\ 0 \in 0..(n + 1)
    BY <1>1
  <2>2. g[0] = <<>>
    BY <1>1, <1>2, <2>1, KeptNext
  <2>3. h[0] = <<>>
    BY <1>1, <1>3, <2>1, KeptNext
  <2> QED
    BY <2>2, <2>3
<1>5. ASSUME NEW k \in Nat, k \in S PROVE k + 1 \in S
  <2> SUFFICES ASSUME k + 1 =< n PROVE h[k + 1] = g[k + 1]
    OBVIOUS
  <2>1. k + 1 \in 0..n /\ k + 1 \in 0..(n + 1) /\ k + 1 \in 1..n /\ k + 1 # 0 /\ (k + 1) - 1 = k
    BY <1>1
  <2>2. g[k + 1] = IF IsModeNews(frames[k + 1]) THEN Append(g[k], frames[k + 1]) ELSE g[k]
    BY <1>1, <1>2, <2>1, KeptNext
  <2>3. h[k + 1] = IF IsModeNews(more[k + 1]) THEN Append(h[k], more[k + 1]) ELSE h[k]
    BY <1>1, <1>3, <2>1, KeptNext
  <2> QED
    BY <1>1, <1>5, <2>1, <2>2, <2>3
<1>6. n \in S
  <2>1. Nat \subseteq S
    <3> HIDE DEF S
    <3> QED
      BY <1>4, <1>5, SetInduction
  <2> QED
    BY <1>1, <2>1
<1>7. h[n + 1] = IF IsModeNews(more[n + 1]) THEN Append(h[n], more[n + 1]) ELSE h[n]
  <2>1. n + 1 \in Nat /\ n + 1 \in 0..(n + 1) /\ n + 1 # 0 /\ (n + 1) - 1 = n
    BY <1>1
  <2> QED
    BY <1>3, <2>1, KeptNext
<1> QED
  BY <1>1, <1>2, <1>3, <1>6, <1>7 DEF more

IsSequence(s) == \E X : s \in Seq(X)

LEMMA QueuedNews ==
    ASSUME NEW STATE ring, IsSequence(ring.sent), NEW frame
    PROVE  /\ IsSequence(QueueFrame(ring, frame).sent)
           /\ News(QueueFrame(ring, frame).sent) =
                 IF Fits(ring, frame.type) /\ IsModeNews(frame)
                 THEN Append(News(ring.sent), frame) ELSE News(ring.sent)
<1>1. PICK X : ring.sent \in Seq(X)
  BY DEF IsSequence
<1> DEFINE Y == X \cup {frame}
<1>2. ring.sent \in Seq(Y) /\ frame \in Y
  BY <1>1, SeqMonotonic
<1> HIDE DEF Y
<1>3. CASE Fits(ring, frame.type)
  <2>1. QueueFrame(ring, frame).sent = Append(ring.sent, frame)
    BY <1>3 DEF QueueFrame
  <2>2. Append(ring.sent, frame) \in Seq(Y)
    BY <1>2
  <2>3. News(Append(ring.sent, frame)) =
           IF IsModeNews(frame) THEN Append(News(ring.sent), frame) ELSE News(ring.sent)
    BY <1>2, NewsOfAppend
  <2> QED
    BY <1>3, <2>1, <2>2, <2>3 DEF IsSequence
<1>4. CASE ~Fits(ring, frame.type)
  <2>1. QueueFrame(ring, frame).sent = ring.sent
    BY <1>4 DEF QueueFrame
  <2> QED
    BY <1>4, <2>1
<1> QED
  BY <1>3, <1>4

\* Nothing about modes has been queued yet.
Blank(ring) == IsSequence(ring.sent) /\ News(ring.sent) = <<>>

LEMMA QuietIsBlank == Blank(Quiet) /\ News(Quiet.sent) = <<>>
<1>1. Quiet.sent = <<>> /\ <<>> \in Seq({})
  BY DEF Quiet
<1> QED
  BY <1>1, NewsOfNone DEF Blank, IsSequence

LEMMA NoNews ==
    /\ \A type \in PicoToZero \ {"MODE_CHANGED", "RECORD_EVENT"} : ~IsModeNews(Plain(type))
    /\ \A state, free : ~IsModeNews(BufferStatus(state, free))
    /\ \A free : ~IsModeNews(PlayUnderrun(free))
    /\ \A state : ~IsModeNews(PicoStatus(state))
    /\ \A state, reason : IsModeNews(ModeChanged(state, reason))
    /\ \A report : IsModeNews(RecordEvent(report))
    /\ {"PLAY_ABORTED", "PLAY_FINISHED", "PLAY_METRICS", "PLAY_READY", "PLAY_STARTED", "PONG"}
          \subseteq PicoToZero \ {"MODE_CHANGED", "RECORD_EVENT"}
  BY DEF IsModeNews, Plain, BufferStatus, PlayUnderrun, PicoStatus, ModeChanged, RecordEvent,
         PicoToZero, PayloadLen

\* Frames that are not about modes add nothing.
LEMMA BlankKept ==
    ASSUME NEW STATE ring, Blank(ring), NEW frame, ~IsModeNews(frame)
    PROVE  Blank(QueueFrame(ring, frame))
  BY QueuedNews DEF Blank

LEMMA StopIsBlank ==
    ASSUME NEW STATE ring, Blank(ring), NEW outcome \in {"PLAY_ABORTED", "PLAY_FINISHED"}
    PROVE  Blank(CompleteRun(ring, outcome)) /\ Blank(StopRun(ring))
<1>1. ASSUME NEW o \in {"PLAY_ABORTED", "PLAY_FINISHED"} PROVE Blank(CompleteRun(ring, o))
  <2>1. Blank(QueueFrame(ring, Plain(o)))
    BY NoNews, BlankKept
  <2>2. Blank(QueueFrame(QueueFrame(ring, Plain(o)), Plain("PLAY_METRICS")))
    BY <2>1, NoNews, BlankKept
  <2> QED
    BY <2>2 DEF CompleteRun
<1> QED
  BY <1>1 DEF StopRun

\* One frame about modes, which the ring may have dropped.
Says(frame) == News(tx'.sent) \in {<<>>, <<frame>>}

LEMMA SaysOne ==
    ASSUME NEW STATE ring, Blank(ring), NEW frame, tx' = QueueFrame(ring, frame)
    PROVE  Says(frame)
<1>1. News(tx'.sent) = IF Fits(ring, frame.type) /\ IsModeNews(frame)
                       THEN Append(<<>>, frame) ELSE <<>>
  BY QueuedNews DEF Blank
<1> QED
  BY <1>1, AppendTo0 DEF Says

LEMMA FirstFrames ==
    ASSUME NEW f, NEW s, s \in {<<>>, <<f>>}
    PROVE  \E n \in 0..Len(<<f>>) : s = SubSeq(<<f>>, 1, n)
<1> DEFINE w == <<f>>
<1>1. w \in Seq({f}) /\ Len(w) = 1 /\ w[1] = f
  OBVIOUS
<1> HIDE DEF w
<1>2. SubSeq(w, 1, 0) = <<>> /\ SubSeq(w, 1, 1) = w
  BY <1>1
<1>3. 0 \in 0..Len(w) /\ 1 \in 0..Len(w)
  BY <1>1
<1> QED
  BY <1>2, <1>3 DEF w

LEMMA AnswerSaid ==
    ASSUME NEW state, NEW reason, mode' = state, Says(ModeChanged(state, reason))
    PROVE  Peer!Answer(state, reason)
<1> DEFINE f == ModeChanged(state, reason)
           news == News(tx.sent)
<1>1. news' \in {<<>>, <<f>>}
  BY DEF Says
<1>2. Peer!ModeChanged(state, reason) = f
  BY DEF ModeChanged, Peer!ModeChanged
<1> HIDE DEF f, news
<1>3. \E n \in 0..Len(<<f>>) : news' = SubSeq(<<f>>, 1, n)
  BY <1>1, FirstFrames
<1> QED
  BY <1>2, <1>3 DEF Peer!Answer, Peer!Sends, news

LEMMA CaptureSaid ==
    ASSUME NEW report, mode = "RECORD", mode' = mode, Says(RecordEvent(report))
    PROVE  Peer!Capture(report)
<1> DEFINE f == RecordEvent(report)
           news == News(tx.sent)
<1>1. news' \in {<<>>, <<f>>}
  BY DEF Says
<1>2. Peer!RecordEvent(report) = f
  BY DEF RecordEvent, Peer!RecordEvent
<1> HIDE DEF f, news
<1>3. \E n \in 0..Len(<<f>>) : news' = SubSeq(<<f>>, 1, n)
  BY <1>1, FirstFrames
<1> QED
  BY <1>2, <1>3 DEF Peer!Capture, Peer!Sends, news

LEMMA NothingSaid == ASSUME mode' = mode, Blank(tx') PROVE Peer!Silent
  BY DEF Blank, Peer!Silent

LEMMA NoFrameSaid == ASSUME mode' = mode, tx' = Quiet PROVE Peer!Silent
<1>1. News(tx'.sent) = <<>>
  BY QuietIsBlank
<1> QED
  BY <1>1 DEF Peer!Silent

-----------------------------------------------------------------------------
(* The handlers, as the peer does them. *)

LEMMA NotifyPeer ==
    ASSUME NEW reason, NEW STATE ring, Blank(ring), Notify(reason, ring)
    PROVE  Peer!Answer(mode, reason)
<1>1. mode' = mode /\ tx' = QueueFrame(ring, ModeChanged(mode, reason))
  BY DEF Notify, core
<1> QED
  BY <1>1, SaysOne, AnswerSaid

LEMMA EnterModePeer ==
    ASSUME NEW state, NEW reason, NEW STATE ring, Blank(ring), EnterMode(state, reason, ring)
    PROVE  Peer!Answer(state, reason)
<1>1. mode' = state /\ tx' = QueueFrame(StopRun(ring), ModeChanged(state, reason))
  BY DEF EnterMode
<1>2. Blank(StopRun(ring))
  BY StopIsBlank
<1> QED
  BY <1>1, <1>2, SaysOne, AnswerSaid

LEMMA EnterErrorPeer ==
    ASSUME NEW reason, NEW STATE ring, Blank(ring), EnterError(reason, ring)
    PROVE  Peer!Fault(reason)
<1>1. CASE mode \in {"PASS", "ERROR"}
  <2>1. Peer!Answer(mode, reason)
    BY <1>1, NotifyPeer DEF EnterError
  <2> QED
    BY <1>1, <2>1 DEF Peer!Fault
<1>2. CASE mode \notin {"PASS", "ERROR"}
  <2>1. Peer!Answer("ERROR", reason)
    BY <1>2, EnterModePeer DEF EnterError
  <2> QED
    BY <1>2, <2>1 DEF Peer!Fault
<1> QED
  BY <1>1, <1>2

Reported == {"PROTOCOL_ERROR", "UART_FAULT", "UNDERRUN"}

LEMMA ModeSetPeer ==
    ASSUME NEW target \in Modes, ModeSet(target)
    PROVE  Peer!Next
<1>1. CASE target \notin SettableModes /\ Notify("INVALID_TARGET", Quiet)
  <2>1. Peer!Answer(mode, "INVALID_TARGET")
    BY <1>1, QuietIsBlank, NotifyPeer
  <2> QED
    BY <2>1 DEF Peer!Next, Peer!Reject
<1>2. CASE target \in SettableModes /\ target = mode /\ Notify("OK", Quiet)
  <2>1. Peer!Answer(mode, "OK")
    BY <1>2, QuietIsBlank, NotifyPeer
  <2>2. Peer!ModeSet(target)
    BY <1>2, <2>1 DEF Peer!ModeSet
  <2> QED
    BY <1>2, <2>2 DEF Peer!Next, SettableModes, Peer!SettableModes
<1>3. CASE /\ target \in SettableModes \ {mode}
           /\ target = "PASS" \/ mode = "PASS"
           /\ EnterMode(target, "OK", Quiet)
  <2>1. Peer!Answer(target, "OK")
    BY <1>3, QuietIsBlank, EnterModePeer
  <2>2. Peer!ModeSet(target)
    BY <1>3, <2>1 DEF Peer!ModeSet
  <2> QED
    BY <1>3, <2>2 DEF Peer!Next, SettableModes, Peer!SettableModes
<1>4. CASE /\ target \in SettableModes \ {mode, "PASS"}
           /\ mode # "PASS"
           /\ Notify("INVALID_TRANSITION", Quiet)
  <2>1. Peer!Answer(mode, "INVALID_TRANSITION")
    BY <1>4, QuietIsBlank, NotifyPeer
  <2> QED
    BY <2>1 DEF Peer!Next, Peer!Reject
<1> QED
  BY <1>1, <1>2, <1>3, <1>4 DEF ModeSet

LEMMA PlayAbortPeer == ASSUME PlayAbort PROVE Peer!Next
<1>1. CASE mode \in {"ARMED", "PLAYING"}
  <2>1. Peer!Answer("ARMED", "ABORTED")
    BY <1>1, QuietIsBlank, EnterModePeer DEF PlayAbort
  <2> QED
    BY <1>1, <2>1 DEF Peer!Next, Peer!Play
<1>2. CASE mode \notin {"ARMED", "PLAYING"}
  <2>1. Peer!Answer(mode, "INVALID_TRANSITION")
    BY <1>2, QuietIsBlank, NotifyPeer DEF PlayAbort
  <2> QED
    BY <2>1 DEF Peer!Next, Peer!Reject
<1> QED
  BY <1>1, <1>2

LEMMA QueueCommandPeer ==
    ASSUME NEW command, QueueCommand(command)
    PROVE  Peer!Next
<1> DEFINE ready == IF mode = "ARMED" THEN QueueFrame(Quiet, Plain("PLAY_READY")) ELSE Quiet
<1>1. Blank(Quiet) /\ Blank(ready)
  BY QuietIsBlank, NoNews, BlankKept
<1> HIDE DEF ready
<1>2. ASSUME NEW STATE ring, Blank(ring), EnterError("PROTOCOL_ERROR", ring) PROVE Peer!Next
  BY <1>2, EnterErrorPeer DEF Peer!Next
<1>3. ASSUME NEW STATE ring, Blank(ring), NEW free, mode' = mode,
             tx' = QueueFrame(ring, BufferStatus(mode, free))
      PROVE  Peer!Next
  <2>1. Blank(tx')
    BY <1>3, NoNews, BlankKept
  <2> QED
    BY <1>3, <2>1, NothingSaid DEF Peer!Next
<1>4. CASE QueueClear
  BY <1>1, <1>2, <1>3, <1>4 DEF QueueClear
<1>5. CASE QueueEvent(command.report)
  BY <1>1, <1>2, <1>3, <1>5 DEF QueueEvent
<1>6. CASE QueueEnd
  BY <1>1, <1>2, <1>3, <1>6 DEF QueueEnd, ready
<1> QED
  BY <1>1, <1>2, <1>4, <1>5, <1>6 DEF QueueCommand

\* Frames that are not about modes leave what has been said.
LEMMA NewsStay ==
    ASSUME NEW STATE ring, RingOK(ring), IsSequence(ring.sent), NEW type \in PicoToZero,
           ~IsModeNews(Plain(type))
    PROVE  /\ RingOK(QueueFrame(ring, Plain(type))) /\ IsSequence(QueueFrame(ring, Plain(type)).sent)
           /\ News(QueueFrame(ring, Plain(type)).sent) = News(ring.sent)
           /\ ring.used =< QueueFrame(ring, Plain(type)).used
<1>1. Plain(type).type = type /\ FrameBytes(type) \in Nat
  BY FrameBytesNat DEF Plain
<1>2. RingOK(QueueFrame(ring, Plain(type)))
  BY <1>1, QueueFrameOK
<1>3. ring.used =< QueueFrame(ring, Plain(type)).used
  BY <1>1 DEF QueueFrame, RingOK
<1> QED
  BY <1>2, <1>3, QueuedNews

StartFrame == ModeChanged("PLAYING", "OK")
EndFrame == ModeChanged("ARMED", "FINISHED")

\* Both frames of a run that ends as it starts, or the first one only, or none.
LEMMA BothSaid ==
    ASSUME mode = "ARMED", mode' = "ARMED",
           News(tx'.sent) \in {<<>>, <<StartFrame>>, <<StartFrame, EndFrame>>}
    PROVE  Peer!Play
<1> DEFINE news == News(tx.sent)
           both == <<StartFrame, EndFrame>>
<1>1. news' \in {<<>>, <<StartFrame>>, both}
  OBVIOUS
<1>2. both \in Seq({StartFrame, EndFrame}) /\ Len(both) = 2 /\ both[1] = StartFrame
  OBVIOUS
<1> HIDE DEF both, news
<1>3. SubSeq(both, 1, 0) = <<>> /\ SubSeq(both, 1, 1) = <<StartFrame>> /\ SubSeq(both, 1, 2) = both
  <2> DEFINE Both == {StartFrame, EndFrame}
             one == <<StartFrame>>
  <2>1. one \in Seq(Both) /\ Len(one) = 1 /\ one[1] = both[1]
    BY <1>2
  <2>2. both \in Seq(Both)
    BY <1>2
  <2> HIDE DEF Both, one
  <2>3. ASSUME NEW n \in 0..2
        PROVE  /\ SubSeq(both, 1, n) \in Seq(Both) /\ Len(SubSeq(both, 1, n)) = n
               /\ \A i \in 1..n : SubSeq(both, 1, n)[i] = both[i]
    <3>1. \A i \in 1..n : i \in 1..Len(both)
      BY <1>2
    <3>2. \A i \in 1..n : both[i] \in Both
      BY <2>2, <3>1, ElementOfSeq
    <3>3. /\ SubSeq(both, 1, n) \in Seq(Both)
          /\ Len(SubSeq(both, 1, n)) = IF 1 =< n THEN n - 1 + 1 ELSE 0
          /\ \A i \in 1..(n - 1 + 1) : SubSeq(both, 1, n)[i] = both[1 + i - 1]
      BY <3>2, SubSeqProperties
    <3> QED
      BY <3>3
  <2>4. SubSeq(both, 1, 0) = <<>>
    BY <2>3, EmptySeq
  <2>5. SubSeq(both, 1, 1) = one
    <3>1. SubSeq(both, 1, 1) \in Seq(Both) /\ Len(SubSeq(both, 1, 1)) = 1 /\ SubSeq(both, 1, 1)[1] = both[1]
      BY <2>3
    <3> QED
      BY <2>1, <3>1, SeqEqual
  <2>6. SubSeq(both, 1, 2) = both
    <3>1. SubSeq(both, 1, 2) \in Seq(Both) /\ Len(SubSeq(both, 1, 2)) = 2
          /\ \A i \in 1..2 : SubSeq(both, 1, 2)[i] = both[i]
      BY <2>3
    <3> QED
      BY <1>2, <2>2, <3>1, SeqEqual
  <2> QED
    BY <2>4, <2>5, <2>6 DEF one
<1>4. 0 \in 0..Len(both) /\ 1 \in 0..Len(both) /\ 2 \in 0..Len(both)
  BY <1>2
<1>5. \E n \in 0..Len(both) : news' = SubSeq(both, 1, n)
  BY <1>1, <1>3, <1>4
<1>6. both = <<Peer!ModeChanged("PLAYING", "OK"), Peer!ModeChanged("ARMED", "FINISHED")>>
  BY DEF both, StartFrame, EndFrame, ModeChanged, Peer!ModeChanged
<1>7. Peer!Sends(both)
  BY <1>5 DEF Peer!Sends, news
<1> QED
  BY <1>6, <1>7 DEF Peer!Play

LEMMA PlayStartPeer == ASSUME RingOK(tx), PlayStart PROVE Peer!Next
<1> DEFINE r1 == QueueFrame(Quiet, StartFrame)
           r2 == QueueFrame(r1, Plain("PLAY_STARTED"))
           r3 == QueueFrame(r2, Plain("PLAY_FINISHED"))
           r4 == QueueFrame(r3, Plain("PLAY_METRICS"))
<1>0. \/ mode # "ARMED" /\ Notify("INVALID_TRANSITION", Quiet)
      \/ mode = "ARMED" /\ Drained(queue) /\ FinishRun(r2)
      \/ mode = "ARMED" /\ ~Drained(queue) /\ ContinueRun(queue, FALSE, flowFault, r2)
  BY DEF PlayStart, StartFrame
<1>1. RingOK(Quiet) /\ IsSequence(Quiet.sent) /\ News(Quiet.sent) = <<>>
  BY QuietOK, QuietIsBlank DEF Blank
<1>2. StartFrame.type = "MODE_CHANGED" /\ EndFrame.type = "MODE_CHANGED" /\ "MODE_CHANGED" \in PicoToZero
      /\ IsModeNews(StartFrame) /\ IsModeNews(EndFrame)
  BY NoNews DEF StartFrame, EndFrame, ModeChanged, PicoToZero, PayloadLen
<1>3. /\ RingOK(r1) /\ IsSequence(r1.sent)
      /\ Fits(Quiet, "MODE_CHANGED") => News(r1.sent) = <<StartFrame>>
      /\ ~Fits(Quiet, "MODE_CHANGED") => News(r1.sent) = <<>> /\ r1 = Quiet
  <2>1. RingOK(r1)
    BY <1>1, <1>2, QueueFrameOK
  <2>2. IsSequence(r1.sent) /\ News(r1.sent) = IF Fits(Quiet, "MODE_CHANGED")
                                               THEN Append(<<>>, StartFrame) ELSE <<>>
    BY <1>1, <1>2, QueuedNews
  <2>3. ~Fits(Quiet, "MODE_CHANGED") => r1 = Quiet
    BY <1>2 DEF QueueFrame
  <2> QED
    BY <2>1, <2>2, <2>3, AppendTo0
<1>4. /\ {"PLAY_STARTED", "PLAY_FINISHED", "PLAY_METRICS"} \subseteq PicoToZero
      /\ \A type \in {"PLAY_STARTED", "PLAY_FINISHED", "PLAY_METRICS"} : ~IsModeNews(Plain(type))
  BY NoNews DEF PicoToZero, PayloadLen
<1> HIDE DEF r1
<1>5. RingOK(r2) /\ IsSequence(r2.sent) /\ News(r2.sent) = News(r1.sent) /\ r1.used =< r2.used
  BY <1>3, <1>4, NewsStay
<1> HIDE DEF r2
<1>6. CASE mode # "ARMED"
  <2>1. Notify("INVALID_TRANSITION", Quiet)
    BY <1>0, <1>6
  <2>2. Peer!Answer(mode, "INVALID_TRANSITION")
    BY <2>1, QuietIsBlank, NotifyPeer
  <2> QED
    BY <2>2 DEF Peer!Next, Peer!Reject
<1>7. CASE mode = "ARMED" /\ Drained(queue)
  <2>1. FinishRun(r2)
    BY <1>0, <1>7
  <2>2. RingOK(r3) /\ IsSequence(r3.sent) /\ News(r3.sent) = News(r1.sent) /\ r1.used =< r3.used
    <3>1. "PLAY_FINISHED" \in PicoToZero /\ ~IsModeNews(Plain("PLAY_FINISHED"))
      BY <1>4
    <3>2. RingOK(r3) /\ IsSequence(r3.sent) /\ News(r3.sent) = News(r2.sent) /\ r2.used =< r3.used
      BY <1>5, <3>1, NewsStay
    <3> QED
      BY <1>3, <1>5, <3>2 DEF RingOK
  <2> HIDE DEF r3
  <2>3. RingOK(r4) /\ IsSequence(r4.sent) /\ News(r4.sent) = News(r1.sent) /\ r1.used =< r4.used
    <3>1. "PLAY_METRICS" \in PicoToZero /\ ~IsModeNews(Plain("PLAY_METRICS"))
      BY <1>4
    <3>2. RingOK(r4) /\ IsSequence(r4.sent) /\ News(r4.sent) = News(r3.sent) /\ r3.used =< r4.used
      BY <2>2, <3>1, NewsStay
    <3> QED
      BY <1>3, <2>2, <3>2 DEF RingOK
  <2>4. mode' = "ARMED" /\ tx' = QueueFrame(r4, EndFrame)
    BY <2>1 DEF FinishRun, CompleteRun, r3, r4, EndFrame
  <2> HIDE DEF r4
  <2>5. News(tx'.sent) = IF Fits(r4, "MODE_CHANGED") THEN Append(News(r1.sent), EndFrame) ELSE News(r1.sent)
    BY <1>2, <2>3, <2>4, QueuedNews
  <2>6. CASE Fits(Quiet, "MODE_CHANGED")
    <3>1. News(r1.sent) = <<StartFrame>> /\ Append(<<StartFrame>>, EndFrame) = <<StartFrame, EndFrame>>
      BY <1>3, <2>6, AppendTo1
    <3> QED
      BY <1>7, <2>4, <2>5, <3>1, BothSaid DEF Peer!Next
  <2>7. CASE ~Fits(Quiet, "MODE_CHANGED")
    <3>1. News(r1.sent) = <<>> /\ Quiet.used =< r4.used
      BY <1>3, <2>3, <2>7
    <3>2. ~Fits(r4, "MODE_CHANGED")
      BY <1>1, <1>2, <2>3, <2>7, <3>1, FrameBytesNat, CapacityAssumption DEF Fits, RingOK
    <3> QED
      BY <1>7, <2>4, <2>5, <3>1, <3>2, BothSaid DEF Peer!Next
  <2> QED
    BY <2>6, <2>7
<1>8. CASE mode = "ARMED" /\ ~Drained(queue)
  <2>1. ContinueRun(queue, FALSE, flowFault, r2)
    BY <1>0, <1>8
  <2>2. mode' = "PLAYING" /\ tx' \in {r2, QueueFrame(r2, PlayUnderrun(QueueCapacity))}
    BY <2>1 DEF ContinueRun
  <2>3. News(tx'.sent) = News(r1.sent)
    <3> DEFINE notice == PlayUnderrun(QueueCapacity)
    <3>1. ~IsModeNews(notice)
      BY NoNews
    <3> HIDE DEF notice
    <3>2. News(QueueFrame(r2, notice).sent) = News(r2.sent)
      BY <1>5, <3>1, QueuedNews
    <3> QED
      BY <1>5, <2>2, <3>2 DEF notice
  <2>4. Says(StartFrame)
    BY <1>3, <2>3 DEF Says
  <2>5. Peer!Answer("PLAYING", "OK")
    BY <2>2, <2>4, AnswerSaid DEF StartFrame
  <2> QED
    BY <1>8, <2>5 DEF Peer!Next, Peer!Play
<1> QED
  BY <1>6, <1>7, <1>8

LEMMA DispatchPeer ==
    ASSUME RingOK(tx), NEW command \in Commands, Dispatch(command)
    PROVE  Peer!Next
<1>1. CASE command.type = "MODE_SET" /\ ModeSet(command.target)
  <2>1. command.target \in Modes
    BY <1>1 DEF Commands
  <2> QED
    BY <1>1, <2>1, ModeSetPeer
<1>2. ASSUME NEW STATE frame, ~IsModeNews(frame), Reply(frame) PROVE Peer!Next
  <2>1. mode' = mode /\ Blank(tx')
    BY <1>2, QuietIsBlank, BlankKept DEF Reply, core
  <2> QED
    BY <2>1, NothingSaid DEF Peer!Next
<1>3. CASE command.type = "PING" /\ Reply(Plain("PONG"))
  BY <1>2, <1>3, NoNews
<1>4. CASE command.type = "STATUS_REQUEST" /\ Reply(PicoStatus(mode))
  BY <1>2, <1>4, NoNews
<1> QED
  BY <1>1, <1>3, <1>4, PlayStartPeer, PlayAbortPeer, QueueCommandPeer DEF Dispatch

\* The scheduler's run goes on, or ends.
LEMMA ContinuePeer ==
    ASSUME mode = "PLAYING", NEW events, NEW starving, NEW lost, NEW STATE ring, Blank(ring),
           ContinueRun(events, starving, lost, ring)
    PROVE  Peer!Next
<1>1. mode' = "PLAYING" /\ tx' \in {ring, QueueFrame(ring, PlayUnderrun(QueueCapacity))}
  BY DEF ContinueRun
<1>2. Blank(tx')
  BY <1>1, NoNews, BlankKept
<1> QED
  BY <1>1, <1>2, NothingSaid DEF Peer!Next

LEMMA FinishPeer ==
    ASSUME mode = "PLAYING", NEW STATE ring, Blank(ring), FinishRun(ring)
    PROVE  Peer!Next
<1>1. Blank(CompleteRun(ring, "PLAY_FINISHED"))
  BY StopIsBlank
<1>2. mode' = "ARMED" /\ tx' = QueueFrame(CompleteRun(ring, "PLAY_FINISHED"), ModeChanged("ARMED", "FINISHED"))
  BY DEF FinishRun
<1>3. Peer!Answer("ARMED", "FINISHED")
  BY <1>1, <1>2, SaysOne, AnswerSaid
<1> QED
  BY <1>3 DEF Peer!Next, Peer!Play

LEMMA SchedulerPeer ==
    ASSUME RunMatchesMode, SchedulerResume \/ SchedulerDispatch
    PROVE  Peer!Next
<1>1. mode = "PLAYING"
  BY DEF RunMatchesMode, SchedulerResume, SchedulerDispatch
<1>2. CASE SchedulerResume
  BY <1>1, <1>2, QuietIsBlank, ContinuePeer, FinishPeer DEF SchedulerResume
<1>3. CASE SchedulerDispatch
  <2> DEFINE edge == QueueWasFull /\ ~ended
             ring == IF edge THEN QueueFrame(Quiet, BufferStatus(mode, QueueCapacity - Len(Tail(queue))))
                             ELSE Quiet
             lost == flowFault \/ (edge /\ ~Fits(Quiet, "BUFFER_STATUS"))
  <2>1. Blank(ring)
    BY QuietIsBlank, NoNews, BlankKept
  <2>2. FinishRun(ring) \/ ContinueRun(Tail(queue), underrun, lost, ring)
    BY <1>3 DEF SchedulerDispatch
  <2> HIDE DEF ring, lost
  <2> QED
    BY <1>1, <2>1, <2>2, ContinuePeer, FinishPeer
<1> QED
  BY <1>2, <1>3

\* Every step of the firmware is one of the peer's or leaves it alone.
LEMMA NextPeer == IInv /\ [Next]_vars => [Peer!Next]_Peer!peerVars
<1> SUFFICES ASSUME IInv, [Next]_vars PROVE [Peer!Next]_Peer!peerVars
  OBVIOUS
<1>0. CoreInv /\ RingOK(tx) /\ RunMatchesMode
  BY DEF IInv, CoreInv
<1>1. CASE IdleStep \/ ReleaseService \/ ForwardHead \/ \E report \in Reports : ReportReceived(report)
  <2>1. mode' = mode
    BY <1>1
    DEF IdleStep, TudTask, TuhTaskDone, UartPoll, UartInterruptFault, DispatchDone, PhysicalDone,
        SchedulerDone, WatchdogQuiet, TxTask, ReleaseService, ForwardHead, ReportReceived, core
  <2>2. tx'.sent = <<>>
    <3>1. TxTask => tx'.sent = <<>>
      BY DEF TxTask
    <3>2. Quiet.sent = <<>>
      BY DEF Quiet
    <3>3. \/ TxTask
          \/ tx' = Quiet
      BY <1>1
      DEF IdleStep, TudTask, TuhTaskDone, UartPoll, UartInterruptFault, DispatchDone, PhysicalDone,
          SchedulerDone, WatchdogQuiet, ReleaseService, ForwardHead, ReportReceived
    <3> QED
      BY <3>1, <3>2, <3>3
  <2>3. Blank(tx')
    BY <2>2, NewsOfNone, QuietIsBlank DEF Blank, Quiet
  <2> QED
    BY <2>1, <2>3, NothingSaid DEF Peer!Next
<1>2. ASSUME NEW reason \in Reported, EnterError(reason, Quiet) PROVE Peer!Next
  BY <1>2, QuietIsBlank, EnterErrorPeer DEF Peer!Next, Reported
<1>3. ASSUME UNCHANGED core, tx' = Quiet PROVE Peer!Next
  BY <1>3, NoFrameSaid DEF core, Peer!Next
<1>4. CASE TakeFault \/ FlowCheck \/ WatchdogExpires
  BY <1>2, <1>3, <1>4 DEF TakeFault, FlowCheck, WatchdogExpires, Reported
<1>5. CASE \E command \in Commands : DispatchCommand(command)
  BY <1>0, <1>5, DispatchPeer DEF DispatchCommand
<1>6. CASE RecordHead
  <2>1. mode = "RECORD" /\ mode' = mode /\ tx' = QueueFrame(Quiet, RecordEvent(capture[1].report))
    BY <1>6 DEF RecordHead, MustRecordHead
  <2>2. capture[1].report \in Reports
    <3>1. capture \in Seq(Entries) /\ capture # <<>>
      BY <1>0, <1>6 DEF CoreInv, CoreTypeOK, RecordHead, MustRecordHead
    <3> QED
      BY <3>1, HeadOfSeq DEF Entries
  <2>3. Peer!Capture(capture[1].report)
    BY <2>1, QuietIsBlank, SaysOne, CaptureSaid
  <2> QED
    BY <2>2, <2>3 DEF Peer!Next
<1>7. CASE SchedulerResume \/ SchedulerDispatch
  BY <1>0, <1>7, SchedulerPeer
<1>8. CASE UNCHANGED vars
  BY <1>8 DEF vars, core, Peer!peerVars
<1> QED
  BY <1>1, <1>4, <1>5, <1>6, <1>7, <1>8 DEF Next, MainLoop, LoopBody, IdleStep

\* The firmware is the Pico that the Zero's sessions rely on (docs/protocol.md,
\* "Mode semantics and payloads"), for every capacity, a TX ring of any size
\* and every sequence of commands, faults and reports: each mode change is
\* announced with the mode it leads to, each report recorded in RECORD only, in
\* order, and frames are lost from the end of a step only.
THEOREM PeerKeptAlways == Spec => PeerKept
<1>1. Init => Peer!Init
  <2>1. News(<<>>) = <<>>
    BY NewsOfNone
  <2> QED
    BY <2>1 DEF Init, Peer!Init
<1> QED
  BY <1>1, NextPeer, Invariance, PTL DEF Spec, PeerKept, Peer!Spec

=============================================================================
