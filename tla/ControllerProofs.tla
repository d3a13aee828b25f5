-------------------------- MODULE ControllerProofs --------------------------
(***************************************************************************)
(* Proofs about Controller, for every set of request threads and any       *)
(* number of sessions: the claim on the controller, the thread in charge   *)
(* of giving it back, the transport's one user, the cancel event and a     *)
(* lock that is never given back go together at every step of every        *)
(* interleaving.                                                           *)
(***************************************************************************)
EXTENDS Controller, TLAPS

Owning(r) == request[r] \in StartStages \cup {"reconcile", "blocked"}
Busy(g) == thread[g] \in {"running", "streaming", "stopping", "aborting", "cleanup", "blocked"}

\* The types of what the claim is about.
SlotTypeOK ==
    /\ active \in Kinds \cup {"none", "idle"}
    /\ generation \in 0..MaxSessions
    /\ worker \in 0..MaxSessions
    /\ cancel \in 0..MaxSessions
    /\ thread \in [Sessions -> ThreadStages]
    /\ request \in [Requests -> RequestStages]
    /\ mine \in [Requests -> 0..MaxSessions]

\* One owner, whichever side it is on.
OneOwner ==
    /\ \A r, s \in Requests : Owning(r) /\ Owning(s) => r = s
    /\ \A r \in Requests, g \in Sessions : ~(Owning(r) /\ Busy(g))
    /\ active # "none" =>
          (\E r \in Requests : Owning(r)) \/ (\E g \in Sessions : Busy(g))

\* A request that starts a session is about the newest one.
StartIsCurrent ==
    \A r \in Requests :
      /\ request[r] \in StartStages =>
            active \in Kinds /\ mine[r] = generation /\ mine[r] \in Sessions
      /\ request[r] = "reconcile" => active = "idle"
      /\ request[r] = "launch" => thread[mine[r]] = "created"
      /\ request[r] \in StartStages \ {"launch"} => thread[mine[r]] = "none"

\* A worker that has work left is the published one, of the newest session.
WorkerIsCurrent ==
    \A g \in Sessions :
      /\ Busy(g) => active \in Kinds /\ worker = g /\ g = generation
      /\ thread[g] = "created" =>
            worker = g /\ \E r \in Requests : request[r] = "launch" /\ mine[r] = g
      /\ g > generation => thread[g] = "none"

CancelInv == cancel # 0 => cancel \in Sessions /\ thread[cancel] = "streaming"

\* One race at most is lost, against a claim that is never given back: whoever
\* would do that waits for the lock, and only then does anybody wait for long.
LockInv ==
    /\ \A r \in Requests : request[r] = "lost" => active # "none"
    /\ \A r, s \in Requests : request[r] = "lost" /\ request[s] = "lost" => r = s
    /\ \A r \in Requests : request[r] = "blocked" => ~LockFree
    /\ \A g \in Sessions : thread[g] = "blocked" => ~LockFree

SlotInv ==
    SlotTypeOK /\ OneOwner /\ StartIsCurrent /\ WorkerIsCurrent /\ CancelInv /\ LockInv

\* What is shown last is about the newest session, or about none.
AnswerInv ==
    /\ last \in Answers
    /\ reply \in [Requests -> Answers]
    /\ last.of \in {0, generation}
    /\ NeverAnotherSession

\* Only a recording asks for RECORD, and only before it ends; with the types
\* of what the transport and the user interface are given.
SentInv ==
    /\ sent = "RECORD" => active = "record"
    /\ sent \in {"none", "PASS", "RECORD", "ARMED"}
    /\ confirmed \in BOOLEAN
    /\ state \in {"PASS", "RECORD", "ARMED", "PLAYING", "ERROR"}
    /\ stopSet \subseteq Sessions
    /\ \A r \in Requests : request[r] = "signal" => mine[r] \in Sessions

IInv == SlotInv /\ AnswerInv /\ SentInv

-----------------------------------------------------------------------------
\* The claim and its owner, action by action.
LEMMA SlotStep == SlotInv /\ [Next]_ctlVars => SlotInv'
  <1> SUFFICES ASSUME SlotInv, [Next]_ctlVars
               PROVE  SlotInv'
    OBVIOUS
  <1> USE MaxSessionsAssumption
      DEF SlotInv, SlotTypeOK, OneOwner, StartIsCurrent, WorkerIsCurrent, CancelInv,
          LockInv, LockFree, Locking, Owning, Busy, StartStages, Kinds, Sessions, RequestStages, ThreadStages,
          locked, Move, MoveThread, Exchange, NoExchange, End, Target
  <1>1. ASSUME NEW r \in Requests, NEW kind \in Kinds, Begin(r, kind)
       PROVE  SlotInv'
    BY <1>1 DEF Begin
  <1>2. ASSUME NEW r \in Requests, Construct(r) PROVE SlotInv'
    BY <1>2 DEF Construct
  <1>3. ASSUME NEW r \in Requests, ConstructFails(r) PROVE SlotInv'
    BY <1>3 DEF ConstructFails
  <1>4. ASSUME NEW r \in Requests, HandshakeSucceeds(r) PROVE SlotInv'
    BY <1>4 DEF HandshakeSucceeds
  <1>5. ASSUME NEW r \in Requests, HandshakeFails(r) PROVE SlotInv'
    BY <1>5 DEF HandshakeFails
  <1>6. ASSUME NEW r \in Requests, AbortStart(r) PROVE SlotInv'
    BY <1>6 DEF AbortStart
  <1>7. ASSUME NEW r \in Requests, Publish(r) PROVE SlotInv'
    BY <1>7 DEF Publish
  <1>8. ASSUME NEW r \in Requests, Launch(r) PROVE SlotInv'
    BY <1>8 DEF Launch
  <1>9. ASSUME NEW r \in Requests, RequestStop(r) PROVE SlotInv'
    BY <1>9 DEF RequestStop
  <1>10. ASSUME NEW r \in Requests, Signal(r) PROVE SlotInv'
    BY <1>10 DEF Signal
  <1>11. ASSUME NEW r \in Requests, Join(r) PROVE SlotInv'
    BY <1>11 DEF Join
  <1>12. ASSUME NEW r \in Requests, JoinExpires(r) PROVE SlotInv'
    BY <1>12 DEF JoinExpires
  <1>13. ASSUME NEW r \in Requests, JoinRaises(r) PROVE SlotInv'
    BY <1>13 DEF JoinRaises
  <1>14. ASSUME NEW r \in Requests, ReadOutcome(r) PROVE SlotInv'
    BY <1>14 DEF ReadOutcome
  <1>15. ASSUME NEW r \in Requests, ClaimIdle(r) PROVE SlotInv'
    BY <1>15 DEF ClaimIdle
  <1>16. ASSUME NEW r \in Requests, Reconcile(r) PROVE SlotInv'
    BY <1>16 DEF Reconcile
  <1>17. ASSUME NEW g \in Sessions, RecordingStopSeen(g) PROVE SlotInv'
    BY <1>17 DEF RecordingStopSeen
  <1>18. ASSUME NEW g \in Sessions, RecordingStopped(g) PROVE SlotInv'
    BY <1>18 DEF RecordingStopped
  <1>19. ASSUME NEW g \in Sessions, Stream(g) PROVE SlotInv'
    BY <1>19 DEF Stream
  <1>20. ASSUME NEW g \in Sessions, PlaybackFinishes(g) PROVE SlotInv'
    BY <1>20 DEF PlaybackFinishes
  <1>21. ASSUME NEW g \in Sessions, PlaybackCancelled(g) PROVE SlotInv'
    BY <1>21 DEF PlaybackCancelled
  <1>22. ASSUME NEW g \in Sessions, PlaybackBreaks(g) PROVE SlotInv'
    BY <1>22 DEF PlaybackBreaks
  <1>23. ASSUME NEW g \in Sessions, PlaybackAborted(g) PROVE SlotInv'
    BY <1>23 DEF PlaybackAborted
  <1>24. ASSUME NEW g \in Sessions, Cleanup(g) PROVE SlotInv'
    BY <1>24 DEF Cleanup
  <1>25. ASSUME NEW g \in Sessions, ThreadExits(g) PROVE SlotInv'
    BY <1>25 DEF ThreadExits
  <1>26. ASSUME NEW g \in Sessions, RecordingBreaks(g) PROVE SlotInv'
    BY <1>26 DEF RecordingBreaks
  <1>27. ASSUME NEW r \in Requests, SafeStop(r) PROVE SlotInv'
    BY <1>27 DEF SafeStop
  <1>28. ASSUME NEW r \in Requests, LoseRace(r) PROVE SlotInv'
    BY <1>28 DEF LoseRace
  <1>29. CASE UNCHANGED ctlVars
    BY <1>29 DEF ctlVars
  <1> QED
    BY <1>1, <1>2, <1>3, <1>4, <1>5, <1>6, <1>7, <1>8, <1>9, <1>10, <1>11,
       <1>12, <1>13, <1>14, <1>15, <1>16, <1>17, <1>18, <1>19, <1>20, <1>21,
       <1>22, <1>23, <1>24, <1>25, <1>26, <1>27, <1>28, <1>29
    DEF Next, NewRequest, RequestStep, WorkerStep

\* Whose outcome is shown, action by action.
LEMMA AnswerStep == SlotInv /\ AnswerInv /\ [Next]_ctlVars => AnswerInv'
  <1> SUFFICES ASSUME SlotInv, AnswerInv, [Next]_ctlVars
               PROVE  AnswerInv'
    OBVIOUS
  <1> USE MaxSessionsAssumption
      DEF SlotInv, SlotTypeOK, StartIsCurrent, WorkerIsCurrent, AnswerInv,
          NeverAnotherSession, Answers, NoAnswer, Busy, StartStages, Kinds,
          Sessions, LockFree, Locking, locked, Move, MoveThread, NoExchange, End
  <1>1. ASSUME NEW r \in Requests, NEW kind \in Kinds, Begin(r, kind)
       PROVE  AnswerInv'
    BY <1>1 DEF Begin
  <1>2. ASSUME NEW r \in Requests, Construct(r) PROVE AnswerInv'
    BY <1>2 DEF Construct
  <1>3. ASSUME NEW r \in Requests, ConstructFails(r) PROVE AnswerInv'
    BY <1>3 DEF ConstructFails
  <1>4. ASSUME NEW r \in Requests, HandshakeSucceeds(r) PROVE AnswerInv'
    BY <1>4 DEF HandshakeSucceeds
  <1>5. ASSUME NEW r \in Requests, HandshakeFails(r) PROVE AnswerInv'
    BY <1>5 DEF HandshakeFails
  <1>6. ASSUME NEW r \in Requests, AbortStart(r) PROVE AnswerInv'
    BY <1>6 DEF AbortStart
  <1>7. ASSUME NEW r \in Requests, Publish(r) PROVE AnswerInv'
    BY <1>7 DEF Publish
  <1>8. ASSUME NEW r \in Requests, Launch(r) PROVE AnswerInv'
    BY <1>8 DEF Launch
  <1>9. ASSUME NEW r \in Requests, RequestStop(r) PROVE AnswerInv'
    BY <1>9 DEF RequestStop
  <1>10. ASSUME NEW r \in Requests, Signal(r) PROVE AnswerInv'
    BY <1>10 DEF Signal
  <1>11. ASSUME NEW r \in Requests, Join(r) PROVE AnswerInv'
    BY <1>11 DEF Join
  <1>12. ASSUME NEW r \in Requests, JoinExpires(r) PROVE AnswerInv'
    BY <1>12 DEF JoinExpires
  <1>13. ASSUME NEW r \in Requests, JoinRaises(r) PROVE AnswerInv'
    BY <1>13 DEF JoinRaises
  <1>14. ASSUME NEW r \in Requests, ReadOutcome(r) PROVE AnswerInv'
    BY <1>14 DEF ReadOutcome
  <1>15. ASSUME NEW r \in Requests, ClaimIdle(r) PROVE AnswerInv'
    BY <1>15 DEF ClaimIdle
  <1>16. ASSUME NEW r \in Requests, Reconcile(r) PROVE AnswerInv'
    BY <1>16 DEF Reconcile
  <1>17. ASSUME NEW g \in Sessions, RecordingStopSeen(g) PROVE AnswerInv'
    BY <1>17 DEF RecordingStopSeen
  <1>18. ASSUME NEW g \in Sessions, RecordingStopped(g) PROVE AnswerInv'
    BY <1>18 DEF RecordingStopped
  <1>19. ASSUME NEW g \in Sessions, Stream(g) PROVE AnswerInv'
    BY <1>19 DEF Stream
  <1>20. ASSUME NEW g \in Sessions, PlaybackFinishes(g) PROVE AnswerInv'
    BY <1>20 DEF PlaybackFinishes
  <1>21. ASSUME NEW g \in Sessions, PlaybackCancelled(g) PROVE AnswerInv'
    BY <1>21 DEF PlaybackCancelled
  <1>22. ASSUME NEW g \in Sessions, PlaybackBreaks(g) PROVE AnswerInv'
    BY <1>22 DEF PlaybackBreaks
  <1>23. ASSUME NEW g \in Sessions, PlaybackAborted(g) PROVE AnswerInv'
    BY <1>23 DEF PlaybackAborted
  <1>24. ASSUME NEW g \in Sessions, Cleanup(g) PROVE AnswerInv'
    BY <1>24 DEF Cleanup
  <1>25. ASSUME NEW g \in Sessions, ThreadExits(g) PROVE AnswerInv'
    BY <1>25 DEF ThreadExits
  <1>26. ASSUME NEW g \in Sessions, RecordingBreaks(g) PROVE AnswerInv'
    BY <1>26 DEF RecordingBreaks
  <1>27. ASSUME NEW r \in Requests, SafeStop(r) PROVE AnswerInv'
    BY <1>27 DEF SafeStop
  <1>28. ASSUME NEW r \in Requests, LoseRace(r) PROVE AnswerInv'
    BY <1>28 DEF LoseRace
  <1>29. CASE UNCHANGED ctlVars
    BY <1>29 DEF ctlVars
  <1> QED
    BY <1>1, <1>2, <1>3, <1>4, <1>5, <1>6, <1>7, <1>8, <1>9, <1>10, <1>11,
       <1>12, <1>13, <1>14, <1>15, <1>16, <1>17, <1>18, <1>19, <1>20, <1>21,
       <1>22, <1>23, <1>24, <1>25, <1>26, <1>27, <1>28, <1>29
    DEF Next, NewRequest, RequestStep, WorkerStep

\* Which MODE_SET went last, action by action.
LEMMA SentStep == SlotInv /\ SentInv /\ [Next]_ctlVars => SentInv'
  <1> SUFFICES ASSUME SlotInv, SentInv, [Next]_ctlVars
               PROVE  SentInv'
    OBVIOUS
  <1> USE DEF SlotInv, SlotTypeOK, StartIsCurrent, WorkerIsCurrent, SentInv, Busy,
          StartStages, Kinds, LockFree, Locking, locked, Move, MoveThread, Exchange,
          NoExchange, End, Target
  <1>1. ASSUME NEW r \in Requests, NEW kind \in Kinds, Begin(r, kind)
       PROVE  SentInv'
    BY <1>1 DEF Begin
  <1>2. ASSUME NEW r \in Requests, Construct(r) PROVE SentInv'
    BY <1>2 DEF Construct
  <1>3. ASSUME NEW r \in Requests, ConstructFails(r) PROVE SentInv'
    BY <1>3 DEF ConstructFails
  <1>4. ASSUME NEW r \in Requests, HandshakeSucceeds(r) PROVE SentInv'
    BY <1>4 DEF HandshakeSucceeds
  <1>5. ASSUME NEW r \in Requests, HandshakeFails(r) PROVE SentInv'
    <2>1. /\ sent' \in {sent, Target(active), "ARMED"}
          /\ confirmed' \in BOOLEAN
          /\ UNCHANGED <<active, state, stopSet, mine>>
      BY <1>5 DEF HandshakeFails
    <2>2. \A q \in Requests : request'[q] = "signal" => mine'[q] \in Sessions
      BY <1>5 DEF HandshakeFails
    <2> QED
      BY <2>1, <2>2
  <1>6. ASSUME NEW r \in Requests, AbortStart(r) PROVE SentInv'
    BY <1>6 DEF AbortStart
  <1>7. ASSUME NEW r \in Requests, Publish(r) PROVE SentInv'
    BY <1>7 DEF Publish
  <1>8. ASSUME NEW r \in Requests, Launch(r) PROVE SentInv'
    BY <1>8 DEF Launch
  <1>9. ASSUME NEW r \in Requests, RequestStop(r) PROVE SentInv'
    <2>1. worker \in Sessions
      BY <1>9, MaxSessionsAssumption DEF RequestStop, Sessions
    <2> QED
      BY <1>9, <2>1 DEF RequestStop
  <1>10. ASSUME NEW r \in Requests, Signal(r) PROVE SentInv'
    <2>1. stopSet' \subseteq Sessions
      BY <1>10 DEF Signal
    <2>2. \A q \in Requests : request'[q] = "signal" => mine'[q] \in Sessions
      BY <1>10 DEF Signal
    <2> QED
      BY <1>10, <2>1, <2>2 DEF Signal
  <1>11. ASSUME NEW r \in Requests, Join(r) PROVE SentInv'
    BY <1>11 DEF Join
  <1>12. ASSUME NEW r \in Requests, JoinExpires(r) PROVE SentInv'
    BY <1>12 DEF JoinExpires
  <1>13. ASSUME NEW r \in Requests, JoinRaises(r) PROVE SentInv'
    BY <1>13 DEF JoinRaises
  <1>14. ASSUME NEW r \in Requests, ReadOutcome(r) PROVE SentInv'
    BY <1>14 DEF ReadOutcome
  <1>15. ASSUME NEW r \in Requests, ClaimIdle(r) PROVE SentInv'
    BY <1>15 DEF ClaimIdle
  <1>16. ASSUME NEW r \in Requests, Reconcile(r) PROVE SentInv'
    BY <1>16 DEF Reconcile
  <1>17. ASSUME NEW g \in Sessions, RecordingStopSeen(g) PROVE SentInv'
    BY <1>17 DEF RecordingStopSeen
  <1>18. ASSUME NEW g \in Sessions, RecordingStopped(g) PROVE SentInv'
    BY <1>18 DEF RecordingStopped
  <1>19. ASSUME NEW g \in Sessions, Stream(g) PROVE SentInv'
    BY <1>19 DEF Stream
  <1>20. ASSUME NEW g \in Sessions, PlaybackFinishes(g) PROVE SentInv'
    BY <1>20 DEF PlaybackFinishes
  <1>21. ASSUME NEW g \in Sessions, PlaybackCancelled(g) PROVE SentInv'
    BY <1>21 DEF PlaybackCancelled
  <1>22. ASSUME NEW g \in Sessions, PlaybackBreaks(g) PROVE SentInv'
    BY <1>22 DEF PlaybackBreaks
  <1>23. ASSUME NEW g \in Sessions, PlaybackAborted(g) PROVE SentInv'
    BY <1>23 DEF PlaybackAborted
  <1>24. ASSUME NEW g \in Sessions, Cleanup(g) PROVE SentInv'
    BY <1>24 DEF Cleanup
  <1>25. ASSUME NEW g \in Sessions, ThreadExits(g) PROVE SentInv'
    BY <1>25 DEF ThreadExits
  <1>26. ASSUME NEW g \in Sessions, RecordingBreaks(g) PROVE SentInv'
    BY <1>26 DEF RecordingBreaks
  <1>27. ASSUME NEW r \in Requests, SafeStop(r) PROVE SentInv'
    BY <1>27 DEF SafeStop
  <1>28. ASSUME NEW r \in Requests, LoseRace(r) PROVE SentInv'
    BY <1>28 DEF LoseRace
  <1>29. CASE UNCHANGED ctlVars
    BY <1>29 DEF ctlVars
  <1> QED
    BY <1>1, <1>2, <1>3, <1>4, <1>5, <1>6, <1>7, <1>8, <1>9, <1>10, <1>11,
       <1>12, <1>13, <1>14, <1>15, <1>16, <1>17, <1>18, <1>19, <1>20, <1>21,
       <1>22, <1>23, <1>24, <1>25, <1>26, <1>27, <1>28, <1>29
    DEF Next, NewRequest, RequestStep, WorkerStep

LEMMA InitIInv == Init => IInv
  <1> SUFFICES ASSUME Init PROVE IInv
    OBVIOUS
  <1> USE MaxSessionsAssumption DEF Init
  <1>1. SlotInv
    BY DEF SlotInv, SlotTypeOK, OneOwner, StartIsCurrent, WorkerIsCurrent,
           CancelInv, LockInv, LockFree, Owning, Busy, StartStages, Kinds, Sessions, RequestStages,
           ThreadStages
  <1>2. AnswerInv
    BY DEF AnswerInv, NeverAnotherSession, Answers, NoAnswer
  <1>3. SentInv
    BY DEF SentInv
  <1> QED
    BY <1>1, <1>2, <1>3 DEF IInv

\* The inductive invariant holds in every behaviour of the controller.
THEOREM Invariance == Spec => []IInv
  <1>1. IInv /\ [Next]_ctlVars => IInv'
    BY SlotStep, AnswerStep, SentStep DEF IInv
  <1> QED
    BY InitIInv, <1>1, PTL DEF Spec

-----------------------------------------------------------------------------
\* At most one thread uses the transport, whatever requests come and however
\* their threads and the workers interleave.
THEOREM SingleOwnerAlways == Spec => []SingleOwner
  <1>1. IInv => SingleOwner
    BY DEF IInv, SlotInv, OneOwner, WorkerIsCurrent, SingleOwner,
           OwningRequests, OwningThreads, Owning, Busy
  <1> QED
    BY Invariance, <1>1, PTL

\* A claim on the controller always has a thread in charge of giving it back,
\* and no claim outlives its thread.  A thread in charge is stuck only where a
\* safe_stop lost its race; then one request holds the lock, and the claim it
\* lost against stays.
THEOREM ClaimHasOwnerAlways == Spec => []ClaimHasOwner
  <1>1. ASSUME IInv PROVE ClaimHasOwner
    <2> USE <1>1 DEF IInv, SlotInv
    <2>1. active # "none" <=> OwningRequests # {} \/ OwningThreads # {}
      BY DEF OneOwner, StartIsCurrent, WorkerIsCurrent, LockInv, LockFree,
             OwningRequests, OwningThreads, Owning, Busy, Kinds
    <2>2. BlockedOwners # {} => ~LockFree
      BY DEF LockInv, BlockedOwners
    <2>3. /\ ~LockFree => active # "none"
          /\ \A r, s \in Requests : request[r] = "lost" /\ request[s] = "lost" => r = s
      BY DEF LockInv, LockFree
    <2> QED
      BY <2>1, <2>2, <2>3 DEF ClaimHasOwner
  <1> QED
    BY Invariance, <1>1, PTL

\* The controller's fields keep their types, and its claim keeps its owner,
\* which only a lost race can keep from giving it back.
THEOREM ClaimIsSoundAlways == Spec => []ClaimIsSound
  <1>1. IInv => CtlTypeOK
    BY DEF IInv, SlotInv, SlotTypeOK, AnswerInv, SentInv, CtlTypeOK
  <1>2. CtlTypeOK /\ ClaimHasOwner => ClaimIsSound
    BY DEF ClaimIsSound
  <1> QED
    BY Invariance, ClaimHasOwnerAlways, <1>1, <1>2, PTL

\* The cancel event is installed only while its own playback streams.
THEOREM CancelIsOwnAlways == Spec => []CancelIsOwn
  <1>1. IInv => CancelIsOwn
    BY DEF IInv, SlotInv, WorkerIsCurrent, CancelInv, CancelIsOwn, Busy
  <1> QED
    BY Invariance, <1>1, PTL

\* No stop request is told how another session ended.
THEOREM NeverAnotherSessionAlways == Spec => []NeverAnotherSession
  <1>1. IInv => NeverAnotherSession
    BY DEF IInv, AnswerInv
  <1> QED
    BY Invariance, <1>1, PTL

\* MODE_SET(RECORD) is never the last word once the recording is over.
THEOREM RecordingIsLeftAlways == Spec => []RecordingIsLeft
  <1>1. IInv => RecordingIsLeft
    BY DEF IInv, SentInv, RecordingIsLeft
  <1> QED
    BY Invariance, <1>1, PTL

=============================================================================
