----------------------------- MODULE Controller -----------------------------
(***************************************************************************)
(* The web service's Controller (zero/app/controller.py): request threads  *)
(* that start, stop and reconcile sessions, and one worker thread for each *)
(* session, sharing one PicoTransport and the state under _meta_lock.      *)
(*                                                                         *)
(* A section under the lock is one step, an exchange with the Pico is one  *)
(* step at its end; the thread owns the transport from the step before.    *)
(* Of a session (zero/app/service.py, playback.py) only what the           *)
(* controller relies on is kept: which MODE_SET it sends last, and whether *)
(* that was acknowledged.  Any exchange may fail.  A request that          *)
(* start_* or stop_* refuses changes nothing and is no step.               *)
(*                                                                         *)
(* The lock is not re-entrant, and a safe_stop that loses its race asks    *)
(* for it a second time (LoseRace): it then holds the lock for ever.       *)
(*                                                                         *)
(* Sessions are numbered by _generation; the worker thread and the stop    *)
(* event of session g are both called g, and 0 stands for None.            *)
(* A definition introduced as a "Fault" is no part of the service: it is   *)
(* the definition after it with a plausible bug, which a property notices. *)
(***************************************************************************)
EXTENDS Naturals, FiniteSets

CONSTANTS
    Requests,      \* threads of the web server's pool
    MaxSessions    \* bound: sessions started over the service's life

ASSUME MaxSessionsAssumption == MaxSessions \in Nat

VARIABLES
    active,       \* _active_kind
    state,        \* _state, what status() shows
    generation,   \* _generation
    worker,       \* _worker and _stop_event: set together, cleared together
    last,         \* _last_error, _last_result; `of' is a history of whose
    stopSet,      \* the stop events that are set
    cancel,       \* transport.cancel_event
    thread,       \* where each session's worker thread is
    request,      \* where each request thread is
    mine,         \* the session a request thread starts or stops
    reply,        \* what a stop request returned or raised
    sent,         \* history: target of the last MODE_SET Zero has sent
    confirmed     \* history: the Pico has acknowledged it

locked == <<active, state, generation, worker, last>>
ctlVars == <<locked, stopSet, cancel, thread, request, mine, reply, sent,
             confirmed>>

Kinds == {"record", "playback"}
Sessions == 1..MaxSessions

ThreadStages == {"none", "created", "running", "streaming", "stopping",
                 "aborting", "cleanup", "blocked", "leaving", "gone"}
RequestStages == {"free", "construct", "handshake", "abort", "publish",
                  "launch", "signal", "join", "read", "look", "reconcile",
                  "lost", "blocked"}

\* Nobody holds _meta_lock from one step to the next but a lost race.
LockFree == \A r \in Requests : request[r] # "lost"

\* state while the handshake runs, and the target it asks the Pico for.
Target(kind) == IF kind = "record" THEN "RECORD" ELSE "ARMED"

NoAnswer == [of |-> 0, what |-> "nothing"]

Move(r, from, to) ==
    /\ request[r] = from
    /\ request' = [request EXCEPT ![r] = to]

MoveThread(g, from, to) ==
    /\ thread[g] = from
    /\ thread' = [thread EXCEPT ![g] = to]

Exchange(target, acknowledged) ==
    /\ sent' = target
    /\ confirmed' = acknowledged

NoExchange == UNCHANGED <<sent, confirmed>>

\* _end(): the slot is free again, and shows how its last user ended, unless
\* the thread waits for the lock.
End(shown, of, what) ==
    IF LockFree
    THEN /\ active' = "none"
         /\ state' = shown
         /\ worker' = 0
         /\ last' = [of |-> of, what |-> what]
         /\ UNCHANGED generation
    ELSE UNCHANGED locked

\* Where a thread is that needs the lock to go on.
Locking(next) == IF LockFree THEN next ELSE "blocked"

-----------------------------------------------------------------------------
(* start_recording, start_playback *)

\* Fault: a reconciliation is not counted as using the transport.
BeginDuringReconcile(r, kind) ==
    /\ Move(r, "free", "construct")
    /\ LockFree
    /\ active \in {"none", "idle"}
    /\ generation < MaxSessions
    /\ active' = kind
    /\ generation' = generation + 1
    /\ last' = NoAnswer
    /\ mine' = [mine EXCEPT ![r] = generation']
    /\ reply' = [reply EXCEPT ![r] = NoAnswer]
    /\ NoExchange
    /\ UNCHANGED <<state, worker, stopSet, cancel, thread>>

Begin(r, kind) ==
    /\ Move(r, "free", "construct")
    /\ LockFree
    /\ active = "none"
    /\ generation < MaxSessions
    /\ active' = kind
    /\ generation' = generation + 1
    /\ last' = NoAnswer
    /\ mine' = [mine EXCEPT ![r] = generation']
    /\ reply' = [reply EXCEPT ![r] = NoAnswer]
    /\ NoExchange
    /\ UNCHANGED <<state, worker, stopSet, cancel, thread>>

Construct(r) ==
    /\ Move(r, "construct", Locking("handshake"))
    /\ state' = IF LockFree THEN Target(active) ELSE state
    /\ NoExchange
    /\ UNCHANGED <<active, generation, worker, last, stopSet, cancel, thread,
                   mine, reply>>

\* Fault: the claim is not given back when there is no session to abort.
ConstructFailsClaimed(r) ==
    /\ Move(r, "construct", Locking("free"))
    /\ active = "playback"
    /\ NoExchange
    /\ UNCHANGED <<locked, stopSet, cancel, thread, mine, reply>>

\* PlaybackSession() rejects the speed, prebuffer or timeout of the request.
ConstructFails(r) ==
    /\ Move(r, "construct", Locking("free"))
    /\ active = "playback"
    /\ End("PASS", mine[r], "nothing")
    /\ NoExchange
    /\ UNCHANGED <<stopSet, cancel, thread, mine, reply>>

HandshakeSucceeds(r) ==
    /\ Move(r, "handshake", "publish")
    /\ Exchange(Target(active), TRUE)
    /\ UNCHANGED <<locked, stopSet, cancel, thread, mine, reply>>

(***************************************************************************)
(* session.start() raises: a recording may exist already, before anything  *)
(* is sent; the MODE_SET may go unanswered or be rejected; and a playback  *)
(* may fail after it, in the prebuffering.                                 *)
(***************************************************************************)
HandshakeFails(r) ==
    /\ Move(r, "handshake", "abort")
    /\ \/ active = "record" /\ NoExchange
       \/ Exchange(Target(active), FALSE)
       \/ active = "playback" /\ Exchange("ARMED", TRUE)
    /\ UNCHANGED <<locked, stopSet, cancel, thread, mine, reply>>

\* Fault: a recording whose handshake failed is taken not to need clean-up.
AbortStartIfConfirmed(r) ==
    /\ Move(r, "abort", Locking("free"))
    /\ IF ~confirmed
       THEN End("PASS", mine[r], "nothing") /\ NoExchange
       ELSE \E ok \in BOOLEAN :
               /\ Exchange("PASS", ok)
               /\ End(IF ok THEN "PASS" ELSE "ERROR", mine[r], "nothing")
    /\ UNCHANGED <<stopSet, cancel, thread, mine, reply>>

\* RecordingSession.abort always asks for PASS, PlaybackSession.abort only if
\* _armed is set, which is after the ARMED handshake has been confirmed.
AbortStart(r) ==
    /\ Move(r, "abort", Locking("free"))
    /\ IF active = "playback" /\ ~confirmed
       THEN End("PASS", mine[r], "nothing") /\ NoExchange
       ELSE \E ok \in BOOLEAN :
               /\ Exchange("PASS", ok)
               /\ End(IF ok THEN "PASS" ELSE "ERROR", mine[r], "nothing")
    /\ UNCHANGED <<stopSet, cancel, thread, mine, reply>>

Publish(r) ==
    /\ Move(r, "publish", "launch")
    /\ LockFree
    /\ worker' = mine[r]
    /\ thread' = [thread EXCEPT ![mine[r]] = "created"]
    /\ state' = IF active = "record" THEN "RECORD" ELSE "PLAYING"
    /\ NoExchange
    /\ UNCHANGED <<active, generation, last, stopSet, cancel, mine, reply>>

Launch(r) ==
    /\ Move(r, "launch", "free")
    /\ LockFree
    /\ MoveThread(mine[r], "created", "running")
    /\ NoExchange
    /\ UNCHANGED <<locked, stopSet, cancel, mine, reply>>

-----------------------------------------------------------------------------
(* _run_recording *)

\* The loop leaves with an error: the Pico reported one, or a bad frame came.
RecordingBreaks(g) ==
    /\ active = "record"
    /\ MoveThread(g, "running", "cleanup")
    /\ NoExchange
    /\ UNCHANGED <<locked, stopSet, cancel, request, mine, reply>>

RecordingStopSeen(g) ==
    /\ active = "record"
    /\ g \in stopSet
    /\ MoveThread(g, "running", "stopping")
    /\ NoExchange
    /\ UNCHANGED <<locked, stopSet, cancel, request, mine, reply>>

\* session.stop() saved the recording, or it raised a RecorderError, which
\* leaves the session finished: abort() then does nothing and reports no error.
RecordingStopped(g) ==
    /\ active = "record"
    /\ MoveThread(g, "stopping", Locking("leaving"))
    /\ \E ok, saved \in BOOLEAN :
          /\ saved => ok
          /\ Exchange("PASS", ok)
          /\ End("PASS", g, IF saved THEN "result" ELSE "error")
    /\ UNCHANGED <<stopSet, cancel, request, mine, reply>>

-----------------------------------------------------------------------------
(* _run_playback *)

Stream(g) ==
    /\ active = "playback"
    /\ MoveThread(g, "running", "streaming")
    /\ cancel' = g
    /\ NoExchange
    /\ UNCHANGED <<locked, stopSet, request, mine, reply>>

\* session.finish() returned.
PlaybackFinishes(g) ==
    /\ MoveThread(g, "streaming", Locking("leaving"))
    /\ cancel' = 0
    /\ Exchange("PASS", TRUE)
    /\ End("PASS", g, "result")
    /\ UNCHANGED <<stopSet, request, mine, reply>>

\* Fault: the cancel event stays installed while the session is aborted.
PlaybackCancelledUncleared(g) ==
    /\ g \in stopSet
    /\ MoveThread(g, "streaming", "aborting")
    /\ \/ NoExchange
       \/ Exchange("PASS", FALSE)
    /\ UNCHANGED <<locked, stopSet, cancel, request, mine, reply>>

\* A wait of finish() timed out and a stop was requested: the stop event
\* interrupts any wait, that of the closing MODE_SET(PASS) as well.
PlaybackCancelled(g) ==
    /\ g \in stopSet
    /\ MoveThread(g, "streaming", "aborting")
    /\ cancel' = 0
    /\ \/ NoExchange
       \/ Exchange("PASS", FALSE)
    /\ UNCHANGED <<locked, stopSet, request, mine, reply>>

\* finish() raised on its own account: a deadline or an error.
PlaybackBreaks(g) ==
    /\ MoveThread(g, "streaming", "cleanup")
    /\ cancel' = 0
    /\ \/ NoExchange
       \/ Exchange("PASS", FALSE)
    /\ UNCHANGED <<locked, stopSet, request, mine, reply>>

\* session.abort() ends in MODE_SET(PASS).  It fails if that is not
\* acknowledged; a playback's fails as well if the outcome does not come.
PlaybackAborted(g) ==
    /\ MoveThread(g, "aborting", Locking("leaving"))
    /\ \E ok, clean \in BOOLEAN :
          /\ clean => ok
          /\ Exchange("PASS", ok)
          /\ IF clean THEN End("PASS", g, "result") ELSE End("ERROR", g, "error")
    /\ UNCHANGED <<stopSet, cancel, request, mine, reply>>

Cleanup(g) ==
    /\ MoveThread(g, "cleanup", Locking("leaving"))
    /\ \E ok, clean \in BOOLEAN :
          /\ clean => ok
          /\ active = "record" => clean = ok
          /\ Exchange("PASS", ok)
          /\ End(IF clean THEN "PASS" ELSE "ERROR", g, "error")
    /\ UNCHANGED <<stopSet, cancel, request, mine, reply>>

\* The thread function returns; only now does join() return.
ThreadExits(g) ==
    /\ MoveThread(g, "leaving", "gone")
    /\ NoExchange
    /\ UNCHANGED <<locked, stopSet, cancel, request, mine, reply>>

-----------------------------------------------------------------------------
(* _request_stop, for stop_recording, stop_playback and safe_stop *)

\* A session that is still starting has no worker, and the stop is refused.
RequestStop(r) ==
    /\ Move(r, "free", "signal")
    /\ LockFree
    /\ active \in Kinds
    /\ worker # 0
    /\ mine' = [mine EXCEPT ![r] = worker]
    /\ reply' = [reply EXCEPT ![r] = NoAnswer]
    /\ NoExchange
    /\ UNCHANGED <<locked, stopSet, cancel, thread>>

Signal(r) ==
    /\ Move(r, "signal", "join")
    /\ stopSet' = stopSet \cup {mine[r]}
    /\ NoExchange
    /\ UNCHANGED <<locked, cancel, thread, mine, reply>>

Join(r) ==
    /\ Move(r, "join", "read")
    /\ thread[mine[r]] = "gone"
    /\ NoExchange
    /\ UNCHANGED <<locked, stopSet, cancel, thread, mine, reply>>

\* Fault: a request that gives up takes its stop event back.
JoinExpiresClearing(r) ==
    /\ Move(r, "join", "free")
    /\ thread[mine[r]] \notin {"created", "gone"}
    /\ stopSet' = stopSet \ {mine[r]}
    /\ NoExchange
    /\ UNCHANGED <<locked, cancel, thread, mine, reply>>

JoinExpires(r) ==
    /\ Move(r, "join", "free")
    /\ thread[mine[r]] \notin {"created", "gone"}
    /\ NoExchange
    /\ UNCHANGED <<locked, stopSet, cancel, thread, mine, reply>>

\* Thread.join() raises RuntimeError for a thread that was not started.
JoinRaises(r) ==
    /\ Move(r, "join", "free")
    /\ thread[mine[r]] = "created"
    /\ reply' = [reply EXCEPT ![r] = [of |-> mine[r], what |-> "RuntimeError"]]
    /\ NoExchange
    /\ UNCHANGED <<locked, stopSet, cancel, thread, mine>>

\* Fault: whatever the controller shows last is returned.
ReadAnyOutcome(r) ==
    /\ Move(r, "read", "free")
    /\ LockFree
    /\ reply' = [reply EXCEPT ![r] = last]
    /\ NoExchange
    /\ UNCHANGED <<locked, stopSet, cancel, thread, mine>>

ReadOutcome(r) ==
    /\ Move(r, "read", "free")
    /\ LockFree
    /\ reply' = IF generation = mine[r] THEN [reply EXCEPT ![r] = last]
                                        ELSE reply
    /\ NoExchange
    /\ UNCHANGED <<locked, stopSet, cancel, thread, mine>>

-----------------------------------------------------------------------------
(* safe_stop without a session: MODE_SET(PASS) under the claim "idle" *)

\* The first section under the lock found no session.
SafeStop(r) ==
    /\ Move(r, "free", "look")
    /\ LockFree
    /\ active \in {"none", "idle"}
    /\ mine' = [mine EXCEPT ![r] = 0]
    /\ reply' = [reply EXCEPT ![r] = NoAnswer]
    /\ NoExchange
    /\ UNCHANGED <<locked, stopSet, cancel, thread>>

\* The second section looks again, and takes the claim.
ClaimIdle(r) ==
    /\ Move(r, "look", "reconcile")
    /\ LockFree
    /\ active = "none"
    /\ active' = "idle"
    /\ NoExchange
    /\ UNCHANGED <<state, generation, worker, last, stopSet, cancel, thread,
                   mine, reply>>

\* ... or finds it taken, and calls status() inside the section: the thread
\* waits for the lock that it holds, and has no further step.
LoseRace(r) ==
    /\ Move(r, "look", "lost")
    /\ LockFree
    /\ active # "none"
    /\ NoExchange
    /\ UNCHANGED <<locked, stopSet, cancel, thread, mine, reply>>

Reconcile(r) ==
    /\ Move(r, "reconcile", Locking("free"))
    /\ \E ok \in BOOLEAN :
          /\ Exchange("PASS", ok)
          /\ End(IF ok THEN "PASS" ELSE "ERROR", 0,
                 IF ok THEN "nothing" ELSE "error")
    /\ UNCHANGED <<stopSet, cancel, thread, mine, reply>>

-----------------------------------------------------------------------------
Init ==
    /\ active = "none"
    /\ state = "PASS"
    /\ generation = 0
    /\ worker = 0
    /\ last = NoAnswer
    /\ stopSet = {}
    /\ cancel = 0
    /\ thread = [g \in Sessions |-> "none"]
    /\ request = [r \in Requests |-> "free"]
    /\ mine = [r \in Requests |-> 0]
    /\ reply = [r \in Requests |-> NoAnswer]
    /\ sent = "none"
    /\ confirmed = FALSE

\* What a request thread does on its own, once it has begun.
RequestStep(r) ==
    \/ Construct(r) \/ ConstructFails(r)
    \/ HandshakeSucceeds(r) \/ HandshakeFails(r) \/ AbortStart(r)
    \/ Publish(r) \/ Launch(r)
    \/ Signal(r) \/ Join(r) \/ JoinExpires(r) \/ JoinRaises(r) \/ ReadOutcome(r)
    \/ ClaimIdle(r) \/ LoseRace(r) \/ Reconcile(r)

NewRequest(r) ==
    \/ \E kind \in Kinds : Begin(r, kind)
    \/ RequestStop(r)
    \/ SafeStop(r)

\* What a worker is bound to do: a recording need not break.
WorkerStep(g) ==
    \/ RecordingStopSeen(g) \/ RecordingStopped(g)
    \/ Stream(g) \/ PlaybackFinishes(g)
    \/ PlaybackCancelled(g) \/ PlaybackBreaks(g) \/ PlaybackAborted(g)
    \/ Cleanup(g) \/ ThreadExits(g)

Next ==
    \/ \E r \in Requests : NewRequest(r) \/ RequestStep(r)
    \/ \E g \in Sessions : WorkerStep(g) \/ RecordingBreaks(g)

Spec == Init /\ [][Next]_ctlVars

(***************************************************************************)
(* Threads that can run do run, and every wait on the Pico has a timeout.  *)
(* Nobody is obliged to make a request.                                    *)
(***************************************************************************)
Fairness ==
    /\ \A r \in Requests : WF_ctlVars(RequestStep(r))
    /\ \A g \in Sessions : WF_ctlVars(WorkerStep(g))

FairSpec == Spec /\ Fairness

-----------------------------------------------------------------------------
(* Properties. *)

Answers == [of : 0..MaxSessions,
            what : {"nothing", "error", "result", "RuntimeError"}]

\* Type invariant.
CtlTypeOK ==
    /\ active \in Kinds \cup {"none", "idle"}
    /\ state \in {"PASS", "RECORD", "ARMED", "PLAYING", "ERROR"}
    /\ generation \in 0..MaxSessions
    /\ worker \in 0..MaxSessions
    /\ last \in Answers
    /\ stopSet \subseteq Sessions
    /\ cancel \in 0..MaxSessions
    /\ thread \in [Sessions -> ThreadStages]
    /\ request \in [Requests -> RequestStages]
    /\ mine \in [Requests -> 0..MaxSessions]
    /\ reply \in [Requests -> Answers]
    /\ sent \in {"none", "PASS", "RECORD", "ARMED"}
    /\ confirmed \in BOOLEAN

\* The stages that hold the claim made by Begin or ClaimIdle.  A thread that
\* is blocked waits in _end(), or before its handshake, for the lock.
StartStages == {"construct", "handshake", "abort", "publish", "launch"}
OwningRequests ==
    {r \in Requests : request[r] \in StartStages \cup {"reconcile", "blocked"}}
OwningThreads ==
    {g \in Sessions : thread[g] \in {"running", "streaming", "stopping",
                                "aborting", "cleanup", "blocked"}}
BlockedOwners ==
    {r \in Requests : request[r] = "blocked"} \cup {g \in Sessions : thread[g] = "blocked"}

\* At most one thread may talk to the Pico at any time: no request touches
\* the transport while a session, a handshake or a reconciliation owns it.
SingleOwner ==
    /\ \A r, s \in OwningRequests : r = s
    /\ \A g, h \in OwningThreads : g = h
    /\ OwningRequests = {} \/ OwningThreads = {}

\* The slot is claimed exactly while some thread is in charge of giving it
\* back: a failure of a handshake, of a worker or of its clean-up never loses
\* the claim.  Only a lost race keeps the thread in charge from doing so, and
\* only one race is lost, against a claim that then stays.
ClaimHasOwner ==
    /\ active # "none" <=> OwningRequests # {} \/ OwningThreads # {}
    /\ BlockedOwners # {} => ~LockFree
    /\ ~LockFree => active # "none"
    /\ \A r, s \in Requests : request[r] = "lost" /\ request[s] = "lost" => r = s

\* The fields of the controller stay what they may be, and the claim among
\* them always has its owner.
ClaimIsSound == CtlTypeOK /\ ClaimHasOwner

\* A stop request can interrupt only the playback it is meant for: no
\* handshake, clean-up or reconciliation runs with a cancel event installed.
CancelIsOwn == cancel # 0 => thread[cancel] = "streaming" /\ worker = cancel

\* A stop request never returns what a later session left behind: the
\* generation check in _request_stop does what its comment says of sessions.
NeverAnotherSession == \A r \in Requests : reply[r].of \in {0, mine[r]}

\* However a recording ends or fails to start, MODE_SET(PASS) is sent last.
RecordingIsLeft == active = "none" => sent # "RECORD"

\* A stop that reached the worker ends the session, even if the request that
\* sent it has given up, and any claim but that of a running recording ends by
\* itself -- unless a safe_stop loses its race (see LeftBe).
StopEndsSession ==
    /\ \A g \in Sessions : g \in stopSet ~> thread[g] = "gone" \/ ~LockFree
    /\ active # "none" ~> \/ active = "none" \/ ~LockFree
                         \/ \E g \in Sessions : active = "record" /\ thread[g] = "running"

\* A stop request returns the outcome of the session it stopped and of no
\* one else (controller.py, the comments on _generation and in _request_stop).
StopTellsOwnOutcome ==
    [][\A r \in Requests :
         ReadOutcome(r) /\ generation = mine[r] => last.of = mine[r]]_ctlVars

\* A bare PASS never masks an earlier ERROR: the shown state goes from ERROR
\* to PASS only after an acknowledged MODE_SET(PASS) (the comment in
\* start_recording, which says that start_playback has this, too).
ErrorNotMasked ==
    [][state = "ERROR" /\ state' = "PASS" => sent' = "PASS" /\ confirmed']_ctlVars

\* The clean-up of a failed start always attempts to leave ARMED, even when
\* the handshake itself failed (the comment in start_playback).
ArmedIsLeft == active = "none" => sent # "ARMED"

\* A safe_stop that loses its race leaves the session that just started be
\* (the comment in safe_stop): the request that starts it comes to its end.
LeftBe == \A r \in Requests : request[r] = "construct" ~> request[r] = "free"

=============================================================================
