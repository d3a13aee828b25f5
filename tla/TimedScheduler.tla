--------------------------- MODULE TimedScheduler ---------------------------
(***************************************************************************)
(* The playback scheduler with the clock and the hardware alarm            *)
(* (pico/src/playback_scheduler.c).  In PicoFirmware whether the head is   *)
(* due is a free choice; here it is computed, and the alarm interrupt and  *)
(* the clock may advance between any two accesses of the main loop to the  *)
(* state they share.  `pc' is the place in pico_playback_scheduler_task or *)
(* arm_next; "idle" is the rest of the main loop, where commands are       *)
(* handled.  A refused QUEUE_EVENT and a clear while PLAYING end the run   *)
(* through the mode machine, like any Stop.                                *)
(***************************************************************************)
EXTENDS Naturals, Sequences

CONSTANTS
    Offsets,           \* offset_us of the events Zero may send
    QueueCapacity,     \* PICO_PLAYBACK_QUEUE_CAPACITY
    TimeModulus,       \* 2^64: the deadline is computed in a uint64_t
    WatchdogTimeout,   \* PICO_PLAYBACK_SCHEDULER_WATCHDOG_TIMEOUT_US
    MaxClock           \* bound: the clock stops here

ASSUME TimeAssumption ==
    /\ Offsets \subseteq Nat
    /\ QueueCapacity \in Nat \ {0}
    /\ TimeModulus \in Nat \ {0}
    /\ WatchdogTimeout \in Nat \ {0}
    /\ MaxClock \in Nat \ {0}
    /\ MaxClock < TimeModulus    \* time_us_64() itself does not wrap

VARIABLES
    now,         \* time_us_64()
    outstanding, \* the deadlines the alarm pool has yet to fire for
    fired,       \* alarm_fired, set by the interrupt
    armed,       \* alarm_armed
    pc, back,    \* place in the code, and where arm_next returns to
    queue,       \* offsets of the queued events
    running, ended, waiting, underrun,
    since,       \* underrun_since_us
    start,       \* playback_start_us
    deadline,    \* next_deadline_us
    starved      \* history: when the queue last became empty in this run

alarm == <<outstanding, fired, armed>>
location == <<pc, back>>
flags == <<waiting, underrun, since>>
run == <<running, ended, start, deadline, starved>>
timedVars == <<now, alarm, location, queue, flags, run>>

Goto(from, to) == pc = from /\ pc' = to

-----------------------------------------------------------------------------
(* The clock and the interrupt. *)

Tick ==
    /\ now < MaxClock
    /\ now' = now + 1
    /\ UNCHANGED <<alarm, location, queue, flags, run>>

AlarmIsr ==
    /\ \E due \in outstanding : now >= due /\ outstanding' = outstanding \ {due}
    /\ fired' = TRUE
    /\ UNCHANGED <<now, armed, location, queue, flags, run>>

-----------------------------------------------------------------------------
(* Commands, handled while the task is not running. *)

QueueEvent(offset) ==
    /\ pc = "idle"
    /\ Len(queue) < QueueCapacity
    /\ queue' = Append(queue, offset)
    /\ UNCHANGED <<now, alarm, location, flags, run>>

MarkEnded ==
    /\ pc = "idle"
    /\ ended' = TRUE
    /\ UNCHANGED <<now, alarm, location, queue, flags, running, start, deadline, starved>>

\* The epoch is sampled once; arm_next may find it in the past.
Start ==
    /\ ~running
    /\ Goto("idle", "peek")
    /\ back' = "idle"
    /\ running' = TRUE
    /\ start' = now
    /\ deadline' = now
    /\ starved' = now
    /\ waiting' = FALSE
    /\ underrun' = FALSE
    /\ armed' = FALSE
    /\ fired' = FALSE
    /\ UNCHANGED <<now, outstanding, queue, ended, since>>

\* After a run its queue, end marker and wait are discarded (mode_clear_queue).
ResetSequence ==
    /\ queue' = <<>>
    /\ ended' = FALSE
    /\ waiting' = FALSE
    /\ underrun' = FALSE
    /\ running' = FALSE
    /\ UNCHANGED <<since, start, deadline, starved>>

\* Fault: a stopped run leaves its alarm in the pool.
CancelNothing == armed' = FALSE /\ UNCHANGED outstanding

CancelAlarm ==
    /\ outstanding' = IF armed THEN {} ELSE outstanding
    /\ armed' = FALSE

\* PLAY_ABORT, MODE_SET(PASS), a fault or the watchdog; or QUEUE_CLEAR.
Stop ==
    /\ pc = "idle"
    /\ IF running THEN CancelAlarm /\ fired' = FALSE ELSE UNCHANGED alarm
    /\ ResetSequence
    /\ UNCHANGED <<now, location>>

\* Fault: the timeout runs from the start of the run.
ExpiredSinceStart == underrun /\ now - start >= WatchdogTimeout

Expired == underrun /\ now - since >= WatchdogTimeout

WatchdogStop == running /\ Expired /\ Stop

-----------------------------------------------------------------------------
(* pico_playback_scheduler_task *)

Task ==
    /\ running
    /\ IF waiting THEN Goto("idle", "cancel") ELSE Goto("idle", "exchange")
    /\ back' = "exchange"
    /\ UNCHANGED <<now, alarm, queue, flags, run>>

Exchange ==
    /\ Goto("exchange", IF fired THEN "send" ELSE "poll")
    /\ fired' = FALSE
    /\ UNCHANGED <<now, outstanding, armed, back, queue, flags, run>>

\* Fault: only the alarm makes an event due.
PollNothing ==
    /\ Goto("poll", "idle")
    /\ UNCHANGED <<now, alarm, back, queue, flags, run>>

\* The clock is the fallback for an alarm that did not fire.
Poll ==
    /\ Goto("poll", IF now < deadline THEN "idle" ELSE "send")
    /\ UNCHANGED <<now, alarm, back, queue, flags, run>>

HidBusy ==
    /\ Goto("send", "idle")
    /\ UNCHANGED <<now, alarm, back, queue, flags, run>>

\* A queue that is not waited for is not empty, so there is a head to send.
HidAccepts ==
    /\ Goto("send", "cancel")
    /\ queue' = Tail(queue)
    /\ starved' = now
    /\ UNCHANGED <<now, alarm, back, flags, running, ended, start, deadline>>

-----------------------------------------------------------------------------
(* arm_next *)

\* Fault: the flag is cleared while the alarm can still fire.
ClearThenCancel ==
    \/ /\ Goto("cancel", "clear")
       /\ fired' = FALSE
       /\ UNCHANGED <<now, outstanding, armed, back, queue, flags, run>>
    \/ /\ Goto("clear", "peek")
       /\ CancelAlarm
       /\ UNCHANGED <<now, fired, back, queue, flags, run>>

\* Once the alarm is cancelled nothing can set the flag that is then cleared.
CancelStale ==
    \/ /\ Goto("cancel", IF armed THEN "clear" ELSE "peek")
       /\ CancelAlarm
       /\ UNCHANGED <<now, fired, back, queue, flags, run>>
    \/ /\ Goto("clear", "peek")
       /\ fired' = FALSE
       /\ UNCHANGED <<now, outstanding, armed, back, queue, flags, run>>

BeginUnderrun ==
    /\ waiting' = TRUE
    /\ underrun' = TRUE
    /\ since' = IF underrun THEN since ELSE now
    /\ UNCHANGED <<queue, run>>

PeekEmpty ==
    /\ Goto("peek", "idle")
    /\ queue = <<>>
    /\ IF ended THEN ResetSequence ELSE BeginUnderrun
    /\ UNCHANGED <<now, alarm, back>>

\* Unsigned addition, which wraps.
HeadDeadline == (start + Head(queue)) % TimeModulus

PeekHead ==
    /\ Goto("peek", "arm")
    /\ queue # <<>>
    /\ waiting' = FALSE
    /\ underrun' = FALSE
    /\ deadline' = HeadDeadline
    /\ UNCHANGED <<now, alarm, back, queue, since, running, ended, start, starved>>

Arm ==
    /\ Goto("arm", IF now < deadline THEN "add" ELSE back)
    /\ UNCHANGED <<now, alarm, back, queue, flags, run>>

\* add_alarm_at(fire_if_past): a slot, no slot, or the callback at once if the
\* deadline has passed since it was compared; only a slot has an id to keep.
AddAlarm ==
    /\ Goto("add", back)
    /\ \/ outstanding' = outstanding \cup {deadline} /\ armed' = TRUE /\ UNCHANGED fired
       \/ now >= deadline /\ fired' = TRUE /\ UNCHANGED <<outstanding, armed>>
       \/ UNCHANGED alarm
    /\ UNCHANGED <<now, back, queue, flags, run>>

-----------------------------------------------------------------------------
TimedInit ==
    /\ now = 0 /\ start = 0 /\ deadline = 0 /\ since = 0 /\ starved = 0
    /\ outstanding = {}
    /\ fired = FALSE /\ armed = FALSE
    /\ pc = "idle" /\ back = "idle"
    /\ queue = <<>>
    /\ running = FALSE /\ ended = FALSE /\ waiting = FALSE /\ underrun = FALSE

Scheduler ==
    \/ Exchange \/ Poll \/ HidBusy \/ HidAccepts
    \/ CancelStale \/ PeekEmpty \/ PeekHead \/ Arm \/ AddAlarm

CommandStep ==
    \/ \E offset \in Offsets : QueueEvent(offset)
    \/ MarkEnded \/ Start \/ Stop

TimedNext == Tick \/ AlarmIsr \/ CommandStep \/ WatchdogStop \/ Task \/ Scheduler

TimedSpec == TimedInit /\ [][TimedNext]_timedVars

\* The main loop calls the task in every pass and the PC keeps taking reports;
\* nothing is assumed of the alarm, nor of the clock.
TimedFairness ==
    WF_timedVars(Scheduler) /\ SF_timedVars(Task) /\ SF_timedVars(HidAccepts)

TimedFairSpec == TimedSpec /\ TimedFairness

-----------------------------------------------------------------------------
(* Properties. *)

\* Type invariant.  The underrun clock never runs ahead of the clock, so the
\* watchdog's unsigned difference does not wrap.
TimedTypeOK ==
    /\ {now, start, since, starved} \subseteq 0..MaxClock
    /\ outstanding \subseteq 0..(TimeModulus - 1)
    /\ deadline \in 0..(TimeModulus - 1)
    /\ {fired, armed, running, ended, waiting, underrun} \subseteq BOOLEAN
    /\ queue \in Seq(Offsets) /\ Len(queue) =< QueueCapacity
    /\ pc \in {"idle", "exchange", "poll", "send", "cancel", "clear", "peek", "arm", "add"}
    /\ back \in {"idle", "exchange"}

\* No alarm outlives the deadline it was set for: at most one is outstanding,
\* it is the current one's, and none is left once the run has ended (the
\* comment above arm_next's cancellation).
NoStrayAlarm ==
    /\ outstanding # {} => armed /\ running /\ outstanding = {deadline}
    /\ ~running => ~fired

\* Whenever the task may read the flag, a set flag says what it is taken to
\* say: that the deadline of the head event has passed.
FlagBelongsToHead == fired /\ pc \in {"idle", "exchange"} => now >= deadline

\* An alarm, outstanding or fired, is always about the head of the live run.
AlarmIsHeads == TimedTypeOK /\ NoStrayAlarm /\ FlagBelongsToHead

\* The watchdog stops only a run whose queue ran empty a whole timeout ago,
\* whatever refills and earlier underruns came before.
WatchdogIsLate ==
    pc = "idle" /\ running /\ Expired => now - starved >= WatchdogTimeout

\* The scheduler keeps the promise of module Playout.
Promise == INSTANCE Playout
    WITH clock <- now, epoch <- start, script <- queue, playing <- running

PlayoutKept == Promise!Spec

\* A due event is sent, though the alarm may be refused, late or lost.
Punctual == Promise!Punctual

=============================================================================
