-------------------------- MODULE SchedulerProofs ---------------------------
(***************************************************************************)
(* What TimedScheduler's run checks on a clock of six units, for clocks,   *)
(* queues, offsets and watchdogs of any size.                              *)
(*                                                                         *)
(* The argument: a set flag without an armed alarm can only be that of     *)
(* add_alarm_at's callback at once, and is read before the next deadline   *)
(* is computed (FlagInv); an alarm is cancelled, and its flag cleared,     *)
(* before the head changes (AlarmInv); and between two such changes the    *)
(* deadline is the head's (HeadInv).                                       *)
(*                                                                         *)
(* Behind it: that PLAY_METRICS describes its run, for a sample log of any *)
(* size and a lateness of any width.  The sort in place keeps, for each    *)
(* value, how many samples it is not below (Orders), which is what a       *)
(* nearest rank asks for (PercentileIs).                                   *)
(***************************************************************************)
EXTENDS TimedScheduler, LatenessMetrics, SequenceLemmas, FiniteSetTheorems

\* Inside the task and inside arm_next before the head has been looked at.
Sending == {"exchange", "poll", "send"}
Cancelling == {"cancel", "clear", "peek"}
Arming == {"arm", "add"}

Places == {"idle"} \cup Sending \cup Cancelling \cup Arming

Typed ==
    /\ now \in Nat /\ now =< MaxClock
    /\ start \in Nat /\ since \in Nat /\ starved \in Nat
    /\ outstanding \subseteq Nat
    /\ deadline \in Nat /\ deadline < TimeModulus
    /\ fired \in BOOLEAN /\ armed \in BOOLEAN
    /\ running \in BOOLEAN /\ ended \in BOOLEAN
    /\ waiting \in BOOLEAN /\ underrun \in BOOLEAN
    /\ queue \in Seq(Offsets) /\ Len(queue) =< QueueCapacity
    /\ pc \in Places /\ back \in {"idle", "exchange"}

RunInv ==
    /\ pc # "idle" => running
    /\ underrun = waiting
    /\ pc \in Sending \cup Arming => ~waiting

AlarmInv ==
    /\ outstanding # {} => armed /\ running /\ outstanding = {deadline}
    /\ pc \in {"clear", "peek"} \cup Arming => ~armed
    /\ waiting => ~armed

FlagInv ==
    /\ fired => running /\ outstanding = {} /\ now >= deadline
    /\ pc \in {"peek"} \cup Arming => ~fired
    /\ pc \in {"poll", "send", "cancel"} /\ ~armed => ~fired
    /\ waiting => ~fired

HeadInv ==
    /\ running /\ ~waiting /\ pc \notin Cancelling => queue # <<>> /\ deadline = HeadDeadline
    /\ pc = "send" => now >= deadline

ClockInv ==
    /\ start =< now /\ since =< now /\ starved =< now
    /\ underrun => starved =< since

TimedInv == Typed /\ RunInv /\ AlarmInv /\ FlagInv /\ HeadInv /\ ClockInv

USE DEF Sending, Cancelling, Arming, Places, Goto

LEMMA Parameters ==
    /\ Offsets \subseteq Nat
    /\ QueueCapacity \in Nat /\ QueueCapacity > 0
    /\ TimeModulus \in Nat /\ MaxClock \in Nat /\ WatchdogTimeout \in Nat
    /\ TimeModulus > 0 /\ MaxClock < TimeModulus
<1>1. Offsets \subseteq Nat
  BY TimeAssumption
<1>2. QueueCapacity \in Nat /\ QueueCapacity > 0
  BY TimeAssumption
<1>3. TimeModulus \in Nat /\ MaxClock \in Nat /\ WatchdogTimeout \in Nat
  BY TimeAssumption
<1>4. TimeModulus > 0 /\ MaxClock < TimeModulus
  BY TimeAssumption
<1> QED
  BY <1>1, <1>2, <1>3, <1>4

LEMMA HeadIsElement ==
    ASSUME NEW S, NEW s \in Seq(S), s # <<>>
    PROVE  Head(s) \in S
  OBVIOUS

LEMMA HeadOfQueue ==
    ASSUME queue \in Seq(Offsets), queue # <<>>
    PROVE  Head(queue) \in Offsets /\ Head(queue) \in Nat
  BY HeadIsElement, Parameters

LEMMA ModInRange ==
    ASSUME NEW a \in Nat, NEW b \in Nat, b > 0
    PROVE  a % b \in Nat /\ a % b < b
  BY Z3

LEMMA DeadlineInRange ==
    ASSUME Typed, queue # <<>>
    PROVE  HeadDeadline \in Nat /\ HeadDeadline < TimeModulus
<1>1. queue \in Seq(Offsets) /\ start \in Nat
  BY DEF Typed
<1>2. Head(queue) \in Nat
  BY <1>1, HeadOfQueue
<1> DEFINE sum == start + Head(queue)
<1>3. sum \in Nat
  BY <1>1, <1>2
<1>4. HeadDeadline = sum % TimeModulus
  BY DEF HeadDeadline
<1> HIDE DEF sum
<1> QED
  BY <1>3, <1>4, ModInRange, Parameters

LEMMA TypedIsTypeOK ==
    ASSUME Typed, start =< now, since =< now, starved =< now,
           outstanding # {} => outstanding = {deadline}
    PROVE  TimedTypeOK
<1>1. {now, start, since, starved} \subseteq 0..MaxClock
  BY Parameters DEF Typed
<1>2. deadline \in 0..(TimeModulus - 1)
  BY Parameters DEF Typed
<1>3. outstanding \subseteq 0..(TimeModulus - 1)
  BY <1>2
<1> QED
  BY <1>1, <1>2, <1>3 DEF Typed, TimedTypeOK

LEMMA TimedInitially == TimedInit => TimedInv
<1> SUFFICES ASSUME TimedInit PROVE TimedInv
  OBVIOUS
<1>1. queue \in Seq(Offsets) /\ Len(queue) = 0
  BY DEF TimedInit
<1>2. Typed
  <2>1. now \in Nat /\ now =< MaxClock /\ start \in Nat /\ since \in Nat /\ starved \in Nat
        /\ deadline \in Nat /\ deadline < TimeModulus
    BY Parameters DEF TimedInit
  <2>2. pc \in Places /\ back \in {"idle", "exchange"} /\ Len(queue) =< QueueCapacity
    BY <1>1, Parameters DEF TimedInit
  <2> QED
    BY <1>1, <2>1, <2>2 DEF TimedInit, Typed
<1>3. RunInv
  BY DEF TimedInit, RunInv
<1>4. HeadInv
  BY DEF TimedInit, HeadInv
<1>5. AlarmInv /\ FlagInv
  BY DEF TimedInit, AlarmInv, FlagInv
<1>6. ClockInv
  BY DEF TimedInit, ClockInv
<1> QED
  BY <1>2, <1>3, <1>4, <1>5, <1>6 DEF TimedInv

-----------------------------------------------------------------------------
(* One lemma per action: TimedInv is kept. *)

LEMMA TickKeeps ==
    ASSUME TimedInv, Tick
    PROVE  TimedInv'
<1>1. Typed'
  BY Parameters DEF TimedInv, Typed, RunInv, HeadInv, Tick, alarm, location, flags, run
<1>2. RunInv'
  BY DEF TimedInv, Typed, RunInv, Tick, alarm, location, flags, run
<1>3. AlarmInv'
  BY DEF TimedInv, Typed, RunInv, AlarmInv, FlagInv, Tick, alarm, location, flags, run
<1>4. FlagInv'
  BY DEF TimedInv, Typed, RunInv, AlarmInv, FlagInv, HeadInv, Tick, alarm, location, flags, run
<1>5. HeadInv'
  BY DEF TimedInv, Typed, RunInv, FlagInv, HeadInv, HeadDeadline, Tick, alarm, location, flags, run
<1>6. ClockInv'
  BY DEF TimedInv, Typed, RunInv, ClockInv, Tick, alarm, location, flags, run
<1> QED
  BY <1>1, <1>2, <1>3, <1>4, <1>5, <1>6 DEF TimedInv

LEMMA AlarmIsrKeeps ==
    ASSUME TimedInv, AlarmIsr
    PROVE  TimedInv'
<1>1. Typed'
  BY Parameters DEF TimedInv, Typed, RunInv, HeadInv, AlarmIsr, location, flags, run
<1>2. RunInv'
  BY DEF TimedInv, Typed, RunInv, AlarmIsr, location, flags, run
<1>3. AlarmInv'
  BY DEF TimedInv, Typed, RunInv, AlarmInv, FlagInv, AlarmIsr, location, flags, run
<1>4. FlagInv'
  BY DEF TimedInv, Typed, RunInv, AlarmInv, FlagInv, HeadInv, AlarmIsr, location, flags, run
<1>5. HeadInv'
  BY DEF TimedInv, Typed, RunInv, FlagInv, HeadInv, HeadDeadline, AlarmIsr, location, flags, run
<1>6. ClockInv'
  BY DEF TimedInv, Typed, RunInv, ClockInv, AlarmIsr, location, flags, run
<1> QED
  BY <1>1, <1>2, <1>3, <1>4, <1>5, <1>6 DEF TimedInv

LEMMA QueueEventKeeps ==
    ASSUME NEW offset \in Offsets, TimedInv, QueueEvent(offset)
    PROVE  TimedInv'
<1>1. Typed'
  BY Parameters DEF TimedInv, Typed, RunInv, HeadInv, QueueEvent, alarm, location, flags, run
<1>2. RunInv'
  BY DEF TimedInv, Typed, RunInv, QueueEvent, alarm, location, flags, run
<1>3. AlarmInv'
  BY DEF TimedInv, Typed, RunInv, AlarmInv, FlagInv, QueueEvent, alarm, location, flags, run
<1>4. FlagInv'
  BY DEF TimedInv, Typed, RunInv, AlarmInv, FlagInv, HeadInv, QueueEvent, alarm, location, flags, run
<1>5. HeadInv'
  BY DEF TimedInv, Typed, RunInv, FlagInv, HeadInv, HeadDeadline, QueueEvent, alarm, location, flags, run
<1>6. ClockInv'
  BY DEF TimedInv, Typed, RunInv, ClockInv, QueueEvent, alarm, location, flags, run
<1> QED
  BY <1>1, <1>2, <1>3, <1>4, <1>5, <1>6 DEF TimedInv

LEMMA MarkEndedKeeps ==
    ASSUME TimedInv, MarkEnded
    PROVE  TimedInv'
<1>1. Typed'
  BY Parameters DEF TimedInv, Typed, RunInv, HeadInv, MarkEnded, alarm, location, flags
<1>2. RunInv'
  BY DEF TimedInv, Typed, RunInv, MarkEnded, alarm, location, flags
<1>3. AlarmInv'
  BY DEF TimedInv, Typed, RunInv, AlarmInv, FlagInv, MarkEnded, alarm, location, flags
<1>4. FlagInv'
  BY DEF TimedInv, Typed, RunInv, AlarmInv, FlagInv, HeadInv, MarkEnded, alarm, location, flags
<1>5. HeadInv'
  BY DEF TimedInv, Typed, RunInv, FlagInv, HeadInv, HeadDeadline, MarkEnded, alarm, location, flags
<1>6. ClockInv'
  BY DEF TimedInv, Typed, RunInv, ClockInv, MarkEnded, alarm, location, flags
<1> QED
  BY <1>1, <1>2, <1>3, <1>4, <1>5, <1>6 DEF TimedInv

LEMMA StartKeeps ==
    ASSUME TimedInv, Start
    PROVE  TimedInv'
<1>1. Typed'
  <2>1. /\ now' \in Nat /\ now' =< MaxClock
        /\ start' \in Nat /\ since' \in Nat /\ starved' \in Nat
        /\ deadline' \in Nat /\ deadline' < TimeModulus
    BY Parameters DEF TimedInv, Typed, Start
  <2>2. pc' \in Places /\ back' \in {"idle", "exchange"}
    BY DEF Start
  <2>3. outstanding' \subseteq Nat /\ queue' \in Seq(Offsets) /\ Len(queue') =< QueueCapacity
    BY DEF TimedInv, Typed, Start
  <2>4. {fired', armed', running', ended', waiting', underrun'} \subseteq BOOLEAN
    BY DEF TimedInv, Typed, Start
  <2> QED
    BY <2>1, <2>2, <2>3, <2>4 DEF Typed
<1>2. RunInv'
  BY DEF TimedInv, Typed, RunInv, Start
<1>3. AlarmInv'
  BY DEF TimedInv, Typed, RunInv, AlarmInv, FlagInv, Start
<1>4. FlagInv'
  BY DEF TimedInv, Typed, RunInv, AlarmInv, FlagInv, HeadInv, Start
<1>5. HeadInv'
  BY DEF TimedInv, Typed, RunInv, FlagInv, HeadInv, HeadDeadline, Start
<1>6. ClockInv'
  BY DEF TimedInv, Typed, RunInv, ClockInv, Start
<1> QED
  BY <1>1, <1>2, <1>3, <1>4, <1>5, <1>6 DEF TimedInv

LEMMA StopKeeps ==
    ASSUME TimedInv, Stop
    PROVE  TimedInv'
<1>1. Typed'
  <2>1. /\ now' \in Nat /\ now' =< MaxClock
        /\ start' \in Nat /\ since' \in Nat /\ starved' \in Nat
        /\ deadline' \in Nat /\ deadline' < TimeModulus
    BY Parameters DEF TimedInv, Typed, Stop, ResetSequence
  <2>2. pc' \in Places /\ back' \in {"idle", "exchange"}
    BY DEF TimedInv, Typed, Stop, location
  <2>3. outstanding' \subseteq Nat /\ fired' \in BOOLEAN /\ armed' \in BOOLEAN
    BY DEF TimedInv, Typed, Stop, CancelAlarm, alarm
  <2>4. queue' \in Seq(Offsets) /\ Len(queue') =< QueueCapacity
    BY Parameters DEF Stop, ResetSequence
  <2>5. {running', ended', waiting', underrun'} \subseteq BOOLEAN
    BY DEF Stop, ResetSequence
  <2> QED
    BY <2>1, <2>2, <2>3, <2>4, <2>5 DEF Typed
<1>2. RunInv'
  BY DEF TimedInv, Typed, RunInv, Stop, CancelAlarm, ResetSequence, alarm, location
<1>3. AlarmInv'
  BY DEF TimedInv, Typed, RunInv, AlarmInv, FlagInv, Stop, CancelAlarm, ResetSequence, alarm, location
<1>4. FlagInv'
  BY DEF TimedInv, Typed, RunInv, AlarmInv, FlagInv, HeadInv, Stop, CancelAlarm, ResetSequence, alarm, location
<1>5. HeadInv'
  BY DEF TimedInv, Typed, RunInv, FlagInv, HeadInv, HeadDeadline, Stop, CancelAlarm, ResetSequence, alarm, location
<1>6. ClockInv'
  BY DEF TimedInv, Typed, RunInv, ClockInv, Stop, CancelAlarm, ResetSequence, alarm, location
<1> QED
  BY <1>1, <1>2, <1>3, <1>4, <1>5, <1>6 DEF TimedInv

LEMMA TaskKeeps ==
    ASSUME TimedInv, Task
    PROVE  TimedInv'
<1>1. Typed'
  BY Parameters DEF TimedInv, Typed, RunInv, HeadInv, Task, alarm, flags, run
<1>2. RunInv'
  BY DEF TimedInv, Typed, RunInv, Task, alarm, flags, run
<1>3. AlarmInv'
  BY DEF TimedInv, Typed, RunInv, AlarmInv, FlagInv, Task, alarm, flags, run
<1>4. FlagInv'
  BY DEF TimedInv, Typed, RunInv, AlarmInv, FlagInv, HeadInv, Task, alarm, flags, run
<1>5. HeadInv'
  BY DEF TimedInv, Typed, RunInv, FlagInv, HeadInv, HeadDeadline, Task, alarm, flags, run
<1>6. ClockInv'
  BY DEF TimedInv, Typed, RunInv, ClockInv, Task, alarm, flags, run
<1> QED
  BY <1>1, <1>2, <1>3, <1>4, <1>5, <1>6 DEF TimedInv

LEMMA ExchangeKeeps ==
    ASSUME TimedInv, Exchange
    PROVE  TimedInv'
<1>1. Typed'
  BY Parameters DEF TimedInv, Typed, RunInv, HeadInv, Exchange, flags, run
<1>2. RunInv'
  BY DEF TimedInv, Typed, RunInv, Exchange, flags, run
<1>3. AlarmInv'
  BY DEF TimedInv, Typed, RunInv, AlarmInv, FlagInv, Exchange, flags, run
<1>4. FlagInv'
  BY DEF TimedInv, Typed, RunInv, AlarmInv, FlagInv, HeadInv, Exchange, flags, run
<1>5. HeadInv'
  BY DEF TimedInv, Typed, RunInv, FlagInv, HeadInv, HeadDeadline, Exchange, flags, run
<1>6. ClockInv'
  BY DEF TimedInv, Typed, RunInv, ClockInv, Exchange, flags, run
<1> QED
  BY <1>1, <1>2, <1>3, <1>4, <1>5, <1>6 DEF TimedInv

LEMMA PollKeeps ==
    ASSUME TimedInv, Poll
    PROVE  TimedInv'
<1>1. Typed'
  BY Parameters DEF TimedInv, Typed, RunInv, HeadInv, Poll, alarm, flags, run
<1>2. RunInv'
  BY DEF TimedInv, Typed, RunInv, Poll, alarm, flags, run
<1>3. AlarmInv'
  BY DEF TimedInv, Typed, RunInv, AlarmInv, FlagInv, Poll, alarm, flags, run
<1>4. FlagInv'
  BY DEF TimedInv, Typed, RunInv, AlarmInv, FlagInv, HeadInv, Poll, alarm, flags, run
<1>5. HeadInv'
  BY DEF TimedInv, Typed, RunInv, FlagInv, HeadInv, HeadDeadline, Poll, alarm, flags, run
<1>6. ClockInv'
  BY DEF TimedInv, Typed, RunInv, ClockInv, Poll, alarm, flags, run
<1> QED
  BY <1>1, <1>2, <1>3, <1>4, <1>5, <1>6 DEF TimedInv

LEMMA HidBusyKeeps ==
    ASSUME TimedInv, HidBusy
    PROVE  TimedInv'
<1>1. Typed'
  BY Parameters DEF TimedInv, Typed, RunInv, HeadInv, HidBusy, alarm, flags, run
<1>2. RunInv'
  BY DEF TimedInv, Typed, RunInv, HidBusy, alarm, flags, run
<1>3. AlarmInv'
  BY DEF TimedInv, Typed, RunInv, AlarmInv, FlagInv, HidBusy, alarm, flags, run
<1>4. FlagInv'
  BY DEF TimedInv, Typed, RunInv, AlarmInv, FlagInv, HeadInv, HidBusy, alarm, flags, run
<1>5. HeadInv'
  BY DEF TimedInv, Typed, RunInv, FlagInv, HeadInv, HeadDeadline, HidBusy, alarm, flags, run
<1>6. ClockInv'
  BY DEF TimedInv, Typed, RunInv, ClockInv, HidBusy, alarm, flags, run
<1> QED
  BY <1>1, <1>2, <1>3, <1>4, <1>5, <1>6 DEF TimedInv

LEMMA HidAcceptsKeeps ==
    ASSUME TimedInv, HidAccepts
    PROVE  TimedInv'
<1>1. Typed'
  BY Parameters DEF TimedInv, Typed, RunInv, HeadInv, HidAccepts, alarm, flags
<1>2. RunInv'
  BY DEF TimedInv, Typed, RunInv, HidAccepts, alarm, flags
<1>3. AlarmInv'
  BY DEF TimedInv, Typed, RunInv, AlarmInv, FlagInv, HidAccepts, alarm, flags
<1>4. FlagInv'
  BY DEF TimedInv, Typed, RunInv, AlarmInv, FlagInv, HeadInv, HidAccepts, alarm, flags
<1>5. HeadInv'
  BY DEF TimedInv, Typed, RunInv, FlagInv, HeadInv, HeadDeadline, HidAccepts, alarm, flags
<1>6. ClockInv'
  BY DEF TimedInv, Typed, RunInv, ClockInv, HidAccepts, alarm, flags
<1> QED
  BY <1>1, <1>2, <1>3, <1>4, <1>5, <1>6 DEF TimedInv

LEMMA CancelStaleKeeps ==
    ASSUME TimedInv, CancelStale
    PROVE  TimedInv'
<1>1. Typed'
  BY Parameters DEF TimedInv, Typed, RunInv, HeadInv, CancelStale, CancelAlarm, flags, run
<1>2. RunInv'
  BY DEF TimedInv, Typed, RunInv, CancelStale, CancelAlarm, flags, run
<1>3. AlarmInv'
  BY DEF TimedInv, Typed, RunInv, AlarmInv, FlagInv, CancelStale, CancelAlarm, flags, run
<1>4. FlagInv'
  BY DEF TimedInv, Typed, RunInv, AlarmInv, FlagInv, HeadInv, CancelStale, CancelAlarm, flags, run
<1>5. HeadInv'
  BY DEF TimedInv, Typed, RunInv, FlagInv, HeadInv, HeadDeadline, CancelStale, CancelAlarm, flags, run
<1>6. ClockInv'
  BY DEF TimedInv, Typed, RunInv, ClockInv, CancelStale, CancelAlarm, flags, run
<1> QED
  BY <1>1, <1>2, <1>3, <1>4, <1>5, <1>6 DEF TimedInv

LEMMA PeekEmptyKeeps ==
    ASSUME TimedInv, PeekEmpty
    PROVE  TimedInv'
<1>1. Typed'
  BY Parameters DEF TimedInv, Typed, RunInv, HeadInv, PeekEmpty, ResetSequence, BeginUnderrun, alarm, run
<1>2. RunInv'
  BY DEF TimedInv, Typed, RunInv, PeekEmpty, ResetSequence, BeginUnderrun, alarm, run
<1>3. AlarmInv'
  BY DEF TimedInv, Typed, RunInv, AlarmInv, FlagInv, PeekEmpty, ResetSequence, BeginUnderrun, alarm, run
<1>4. FlagInv'
  BY DEF TimedInv, Typed, RunInv, AlarmInv, FlagInv, HeadInv, PeekEmpty, ResetSequence, BeginUnderrun, alarm, run
<1>5. HeadInv'
  BY DEF TimedInv, Typed, RunInv, FlagInv, HeadInv, HeadDeadline, PeekEmpty, ResetSequence, BeginUnderrun, alarm, run
<1>6. ClockInv'
  <2>1. CASE ended
    BY <2>1 DEF TimedInv, Typed, ClockInv, PeekEmpty, ResetSequence
  <2>2. CASE ~ended
    <3>1. start' = start /\ starved' = starved /\ now' = now
      BY <2>2 DEF PeekEmpty, BeginUnderrun, run
    <3>2. since' = IF underrun THEN since ELSE now
      BY <2>2 DEF PeekEmpty, BeginUnderrun
    <3> QED
      BY <3>1, <3>2 DEF TimedInv, Typed, ClockInv
  <2> QED
    BY <2>1, <2>2
<1> QED
  BY <1>1, <1>2, <1>3, <1>4, <1>5, <1>6 DEF TimedInv

LEMMA PeekHeadKeeps ==
    ASSUME TimedInv, PeekHead
    PROVE  TimedInv'
<1>1. Typed'
  BY Parameters, DeadlineInRange DEF TimedInv, Typed, RunInv, HeadInv, PeekHead, alarm
<1>2. RunInv'
  BY DEF TimedInv, Typed, RunInv, PeekHead, alarm
<1>3. AlarmInv'
  BY DEF TimedInv, Typed, RunInv, AlarmInv, FlagInv, PeekHead, alarm
<1>4. FlagInv'
  BY DEF TimedInv, Typed, RunInv, AlarmInv, FlagInv, HeadInv, PeekHead, alarm
<1>5. HeadInv'
  BY DEF TimedInv, Typed, RunInv, FlagInv, HeadInv, HeadDeadline, PeekHead, alarm
<1>6. ClockInv'
  BY DEF TimedInv, Typed, RunInv, ClockInv, PeekHead, alarm
<1> QED
  BY <1>1, <1>2, <1>3, <1>4, <1>5, <1>6 DEF TimedInv

LEMMA ArmKeeps ==
    ASSUME TimedInv, Arm
    PROVE  TimedInv'
<1>1. Typed'
  BY Parameters DEF TimedInv, Typed, RunInv, HeadInv, Arm, alarm, flags, run
<1>2. RunInv'
  BY DEF TimedInv, Typed, RunInv, Arm, alarm, flags, run
<1>3. AlarmInv'
  BY DEF TimedInv, Typed, RunInv, AlarmInv, FlagInv, Arm, alarm, flags, run
<1>4. FlagInv'
  BY DEF TimedInv, Typed, RunInv, AlarmInv, FlagInv, HeadInv, Arm, alarm, flags, run
<1>5. HeadInv'
  BY DEF TimedInv, Typed, RunInv, FlagInv, HeadInv, HeadDeadline, Arm, alarm, flags, run
<1>6. ClockInv'
  BY DEF TimedInv, Typed, RunInv, ClockInv, Arm, alarm, flags, run
<1> QED
  BY <1>1, <1>2, <1>3, <1>4, <1>5, <1>6 DEF TimedInv

LEMMA AddAlarmKeeps ==
    ASSUME TimedInv, AddAlarm
    PROVE  TimedInv'
<1>1. Typed'
  BY Parameters DEF TimedInv, Typed, RunInv, HeadInv, AddAlarm, alarm, flags, run
<1>2. RunInv'
  BY DEF TimedInv, Typed, RunInv, AddAlarm, alarm, flags, run
<1>3. AlarmInv'
  BY DEF TimedInv, Typed, RunInv, AlarmInv, FlagInv, AddAlarm, alarm, flags, run
<1>4. FlagInv'
  BY DEF TimedInv, Typed, RunInv, AlarmInv, FlagInv, HeadInv, AddAlarm, alarm, flags, run
<1>5. HeadInv'
  BY DEF TimedInv, Typed, RunInv, FlagInv, HeadInv, HeadDeadline, AddAlarm, alarm, flags, run
<1>6. ClockInv'
  BY DEF TimedInv, Typed, RunInv, ClockInv, AddAlarm, alarm, flags, run
<1> QED
  BY <1>1, <1>2, <1>3, <1>4, <1>5, <1>6 DEF TimedInv

LEMMA TimedStep == TimedInv /\ [TimedNext]_timedVars => TimedInv'
<1> SUFFICES ASSUME TimedInv, [TimedNext]_timedVars PROVE TimedInv'
  OBVIOUS
<1>1. CASE Scheduler
  BY <1>1, ExchangeKeeps, PollKeeps, HidBusyKeeps, HidAcceptsKeeps, CancelStaleKeeps,
     PeekEmptyKeeps, PeekHeadKeeps, ArmKeeps, AddAlarmKeeps DEF Scheduler
<1>2. CASE CommandStep
  BY <1>2, QueueEventKeeps, MarkEndedKeeps, StartKeeps, StopKeeps DEF CommandStep
<1>3. CASE Tick \/ AlarmIsr \/ WatchdogStop \/ Task
  BY <1>3, TickKeeps, AlarmIsrKeeps, StopKeeps, TaskKeeps DEF WatchdogStop
<1>4. CASE UNCHANGED timedVars
  <2>1. /\ Typed' /\ RunInv' /\ AlarmInv'
    BY <1>4 DEF TimedInv, Typed, RunInv, AlarmInv, timedVars, alarm, location, flags, run
  <2>2. FlagInv' /\ HeadInv' /\ ClockInv'
    BY <1>4 DEF TimedInv, FlagInv, HeadInv, ClockInv, HeadDeadline, timedVars, alarm, location, flags, run
  <2> QED
    BY <2>1, <2>2 DEF TimedInv
<1> QED
  BY <1>1, <1>2, <1>3, <1>4 DEF TimedNext

-----------------------------------------------------------------------------
\* The inductive invariant of the scheduler with its clock and interrupt.
THEOREM TimedInvariance == TimedSpec => []TimedInv
  BY TimedInitially, TimedStep, PTL DEF TimedSpec

\* An alarm, outstanding or fired, is always about the head event of the live
\* run, however late the interrupt comes (playback_scheduler.c, the comment
\* above arm_next's cancellation).
THEOREM AlarmIsHeadsAlways == TimedSpec => []AlarmIsHeads
<1>1. TimedInv => TimedTypeOK
  BY TypedIsTypeOK DEF TimedInv, ClockInv, AlarmInv
<1>2. TimedInv => NoStrayAlarm /\ FlagBelongsToHead
  BY DEF TimedInv, AlarmInv, FlagInv, NoStrayAlarm, FlagBelongsToHead
<1> QED
  BY <1>1, <1>2, TimedInvariance, PTL DEF AlarmIsHeads

\* The watchdog stops only a run whose queue ran empty a whole timeout ago,
\* whatever refills and earlier underruns came before.
THEOREM WatchdogIsLateAlways == TimedSpec => []WatchdogIsLate
<1>1. TimedInv => WatchdogIsLate
  BY Parameters DEF TimedInv, Typed, ClockInv, WatchdogIsLate, Expired
<1> QED
  BY <1>1, TimedInvariance, PTL

-----------------------------------------------------------------------------
(* Refinement: the promise of Playout is kept by offsets that reach no     *)
(* deadline beyond 64 bits.  An offset that does would be played at once.  *)

NoWrap == \A offset \in Offsets : MaxClock + offset < TimeModulus

LEMMA DeadlineIsSum ==
    ASSUME NoWrap, TimedInv, queue # <<>>
    PROVE  HeadDeadline = start + Head(queue)
<1>1. queue \in Seq(Offsets) /\ start \in Nat /\ start =< MaxClock
  BY Parameters DEF TimedInv, Typed, ClockInv
<1>2. Head(queue) \in Offsets /\ Head(queue) \in Nat
  BY <1>1, HeadOfQueue
<1> DEFINE sum == start + Head(queue)
<1>3. sum \in Nat /\ sum < TimeModulus
  BY <1>1, <1>2, Parameters DEF NoWrap
<1>4. HeadDeadline = sum % TimeModulus
  BY DEF HeadDeadline
<1> HIDE DEF sum
<1>5. sum % TimeModulus = sum
  BY <1>3, Parameters, Z3
<1> QED
  BY <1>4, <1>5 DEF sum

LEMMA PlayoutStep ==
    ASSUME NoWrap, TimedInv, [TimedNext]_timedVars
    PROVE  [Promise!Next]_(Promise!playoutVars)
<1> USE DEF Promise!Next, Promise!playoutVars
<1>1. CASE Tick
  BY <1>1 DEF Tick, Promise!Tick, run
<1>2. ASSUME NEW offset \in Offsets, QueueEvent(offset) PROVE Promise!Load
  BY <1>2 DEF QueueEvent, Promise!Load, run
<1>3. CASE Start
  BY <1>3 DEF Start, Promise!Start
<1>4. CASE Stop \/ WatchdogStop
  BY <1>4 DEF Stop, WatchdogStop, ResetSequence, Promise!Discard
<1>5. CASE HidAccepts
  <2>1. running /\ queue # <<>> /\ deadline = HeadDeadline /\ now >= deadline
    BY <1>5 DEF HidAccepts, TimedInv, RunInv, HeadInv
  <2>2. Promise!Due
    BY <2>1, DeadlineIsSum DEF Promise!Due
  <2> QED
    BY <1>5, <2>2 DEF HidAccepts, Promise!Play
<1>6. CASE PeekEmpty
  BY <1>6 DEF PeekEmpty, ResetSequence, BeginUnderrun, run, Promise!Discard
<1>7. CASE AlarmIsr \/ MarkEnded \/ Task
  BY <1>7 DEF AlarmIsr, MarkEnded, Task, run
<1>8. CASE Exchange \/ Poll \/ HidBusy
  BY <1>8 DEF Exchange, Poll, HidBusy, run
<1>9. CASE CancelStale \/ PeekHead \/ Arm \/ AddAlarm
  BY <1>9 DEF CancelStale, PeekHead, Arm, AddAlarm, run
<1>10. CASE UNCHANGED timedVars
  BY <1>10 DEF timedVars, run
<1> QED
  BY <1>1, <1>2, <1>3, <1>4, <1>5, <1>6, <1>7, <1>8, <1>9, <1>10 DEF TimedNext, Scheduler, CommandStep

\* The scheduler keeps Playout's promise: events in order, each once, none
\* before the run's epoch plus its offset (docs/realtime-design.md), provided
\* that no deadline exceeds 64 bits.
THEOREM PlayoutKeptAlways == ASSUME NoWrap PROVE TimedSpec => PlayoutKept
<1>1. TimedInit => Promise!Init
  BY DEF TimedInit, Promise!Init
<1>2. TimedInv /\ [TimedNext]_timedVars => [Promise!Next]_(Promise!playoutVars)
  BY PlayoutStep
<1> QED
  BY <1>1, <1>2, TimedInvariance, PTL DEF TimedSpec, PlayoutKept, Promise!Spec

-----------------------------------------------------------------------------
(* The arithmetic of the metrics. *)

\* Rank is the nearest rank of docs/protocol.md, ceil(p * n / 100), for every
\* number of samples and every percentile: the least position that p per cent
\* of the samples do not pass, and always a position of the array.
THEOREM RankIsNearest ==
    ASSUME NEW n \in Nat \ {0}, NEW p \in 1..100
    PROVE  /\ Rank(p, n) \in 1..n
           /\ 100 * Rank(p, n) >= p * n
           /\ 100 * (Rank(p, n) - 1) < p * n
<1> DEFINE share == p * n
           rank == (share + 99) \div 100
<1>1. share \in Nat /\ share >= 1 /\ share =< 100 * n
  BY Z3
<1>2. rank \in Int /\ 100 * rank =< share + 99 /\ share + 99 < 100 * rank + 100
  BY <1>1, Z3
<1>3. rank \in 1..n
  BY <1>1, <1>2, Z3
<1>4. Rank(p, n) = rank
  BY <1>3 DEF Rank
<1> QED
  BY <1>1, <1>2, <1>3, <1>4, Z3

\* The clamp before the cast: a value that int32_t holds is kept, and no late
\* event turns early, nor an early one late.
THEOREM ClampIsSafe ==
    ASSUME NEW gap \in Int
    PROVE  /\ Clamp(gap) \in MinInt..MaxInt
           /\ gap \in MinInt..MaxInt => Clamp(gap) = gap
           /\ gap >= 0 <=> Clamp(gap) >= 0
  BY MetricsAssumption DEF Clamp, MinInt

LEMMA ClampIsInt == \A gap \in Int : Clamp(gap) \in Int /\ Clamp(gap) \in MinInt..MaxInt
<1>1. \A lateness \in MinInt..MaxInt : lateness \in Int
  BY MetricsAssumption DEF MinInt
<1> QED
  BY <1>1, ClampIsSafe

\* What the Zero reads of a lateness is the lateness, for every int32_t.
THEOREM WireKeepsLateness ==
    ASSUME NEW lateness \in MinInt..MaxInt
    PROVE  AsRead(lateness) = lateness
<1>1. MaxInt \in Nat \ {0} /\ lateness \in Int /\ Span \in Nat \ {0}
  BY MetricsAssumption DEF MinInt, Span
<1>2. CASE lateness >= 0
  <2>1. lateness % Span = lateness
    BY <1>1, <1>2, Z3 DEF MinInt, Span
  <2> QED
    BY <1>1, <2>1 DEF AsRead, Signed, MinInt
<1>3. CASE lateness < 0
  <2>1. lateness % Span = lateness + Span
    BY <1>1, <1>3, Z3 DEF MinInt, Span
  <2> QED
    BY <1>1, <1>3, <2>1 DEF AsRead, Signed, MinInt, Span
<1> QED
  BY <1>1, <1>2, <1>3

-----------------------------------------------------------------------------
(* The sort in place.  Instead of comparing neighbours, a sorted array is    *)
(* described by how many samples each value is not below: r[i] =< v exactly  *)
(* for the places i up to that number.                                       *)

AtMost(s, k, v) == Cardinality({i \in 1..k : s[i] =< v})

Orders(r, s, k) ==
    /\ r \in Seq(Int) /\ Len(r) = k
    /\ \A i \in 1..k : \E j \in 1..k : r[i] = s[j]
    /\ \A v \in Int : \A i \in 1..k : r[i] =< v <=> i =< AtMost(s, k, v)

LEMMA CountOfNone == ASSUME NEW s, NEW v PROVE AtMost(s, 0, v) = 0
<1>1. {i \in 1..0 : s[i] =< v} = {}
  OBVIOUS
<1> QED
  BY <1>1, FS_EmptySet DEF AtMost

LEMMA CountIsBounded == ASSUME NEW s, NEW k \in Nat, NEW v PROVE AtMost(s, k, v) \in 0..k
<1> DEFINE T == {i \in 1..k : s[i] =< v}
<1>1. IsFiniteSet(1..k) /\ Cardinality(1..k) = k
  <2>1. IsFiniteSet(1..k) /\ Cardinality(1..k) = IF 1 > k THEN 0 ELSE k - 1 + 1
    BY FS_Interval
  <2> QED
    BY <2>1
<1>2. T \in SUBSET (1..k)
  OBVIOUS
<1> HIDE DEF T
<1>3. IsFiniteSet(T) /\ Cardinality(T) =< k
  BY <1>1, <1>2, FS_Subset
<1>4. Cardinality(T) \in Nat
  BY <1>3, FS_CardinalityType
<1> QED
  BY <1>3, <1>4 DEF AtMost, T

LEMMA CountNext ==
    ASSUME NEW s, NEW k \in Nat, NEW v
    PROVE  AtMost(s, k + 1, v) = IF s[k + 1] =< v THEN AtMost(s, k, v) + 1 ELSE AtMost(s, k, v)
<1> DEFINE T == {i \in 1..k : s[i] =< v}
           U == {i \in 1..(k + 1) : s[i] =< v}
<1>1. IsFiniteSet(T) /\ k + 1 \notin T
  <2>1. T \in SUBSET (1..k)
    OBVIOUS
  <2>2. IsFiniteSet(1..k)
    BY FS_Interval
  <2>3. k + 1 \notin 1..k
    OBVIOUS
  <2> HIDE DEF T
  <2> QED
    BY <2>1, <2>2, <2>3, FS_Subset
<1>2. CASE s[k + 1] =< v
  <2>1. U = T \cup {k + 1}
    <3>1. \A i : i \in 1..(k + 1) <=> i \in 1..k \/ i = k + 1
      OBVIOUS
    <3> QED
      BY <1>2, <3>1
  <2> HIDE DEF T, U
  <2>2. Cardinality(U) = Cardinality(T) + 1
    BY <1>1, <2>1, FS_AddElement
  <2> QED
    BY <1>2, <2>2 DEF AtMost, T, U
<1>3. CASE ~(s[k + 1] =< v)
  <2>1. U = T
    <3>1. \A i : i \in 1..(k + 1) <=> i \in 1..k \/ i = k + 1
      OBVIOUS
    <3> QED
      BY <1>3, <3>1
  <2> HIDE DEF T, U
  <2> QED
    BY <1>3, <2>1 DEF AtMost, T, U
<1> QED
  BY <1>2, <1>3

\* Where the key goes: behind the last element that is not above it.
LEMMA Inserted ==
    ASSUME NEW r \in Seq(Int), NEW key \in Int
    PROVE  \E place \in 0..Len(r) :
              /\ place = 0 \/ r[place] =< key
              /\ \A j \in 1..Len(r) : r[j] =< key => j =< place
              /\ InsertSorted(r, key) \in Seq(Int)
              /\ Len(InsertSorted(r, key)) = Len(r) + 1
              /\ \A i \in 1..place : InsertSorted(r, key)[i] = r[i]
              /\ InsertSorted(r, key)[place + 1] = key
              /\ \A i \in (place + 2)..(Len(r) + 1) : InsertSorted(r, key)[i] = r[i - 1]
<1> DEFINE n == Len(r)
           places == {j \in 0..n : j = 0 \/ r[j] =< key}
<1>1. n \in Nat /\ \A i \in 1..n : r[i] \in Int
  OBVIOUS
<1>2. places \subseteq 0..n /\ 0 \in places /\ places # {}
  BY <1>1
<1>3. PICK place \in places : \A j \in places : j =< place
  <2> HIDE DEF places, n
  <2> QED
    BY <1>1, <1>2, GreatestElement
<1>4. Max(places) = place
  <2>1. places \subseteq Nat
    BY <1>1
  <2> HIDE DEF places
  <2> QED
    BY <1>3, <2>1, MaxIs
<1>5. place \in 0..n /\ (place = 0 \/ r[place] =< key) /\ \A j \in 1..n : r[j] =< key => j =< place
  BY <1>1, <1>3
<1> DEFINE a == SubSeq(r, 1, place)
           b == <<key>>
           c == SubSeq(r, place + 1, n)
<1>6. InsertSorted(r, key) = Through(a, b, c)
  <2>1. InsertSorted(r, key) = InsertAt(r, Max(places) + 1, key)
    BY DEF InsertSorted
  <2>2. Max(places) + 1 = place + 1 /\ (place + 1) - 1 = place
    BY <1>4, <1>5
  <2> HIDE DEF places
  <2>3. InsertSorted(r, key) = SubSeq(r, 1, (place + 1) - 1) \o <<key>> \o SubSeq(r, place + 1, Len(r))
    BY <2>1, <2>2 DEF InsertAt
  <2> QED
    BY <2>2, <2>3 DEF Through
<1> HIDE DEF places
<1>7. /\ a \in Seq(Int) /\ Len(a) = place /\ \A i \in 1..place : a[i] = r[i]
  <2>1. \A i \in 1..place : r[i] \in Int
    BY <1>1, <1>5
  <2>2. /\ a \in Seq(Int) /\ Len(a) = IF 1 =< place THEN place - 1 + 1 ELSE 0
        /\ \A i \in 1..(place - 1 + 1) : a[i] = r[1 + i - 1]
    BY <1>5, <2>1, SubSeqProperties
  <2> HIDE DEF a
  <2> QED
    BY <1>5, <2>2
<1>8. b \in Seq(Int) /\ Len(b) = 1 /\ b[1] = key
  OBVIOUS
<1>9. /\ c \in Seq(Int) /\ Len(c) = n - place /\ \A i \in 1..(n - place) : c[i] = r[place + i]
  <2>1. \A i \in (place + 1)..n : r[i] \in Int
    BY <1>1, <1>5
  <2>2. /\ c \in Seq(Int) /\ Len(c) = IF place + 1 =< n THEN n - (place + 1) + 1 ELSE 0
        /\ \A i \in 1..(n - (place + 1) + 1) : c[i] = r[(place + 1) + i - 1]
    BY <1>1, <1>5, <2>1, SubSeqProperties
  <2> HIDE DEF c, n
  <2>3. n - (place + 1) + 1 = n - place /\ (place + 1 =< n \/ n - place = 0)
    BY <1>1, <1>5
  <2>4. \A i \in 1..(n - place) : (place + 1) + i - 1 = place + i
    BY <1>1, <1>5
  <2> QED
    BY <2>2, <2>3, <2>4
<1> DEFINE w == InsertSorted(r, key)
<1>10. w \in Seq(Int) /\ Joins(w, a, b, c)
  <2> HIDE DEF a, b, c, n
  <2>1. a \o b \in Seq(Int) /\ (a \o b) \o c \in Seq(Int)
    BY <1>7, <1>8, <1>9, ConcatProperties
  <2>2. Joins(Through(a, b, c), a, b, c)
    BY <1>7, <1>8, <1>9, ThroughJoins
  <2> QED
    BY <1>6, <2>1, <2>2 DEF Through
<1> HIDE DEF a, b, c, w
<1>11. Len(w) = n + 1 /\ (\A i \in 1..place : w[i] = r[i]) /\ w[place + 1] = key
  <2>1. Len(w) = place + 1 + (n - place) /\ \A i \in 1..place : w[i] = a[i]
    BY <1>7, <1>8, <1>9, <1>10 DEF Joins
  <2>2. w[place + 1] = b[1]
    <3>1. 1 \in 1..Len(b)
      BY <1>8
    <3> QED
      BY <1>7, <1>10, <3>1 DEF Joins
  <2> HIDE DEF n
  <2> QED
    BY <1>1, <1>5, <1>7, <1>8, <2>1, <2>2
<1>12. ASSUME NEW i \in (place + 2)..(n + 1) PROVE w[i] = r[i - 1]
  <2> DEFINE j == i - place - 1
  <2>1. j \in 1..(n - place) /\ place + 1 + j = i /\ place + j = i - 1
    BY <1>1, <1>5, <1>12
  <2> HIDE DEF j, n
  <2>2. w[place + 1 + j] = c[j]
    BY <1>7, <1>8, <1>9, <1>10, <2>1 DEF Joins
  <2>3. c[j] = r[place + j]
    BY <1>9, <2>1
  <2> QED
    BY <2>1, <2>2, <2>3
<1> QED
  BY <1>5, <1>10, <1>11, <1>12 DEF w

LEMMA OrdersNext ==
    ASSUME NEW s \in Seq(Int), NEW k \in 0..(Len(s) - 1), NEW r, Orders(r, s, k)
    PROVE  Orders(InsertSorted(r, s[k + 1]), s, k + 1)
<1> DEFINE key == s[k + 1]
           w == InsertSorted(r, key)
<1>1. k \in Nat /\ key \in Int /\ r \in Seq(Int) /\ Len(r) = k /\ k + 1 \in 1..(k + 1)
  BY DEF Orders
<1> HIDE DEF key
<1>2. PICK place \in 0..k :
         /\ place = 0 \/ r[place] =< key
         /\ \A j \in 1..k : r[j] =< key => j =< place
         /\ w \in Seq(Int) /\ Len(w) = k + 1
         /\ \A i \in 1..place : w[i] = r[i]
         /\ w[place + 1] = key
         /\ \A i \in (place + 2)..(k + 1) : w[i] = r[i - 1]
  BY <1>1, Inserted
<1> HIDE DEF w
<1>3. \A i \in 1..(k + 1) :
         \/ i \in 1..place /\ i \in 1..k
         \/ i = place + 1
         \/ i \in (place + 2)..(k + 1) /\ i - 1 \in 1..k /\ i - 1 > place
  BY <1>1
<1>4. ASSUME NEW i \in 1..(k + 1) PROVE \E j \in 1..(k + 1) : w[i] = s[j]
  <2>1. ASSUME NEW h \in 1..k, w[i] = r[h] PROVE \E j \in 1..(k + 1) : w[i] = s[j]
    <3>1. PICK j \in 1..k : r[h] = s[j]
      BY DEF Orders
    <3>2. j \in 1..(k + 1)
      BY <1>1
    <3> QED
      BY <2>1, <3>1, <3>2
  <2>2. ASSUME w[i] = key PROVE \E j \in 1..(k + 1) : w[i] = s[j]
    BY <1>1, <2>2 DEF key
  <2> QED
    BY <1>2, <1>3, <2>1, <2>2
<1>5. ASSUME NEW v \in Int, NEW i \in 1..(k + 1)
      PROVE  w[i] =< v <=> i =< AtMost(s, k + 1, v)
  <2> DEFINE t == AtMost(s, k, v)
             u == AtMost(s, k + 1, v)
  <2>1. t \in 0..k /\ u = IF key =< v THEN t + 1 ELSE t
    BY <1>1, CountIsBounded, CountNext DEF key
  <2>2. \A h \in 1..k : (r[h] =< v <=> h =< t) /\ r[h] \in Int
    BY <1>1 DEF Orders
  <2> SUFFICES w[i] =< v <=> i =< u
    OBVIOUS
  <2> HIDE DEF t, u
  <2>3. CASE key =< v
    <3>1. place =< t
      <4>1. ASSUME place # 0 PROVE place =< t
        <5>1. place \in 1..k /\ r[place] =< v
          <6>1. place \in 1..k
            BY <1>1, <4>1
          <6>2. r[place] =< key /\ r[place] \in Int
            BY <1>2, <2>2, <4>1, <6>1
          <6> QED
            BY <1>1, <2>3, <6>1, <6>2
        <5> QED
          BY <2>2, <5>1
      <4> QED
        BY <2>1, <4>1
    <3>2. u = t + 1
      BY <2>1, <2>3
    <3>3. CASE i \in 1..place /\ i \in 1..k
      <4>1. w[i] = r[i] /\ i =< t
        BY <1>1, <1>2, <2>1, <3>1, <3>3
      <4> QED
        BY <2>1, <2>2, <3>2, <3>3, <4>1
    <3>4. CASE i = place + 1
      <4>1. w[i] = key /\ i =< t + 1
        BY <1>2, <2>1, <3>1, <3>4
      <4> QED
        BY <2>3, <3>2, <4>1
    <3>5. CASE i \in (place + 2)..(k + 1) /\ i - 1 \in 1..k
      <4>1. w[i] = r[i - 1] /\ (r[i - 1] =< v <=> i - 1 =< t)
        BY <1>2, <2>2, <3>5
      <4>2. i - 1 =< t <=> i =< t + 1
        BY <2>1
      <4> QED
        BY <3>2, <4>1, <4>2
    <3> QED
      BY <1>3, <3>3, <3>4, <3>5
  <2>4. CASE ~(key =< v)
    <3>1. t =< place
      <4>1. ASSUME t # 0 PROVE t =< place
        <5>1. t \in 1..k
          BY <2>1, <4>1
        <5>2. r[t] =< v /\ r[t] \in Int
          BY <2>2, <5>1
        <5>3. r[t] =< key
          BY <1>1, <2>4, <5>2
        <5> QED
          BY <1>2, <5>1, <5>3
      <4> QED
        BY <2>1, <4>1
    <3>2. u = t
      BY <2>1, <2>4
    <3>3. CASE i \in 1..place /\ i \in 1..k
      <4>1. w[i] = r[i]
        BY <1>2, <3>3
      <4> QED
        BY <2>2, <3>2, <3>3, <4>1
    <3>4. CASE i = place + 1
      <4>1. w[i] = key /\ ~(i =< t)
        BY <1>2, <2>1, <3>1, <3>4
      <4> QED
        BY <2>4, <3>2, <4>1
    <3>5. CASE i \in (place + 2)..(k + 1) /\ i - 1 \in 1..k
      <4>1. w[i] = r[i - 1] /\ (r[i - 1] =< v <=> i - 1 =< t)
        BY <1>2, <2>2, <3>5
      <4>2. ~(i - 1 =< t) /\ ~(i =< t)
        BY <1>1, <2>1, <3>1, <3>5
      <4> QED
        BY <3>2, <4>1, <4>2
    <3> QED
      BY <1>3, <3>3, <3>4, <3>5
  <2> QED
    BY <2>3, <2>4
<1>6. \A v \in Int : \A i \in 1..(k + 1) : w[i] =< v <=> i =< AtMost(s, k + 1, v)
  BY <1>5
<1>7. w \in Seq(Int) /\ Len(w) = k + 1
  BY <1>2
<1>8. Orders(w, s, k + 1)
  BY <1>4, <1>6, <1>7 DEF Orders
<1> QED
  BY <1>8 DEF w, key

\* What FoldLeft computes for the sort: over the last place first.
Sorting(iter, s) ==
    iter = [T \in SUBSET (DOMAIN s) |->
               IF T = {} THEN <<>> ELSE InsertSorted(iter[T \ {Max(T)}], s[Max(T)])]

LEMMA SortFolds ==
    ASSUME NEW s
    PROVE  SortSamples(s) = (CHOOSE iter : Sorting(iter, s))[DOMAIN s]
  BY DEF SortSamples, FoldLeft, MapThenFoldSet, Sorting

LEMMA SortExists ==
    ASSUME NEW n \in Nat, NEW s \in [1..n -> Int]
    PROVE  \E iter : Sorting(iter, s)
<1> DEFINE V == Seq(Int)
           insert == [p \in V \X Int |-> InsertSorted(p[1], p[2])]
           none == <<>>
<1>1. none \in V
  OBVIOUS
<1>2. \A r \in V, key \in Int : InsertSorted(r, key) \in V
  BY Inserted
<1>3. insert \in [V \X Int -> V]
  <2> HIDE DEF V
  <2> QED
    BY <1>2
<1>4. \A r \in V, key \in Int : insert[<<r, key>>] = InsertSorted(r, key)
  <2> HIDE DEF V
  <2> QED
    OBVIOUS
<1>5. PICK iter \in [SUBSET (1..n) -> V] : FoldsBy(iter, none, insert, n, s)
  <2> HIDE DEF V, insert, none
  <2>1. CanFold(Int, V, none, insert, n, s)
    BY <1>1, <1>3 DEF CanFold
  <2> QED
    BY <2>1, FoldExists, Zenon
<1>5a. \A T \in SUBSET (1..n) :
          /\ iter[T] = IF T = {} THEN none ELSE insert[<<iter[T \ {Max(T)}], s[Max(T)]>>]
          /\ T # {} => Max(T) \in 1..n /\ T \ {Max(T)} \in SUBSET (1..n)
  <2> HIDE DEF V, insert, none
  <2> QED
    BY <1>5 DEF FoldsBy
<1>6. ASSUME NEW T \in SUBSET (1..n)
      PROVE  iter[T] = IF T = {} THEN none ELSE InsertSorted(iter[T \ {Max(T)}], s[Max(T)])
  <2> HIDE DEF V, insert, none
  <2>1. CASE T = {}
    BY <1>5a, <2>1
  <2>2. CASE T # {}
    <3>1. iter[T] = insert[<<iter[T \ {Max(T)}], s[Max(T)]>>] /\ Max(T) \in 1..n
          /\ T \ {Max(T)} \in SUBSET (1..n)
      BY <1>5a, <2>2
    <3>2. iter[T \ {Max(T)}] \in V /\ s[Max(T)] \in Int
      BY <3>1
    <3>3. insert[<<iter[T \ {Max(T)}], s[Max(T)]>>] = InsertSorted(iter[T \ {Max(T)}], s[Max(T)])
      BY <1>4, <3>2
    <3> QED
      BY <2>2, <3>1, <3>3
  <2> QED
    BY <2>1, <2>2
<1>7. DOMAIN s = 1..n
  OBVIOUS
<1>8. iter = [T \in SUBSET (1..n) |->
                 IF T = {} THEN none ELSE InsertSorted(iter[T \ {Max(T)}], s[Max(T)])]
  <2> HIDE DEF V, none
  <2> QED
    BY <1>6
<1> QED
  BY <1>7, <1>8 DEF Sorting

\* The insertion sort of playback_scheduler.c sorts, for any samples.
LEMMA SampleSort ==
    ASSUME NEW s \in Seq(Int)
    PROVE  Orders(SortSamples(s), s, Len(s))
<1> DEFINE n == Len(s)
           iter == CHOOSE g : Sorting(g, s)
<1>1. n \in Nat /\ s \in [1..n -> Int] /\ DOMAIN s = 1..n
  OBVIOUS
<1>2. Sorting(iter, s)
  <2> HIDE DEF n
  <2>1. \E g : Sorting(g, s)
    BY <1>1, SortExists
  <2> QED
    BY <2>1
<1> HIDE DEF iter
<1>3. \A T \in SUBSET (1..n) :
         iter[T] = IF T = {} THEN <<>> ELSE InsertSorted(iter[T \ {Max(T)}], s[Max(T)])
  BY <1>1, <1>2 DEF Sorting
<1> DEFINE P == {k \in Nat : k =< n => Orders(iter[1..k], s, k)}
<1>4. 0 \in P
  <2>1. 1..0 = {} /\ {} \in SUBSET (1..n)
    OBVIOUS
  <2>2. iter[1..0] = <<>>
    BY <1>3, <2>1
  <2>3. <<>> \in Seq(Int) /\ Len(<<>>) = 0
    OBVIOUS
  <2>4. Orders(<<>>, s, 0)
    BY <2>3 DEF Orders
  <2> QED
    BY <2>2, <2>4
<1>5. ASSUME NEW k \in Nat, k \in P PROVE k + 1 \in P
  <2> SUFFICES ASSUME k + 1 =< n PROVE Orders(iter[1..(k + 1)], s, k + 1)
    OBVIOUS
  <2> DEFINE T == 1..(k + 1)
  <2>1. k \in 0..(n - 1)
    BY <1>1
  <2>2. T \in SUBSET (1..n) /\ T # {} /\ Max(T) = k + 1 /\ T \ {k + 1} = 1..k
    <3> HIDE DEF n
    <3> QED
      BY <1>1, <2>1, FirstPlaces
  <2>3. Orders(iter[1..k], s, k)
    BY <1>1, <1>5
  <2> HIDE DEF T
  <2>4. iter[T] = InsertSorted(iter[1..k], s[k + 1])
    <3> HIDE DEF n
    <3> QED
      BY <1>3, <2>2
  <2>5. Orders(InsertSorted(iter[1..k], s[k + 1]), s, k + 1)
    BY <2>1, <2>3, OrdersNext
  <2> QED
    BY <2>4, <2>5 DEF T
<1>6. Nat \subseteq P
  <2> HIDE DEF P
  <2> QED
    BY <1>4, <1>5, SetInduction
<1>7. Orders(iter[1..n], s, n)
  BY <1>1, <1>6
<1>8. SortSamples(s) = iter[DOMAIN s]
  BY SortFolds DEF iter
<1> QED
  BY <1>1, <1>7, <1>8
-----------------------------------------------------------------------------
(* The sum that is told, one dispatch after the other. *)

Adding(iter, s) ==
    iter = [T \in SUBSET (DOMAIN s) |->
               IF T = {} THEN 0 ELSE iter[T \ {Max(T)}] + Clamp(s[Max(T)])]

LEMMA ClampFolds ==
    ASSUME NEW s
    PROVE  ClampedSum(s) = (CHOOSE iter : Adding(iter, s))[DOMAIN s]
  BY DEF ClampedSum, FoldLeft, MapThenFoldSet, Adding

LEMMA AddingExists ==
    ASSUME NEW n \in Nat, NEW s \in [1..n -> Int]
    PROVE  \E iter : Adding(iter, s)
<1> DEFINE V == Int
           add == [p \in V \X V |-> p[1] + Clamp(p[2])]
           none == 0
<1>1. none \in V /\ s \in [1..n -> V]
  OBVIOUS
<1>2. \A sum \in V, gap \in V : sum + Clamp(gap) \in V
  BY ClampIsInt
<1>3. add \in [V \X V -> V]
  <2> HIDE DEF V
  <2> QED
    BY <1>2
<1>4. \A sum \in V, gap \in V : add[<<sum, gap>>] = sum + Clamp(gap)
  <2> HIDE DEF V
  <2> QED
    OBVIOUS
<1>5. PICK iter \in [SUBSET (1..n) -> V] : FoldsBy(iter, none, add, n, s)
  <2> HIDE DEF V, add, none
  <2>1. CanFold(V, V, none, add, n, s)
    BY <1>1, <1>3 DEF CanFold
  <2> QED
    BY <2>1, FoldExists, Zenon
<1>6. \A T \in SUBSET (1..n) :
         /\ iter[T] = IF T = {} THEN none ELSE add[<<iter[T \ {Max(T)}], s[Max(T)]>>]
         /\ T # {} => Max(T) \in 1..n /\ T \ {Max(T)} \in SUBSET (1..n)
  <2> HIDE DEF V, add, none
  <2> QED
    BY <1>5 DEF FoldsBy
<1>7. ASSUME NEW T \in SUBSET (1..n)
      PROVE  iter[T] = IF T = {} THEN none ELSE iter[T \ {Max(T)}] + Clamp(s[Max(T)])
  <2> HIDE DEF V, add, none
  <2>1. CASE T = {}
    BY <1>6, <2>1
  <2>2. CASE T # {}
    <3>1. iter[T] = add[<<iter[T \ {Max(T)}], s[Max(T)]>>] /\ Max(T) \in 1..n
          /\ T \ {Max(T)} \in SUBSET (1..n)
      BY <1>6, <2>2
    <3>2. iter[T \ {Max(T)}] \in V /\ s[Max(T)] \in V
      BY <1>1, <3>1
    <3>3. add[<<iter[T \ {Max(T)}], s[Max(T)]>>] = iter[T \ {Max(T)}] + Clamp(s[Max(T)])
      BY <1>4, <3>2
    <3> QED
      BY <2>2, <3>1, <3>3
  <2> QED
    BY <2>1, <2>2
<1>8. DOMAIN s = 1..n
  OBVIOUS
<1>9. iter = [T \in SUBSET (1..n) |->
                 IF T = {} THEN none ELSE iter[T \ {Max(T)}] + Clamp(s[Max(T)])]
  <2> HIDE DEF V, none
  <2> QED
    BY <1>7
<1> QED
  BY <1>8, <1>9 DEF Adding

\* A sum is what its partial sums come to.
Sums(h, s) ==
    /\ h \in [0..Len(s) -> Int] /\ h[0] = 0
    /\ \A k \in 0..(Len(s) - 1) : h[k + 1] = h[k] + Clamp(s[k + 1])

LEMMA ClampedSumIs ==
    ASSUME NEW s \in Seq(Int), NEW h, Sums(h, s)
    PROVE  ClampedSum(s) = h[Len(s)]
<1> DEFINE n == Len(s)
           iter == CHOOSE g : Adding(g, s)
<1>1. n \in Nat /\ s \in [1..n -> Int] /\ DOMAIN s = 1..n
  OBVIOUS
<1>2. Adding(iter, s)
  <2> HIDE DEF n
  <2>1. \E g : Adding(g, s)
    BY <1>1, AddingExists
  <2> QED
    BY <2>1
<1> HIDE DEF iter
<1>3. \A T \in SUBSET (1..n) :
         iter[T] = IF T = {} THEN 0 ELSE iter[T \ {Max(T)}] + Clamp(s[Max(T)])
  BY <1>1, <1>2 DEF Adding
<1> DEFINE P == {k \in Nat : k =< n => iter[1..k] = h[k]}
<1>4. 0 \in P
  <2>1. 1..0 = {} /\ {} \in SUBSET (1..n)
    OBVIOUS
  <2>2. iter[1..0] = 0
    BY <1>3, <2>1
  <2> QED
    BY <2>2 DEF Sums
<1>5. ASSUME NEW k \in Nat, k \in P PROVE k + 1 \in P
  <2> SUFFICES ASSUME k + 1 =< n PROVE iter[1..(k + 1)] = h[k + 1]
    OBVIOUS
  <2> DEFINE T == 1..(k + 1)
  <2>1. k \in 0..(n - 1)
    BY <1>1
  <2>2. T \in SUBSET (1..n) /\ T # {} /\ Max(T) = k + 1 /\ T \ {k + 1} = 1..k
    <3> HIDE DEF n
    <3> QED
      BY <1>1, <2>1, FirstPlaces
  <2>3. iter[1..k] = h[k] /\ h[k + 1] = h[k] + Clamp(s[k + 1])
    BY <1>1, <1>5, <2>1 DEF Sums
  <2> HIDE DEF T
  <2>4. iter[T] = iter[1..k] + Clamp(s[k + 1])
    <3> HIDE DEF n
    <3> QED
      BY <1>3, <2>2
  <2> QED
    BY <2>3, <2>4 DEF T
<1>6. Nat \subseteq P
  <2> HIDE DEF P
  <2> QED
    BY <1>4, <1>5, SetInduction
<1>7. iter[1..n] = h[n]
  BY <1>1, <1>6
<1>8. ClampedSum(s) = iter[DOMAIN s]
  BY ClampFolds DEF iter
<1> QED
  BY <1>1, <1>7, <1>8

LEMMA SumsExist == ASSUME NEW s \in Seq(Int) PROVE \E h : Sums(h, s)
<1> DEFINE n == Len(s)
           zero == 0
           at(m) == IF m + 1 \in 1..n THEN Clamp(s[m + 1]) ELSE 0
           step == [p \in Nat \X Int |-> p[2] + at(p[1])]
<1>1. n \in Nat /\ zero \in Int
  OBVIOUS
<1>2. \A m \in Nat : at(m) \in Int
  <2>1. ASSUME NEW m \in Nat, m + 1 \in 1..n PROVE Clamp(s[m + 1]) \in Int
    <3>1. s[m + 1] \in Int
      BY <2>1
    <3> QED
      BY <3>1, ClampIsInt
  <2> QED
    BY <2>1
<1>3. \A m \in 0..(n - 1) : at(m) = Clamp(s[m + 1]) /\ m \in Nat /\ m \in 0..n
  BY <1>1
<1> HIDE DEF at
<1>4. step \in [Nat \X Int -> Int] /\ \A m \in Nat, a \in Int : step[<<m, a>>] = a + at(m)
  BY <1>2
<1> HIDE DEF n, zero, step
<1>5. PICK h \in [0..n -> Int] : Computed(h, zero, step, n)
  BY <1>1, <1>4, RecursionExists
<1>6. h[0] = 0
  BY <1>5 DEF Computed, zero
<1>7. ASSUME NEW m \in 0..(n - 1) PROVE h[m + 1] = h[m] + Clamp(s[m + 1])
  <2>1. h[m + 1] = step[<<m, h[m]>>]
    BY <1>5 DEF Computed
  <2>2. h[m] \in Int
    BY <1>3, <1>5
  <2>3. step[<<m, h[m]>>] = h[m] + at(m)
    BY <1>3, <1>4, <2>2
  <2> QED
    BY <1>3, <2>1, <2>3
<1> QED
  BY <1>5, <1>6, <1>7 DEF Sums, n

\* One dispatch more.
LEMMA SumNext ==
    ASSUME NEW s \in Seq(Int), NEW gap \in Int
    PROVE  /\ ClampedSum(s) \in Int
           /\ ClampedSum(Append(s, gap)) = ClampedSum(s) + Clamp(gap)
<1> DEFINE n == Len(s)
           t == Append(s, gap)
<1>1. n \in Nat /\ t \in Seq(Int) /\ Len(t) = n + 1 /\ t[n + 1] = gap /\ \A i \in 1..n : t[i] = s[i]
  OBVIOUS
<1>2. PICK h : Sums(h, t)
  <2> HIDE DEF t
  <2> QED
    BY <1>1, SumsExist
<1> HIDE DEF t
<1>3. /\ h \in [0..(n + 1) -> Int] /\ h[0] = 0
      /\ \A k \in 0..n : h[k + 1] = h[k] + Clamp(t[k + 1])
  <2>1. n + 1 - 1 = n
    BY <1>1
  <2> HIDE DEF n
  <2> QED
    BY <1>1, <1>2, <2>1 DEF Sums
<1> DEFINE f == [k \in 0..n |-> h[k]]
<1>4. Sums(f, s)
  <2>1. \A k \in 0..n : k \in 0..(n + 1)
    BY <1>1
  <2>2. f \in [0..n -> Int] /\ f[0] = 0
    BY <1>1, <1>3, <2>1
  <2>3. ASSUME NEW k \in 0..(n - 1) PROVE f[k + 1] = f[k] + Clamp(s[k + 1])
    <3>1. k \in 0..n /\ k + 1 \in 0..n /\ k + 1 \in 1..n
      BY <1>1
    <3>2. h[k + 1] = h[k] + Clamp(t[k + 1]) /\ t[k + 1] = s[k + 1]
      BY <1>1, <1>3, <3>1
    <3> QED
      BY <3>1, <3>2
  <2> HIDE DEF f
  <2> QED
    BY <2>2, <2>3 DEF Sums
<1>5. f[n] = h[n] /\ h[n] \in Int
  BY <1>1, <1>3
<1> HIDE DEF f
<1>6. ClampedSum(s) = h[n]
  BY <1>4, <1>5, ClampedSumIs
<1>7. ClampedSum(t) = h[n + 1]
  BY <1>1, <1>2, ClampedSumIs
<1>8. h[n + 1] = h[n] + Clamp(gap)
  BY <1>1, <1>3
<1> QED
  BY <1>5, <1>6, <1>7, <1>8 DEF t

LEMMA SumOfNone == ClampedSum(<<>>) = 0
<1> DEFINE h == [k \in 0..0 |-> 0]
           none == <<>>
<1>1. none \in Seq(Int) /\ Len(none) = 0 /\ h \in [0..0 -> Int] /\ h[0] = 0
  OBVIOUS
<1> HIDE DEF h, none
<1>2. Sums(h, none)
  BY <1>1 DEF Sums
<1>3. ClampedSum(none) = h[Len(none)]
  BY <1>1, <1>2, ClampedSumIs
<1> QED
  BY <1>1, <1>3 DEF none
-----------------------------------------------------------------------------
(* The metrics of a run. *)

LEMMA LeastIs ==
    ASSUME NEW T, T \subseteq Int, NEW m \in T, \A x \in T : m =< x
    PROVE  Min(T) = m
<1>1. \A y \in T : (\A x \in T : y =< x) => y = m
  OBVIOUS
<1> QED
  BY <1>1 DEF Min

LEMMA GreatestIs ==
    ASSUME NEW T, T \subseteq Int, NEW m \in T, \A x \in T : x =< m
    PROVE  Max(T) = m
<1>1. \A x \in T : m >= x
  OBVIOUS
<1>2. \A y \in T : (\A x \in T : y >= x) => y = m
  OBVIOUS
<1> QED
  BY <1>1, <1>2 DEF Max

LEMMA LessOfTwo ==
    ASSUME NEW a \in Int, NEW b \in Int
    PROVE  Min({a, b}) = IF a =< b THEN a ELSE b
<1> DEFINE T == {a, b}
           m == IF a =< b THEN a ELSE b
<1>1. T \subseteq Int /\ m \in T /\ \A x \in T : m =< x
  OBVIOUS
<1> HIDE DEF T, m
<1>2. Min(T) = m
  BY <1>1, LeastIs
<1> QED
  BY <1>2 DEF T, m

Lateness == MinInt..MaxInt

\* Two of the samples are the least and the greatest one.
Extremes(low, high, s) ==
    /\ \E i \in 1..Len(s) : low = Clamp(s[i])
    /\ \E i \in 1..Len(s) : high = Clamp(s[i])
    /\ \A i \in 1..Len(s) : low =< Clamp(s[i]) /\ Clamp(s[i]) =< high

\* What the log holds of the run so far.
LogInv ==
    /\ count =< Len(gaps)
    /\ count < MaxSamples => count = Len(gaps)
    /\ truncated = (Len(gaps) > MaxSamples)
    /\ measuring => \A i \in 1..count : samples[i] = Clamp(gaps[i])

\* What the totals hold of it.
TotalsInv ==
    /\ totals.dispatched = Len(gaps)
    /\ totals.sum = ClampedSum(gaps)
    /\ gaps # <<>> => Extremes(totals.min, totals.max, gaps)

MetricsTypes ==
    /\ measuring \in BOOLEAN /\ runCount \in 0..MaxRuns
    /\ gaps \in Seq(Gaps) /\ count \in 0..MaxSamples
    /\ samples \in [1..MaxSamples -> Lateness]
    /\ totals \in [dispatched : Nat, min : Lateness, max : Lateness, sum : Int]

DescribesRun == TotalsDescribeRun /\ PercentilesAreNearestRank /\ StallIsNotHidden

MetricsInv == MetricsTypes /\ LogInv /\ TotalsInv /\ DescribesRun

LEMMA LatenessIsInt == \A v \in Lateness : v \in Int /\ MinInt =< v /\ v =< MaxInt
  BY MetricsAssumption DEF Lateness, MinInt

LEMMA GapsAreInt ==
    ASSUME MetricsTypes
    PROVE  /\ gaps \in Seq(Int) /\ Len(gaps) \in Nat /\ DOMAIN gaps = 1..Len(gaps)
           /\ \A i \in 1..Len(gaps) : gaps[i] \in Int /\ Clamp(gaps[i]) \in Int /\ Clamp(gaps[i]) \in Lateness
<1>1. gaps \in Seq(Gaps) /\ Gaps \subseteq Int
  BY MetricsAssumption DEF MetricsTypes
<1>2. /\ Len(gaps) \in Nat /\ gaps \in [1..Len(gaps) -> Gaps]
      /\ DOMAIN gaps = 1..Len(gaps)
  BY <1>1, LenProperties
<1>3. \A i \in 1..Len(gaps) : gaps[i] \in Int
  BY <1>1, <1>2
<1>4. gaps \in [1..Len(gaps) -> Int]
  BY <1>2, <1>3
<1>5. gaps \in Seq(Int)
  BY <1>2, <1>4, SeqDef
<1> QED
  BY <1>2, <1>3, <1>5, ClampIsInt DEF Lateness

LEMMA LatenessesAre ==
    ASSUME MetricsTypes
    PROVE  /\ Latenesses \subseteq Int
           /\ \A v : v \in Latenesses <=> \E i \in 1..Len(gaps) : v = Clamp(gaps[i])
  BY GapsAreInt DEF Latenesses

\* The samples that a percentile is of, and how many a value is not below.
LEMMA RetainedIs ==
    ASSUME MetricsTypes, LogInv
    PROVE  /\ Len(Retained) = count /\ DOMAIN Retained = 1..count
           /\ \A i \in 1..count : Retained[i] = gaps[i] /\ i \in 1..Len(gaps)
<1>1. count \in Nat /\ count \in 0..MaxSamples /\ MaxSamples \in Nat /\ count =< Len(gaps)
  BY MetricsAssumption DEF MetricsTypes, LogInv
<1>2. Min({Len(gaps), MaxSamples}) = count
  <2>1. Len(gaps) \in Nat
    BY GapsAreInt
  <2>2. Min({Len(gaps), MaxSamples}) = IF Len(gaps) =< MaxSamples THEN Len(gaps) ELSE MaxSamples
    BY <1>1, <2>1, LessOfTwo
  <2>3. count < MaxSamples => count = Len(gaps)
    BY DEF LogInv
  <2> QED
    BY <1>1, <2>1, <2>2, <2>3
<1>3. Retained = SubSeq(gaps, 1, count)
  BY <1>2 DEF Retained
<1>4. \A i \in 1..count : gaps[i] \in Int /\ i \in 1..Len(gaps)
  BY <1>1, GapsAreInt
<1> DEFINE w == SubSeq(gaps, 1, count)
<1>5. /\ w \in Seq(Int) /\ Len(w) = IF 1 =< count THEN count - 1 + 1 ELSE 0
      /\ \A i \in 1..(count - 1 + 1) : w[i] = gaps[1 + i - 1]
  BY <1>1, <1>4, SubSeqProperties
<1> HIDE DEF w
<1>6. Len(w) = count /\ DOMAIN w = 1..count /\ \A i \in 1..count : w[i] = gaps[i]
  BY <1>1, <1>5
<1> QED
  BY <1>3, <1>4, <1>6 DEF w

NearestRank(p) == Min({v \in Latenesses : 100 * NotAbove(v) >= p * Len(Retained)})

\* The percentile of the sorted samples is the nearest rank, said without
\* sorting.
LEMMA PercentileIs ==
    ASSUME MetricsTypes, LogInv, gaps # <<>>, NEW p \in Percents,
           NEW s \in Seq(Int), Len(s) = count, \A i \in 1..count : s[i] = Clamp(gaps[i]),
           NEW r, Orders(r, s, count)
    PROVE  Percentile(r, count, p) \in Lateness /\ Percentile(r, count, p) = NearestRank(p)
<1>1. count \in Nat \ {0} /\ p \in 1..100
  <2>1. Len(gaps) > 0 /\ Len(gaps) \in Nat
    BY EmptySeq, GapsAreInt
  <2> QED
    BY <2>1, MetricsAssumption DEF MetricsTypes, LogInv
<1> DEFINE rank == Rank(p, count)
           value == r[rank]
<1>2. rank \in 1..count /\ 100 * rank >= p * count /\ 100 * (rank - 1) < p * count
  BY <1>1, RankIsNearest
<1>3. Percentile(r, count, p) = value
  BY <1>1 DEF Percentile
<1> HIDE DEF rank
<1>4. \A v \in Int : AtMost(s, count, v) \in Nat /\ NotAbove(v) = AtMost(s, count, v)
  <2> SUFFICES ASSUME NEW v \in Int PROVE AtMost(s, count, v) \in Nat /\ NotAbove(v) = AtMost(s, count, v)
    OBVIOUS
  <2>1. {i \in DOMAIN Retained : Clamp(Retained[i]) =< v} = {i \in 1..count : s[i] =< v}
    BY RetainedIs
  <2>2. AtMost(s, count, v) \in Nat
    BY <1>1, CountIsBounded
  <2> QED
    BY <2>1, <2>2 DEF NotAbove, AtMost
<1>5. PICK j \in 1..count : value = Clamp(gaps[j])
  BY <1>2 DEF Orders
<1>6. value \in Latenesses /\ value \in Int /\ value \in Lateness
  <2>1. j \in 1..Len(gaps)
    BY RetainedIs
  <2> QED
    BY <1>5, <2>1, GapsAreInt, LatenessesAre
<1>7. \A v \in Int : value =< v <=> rank =< AtMost(s, count, v)
  BY <1>2 DEF Orders
<1> HIDE DEF value
<1> DEFINE T == {v \in Latenesses : 100 * NotAbove(v) >= p * Len(Retained)}
           share == p * count
<1>8. share \in Int /\ p * Len(Retained) = share /\ 100 * rank >= share /\ 100 * (rank - 1) < share
  BY <1>1, <1>2, RetainedIs
<1> HIDE DEF share
<1>9. value \in T
  <2>1. rank =< AtMost(s, count, value)
    BY <1>6, <1>7
  <2>2. AtMost(s, count, value) \in Nat /\ NotAbove(value) = AtMost(s, count, value)
    BY <1>4, <1>6
  <2> DEFINE low == AtMost(s, count, value)
  <2> HIDE DEF low
  <2>3. \A m \in Nat : rank =< m => 100 * m >= share
    BY <1>2, <1>8
  <2>4. 100 * NotAbove(value) >= share
    BY <2>1, <2>2, <2>3
  <2> QED
    BY <1>6, <1>8, <2>4
<1>10. ASSUME NEW v \in T PROVE value =< v
  <2>1. v \in Int /\ 100 * NotAbove(v) >= share
    BY <1>8, LatenessesAre
  <2>2. 100 * AtMost(s, count, v) >= share /\ AtMost(s, count, v) \in Nat
    BY <1>4, <2>1
  <2>3. rank =< AtMost(s, count, v)
    BY <1>2, <1>8, <2>2
  <2> QED
    BY <1>7, <2>1, <2>3
<1>11. T \subseteq Int
  BY LatenessesAre
<1> HIDE DEF T
<1>12. Min(T) = value
  BY <1>9, <1>10, <1>11, LeastIs
<1> QED
  BY <1>3, <1>6, <1>12 DEF NearestRank, T

\* Nothing is said of a run that is being measured.
LEMMA UntoldDescribes == ~Told => DescribesRun
  BY DEF DescribesRun, TotalsDescribeRun, PercentilesAreNearestRank, StallIsNotHidden

LEMMA NothingLogged ==
    0 =< 0 /\ (0 > MaxSamples) = FALSE /\ \A i \in 1..0 : FALSE
  BY MetricsAssumption

LEMMA MetricsAtInit == MetricsInit => MetricsInv
<1> SUFFICES ASSUME MetricsInit PROVE MetricsInv
  OBVIOUS
<1>1. gaps = <<>> /\ Len(gaps) = 0 /\ gaps \in Seq(Gaps)
  BY EmptySeq DEF MetricsInit
<1>2. 0 \in Lateness /\ MaxSamples \in Nat /\ MaxRuns \in Nat
  BY MetricsAssumption DEF Lateness, MinInt
<1>3. MetricsTypes
  <2>1. totals \in [dispatched : Nat, min : Lateness, max : Lateness, sum : Int]
    BY <1>2 DEF MetricsInit, NoTotals
  <2>2. samples \in [1..MaxSamples -> Lateness]
    BY <1>2 DEF MetricsInit
  <2>3. 0 \in 0..MaxRuns /\ 0 \in 0..MaxSamples
    BY <1>2
  <2>4. runCount \in 0..MaxRuns /\ count \in 0..MaxSamples
    BY <2>3 DEF MetricsInit
  <2>5. measuring \in BOOLEAN
    BY DEF MetricsInit
  <2> QED
    BY <1>1, <2>1, <2>2, <2>4, <2>5 DEF MetricsTypes
<1>4. LogInv
  BY <1>1, <1>2, NothingLogged DEF MetricsInit, LogInv
<1>5. TotalsInv
  BY <1>1, SumOfNone DEF MetricsInit, TotalsInv, NoTotals
<1>6. ~Told
  BY DEF MetricsInit, Told
<1> QED
  BY <1>3, <1>4, <1>5, <1>6, UntoldDescribes DEF MetricsInv

LEMMA RunStarts == MetricsInv /\ StartRun => MetricsInv'
<1> SUFFICES ASSUME MetricsInv, StartRun PROVE MetricsInv'
  OBVIOUS
<1>1. /\ measuring' = TRUE /\ totals' = NoTotals /\ count' = 0 /\ truncated' = FALSE
      /\ gaps' = <<>> /\ runCount' = runCount + 1 /\ runCount < MaxRuns /\ samples' = samples
  BY DEF StartRun, FreshTruncated
<1>2. gaps' \in Seq(Gaps) /\ Len(gaps') = 0
  BY <1>1, EmptySeq
<1>3. 0 \in Lateness /\ MaxSamples \in Nat \ {0} /\ MaxRuns \in Nat
  BY MetricsAssumption DEF Lateness, MinInt
<1>4. MetricsTypes'
  BY <1>1, <1>2, <1>3 DEF MetricsInv, MetricsTypes, NoTotals
<1>5. LogInv'
  BY <1>1, <1>2, NothingLogged DEF LogInv
<1>6. TotalsInv'
  BY <1>1, <1>2, SumOfNone DEF TotalsInv, NoTotals
<1>7. DescribesRun'
  BY <1>1 DEF Told, DescribesRun, TotalsDescribeRun, PercentilesAreNearestRank, StallIsNotHidden
<1> QED
  BY <1>4, <1>5, <1>6, <1>7 DEF MetricsInv

\* One sample more in the log, or one more beyond it.
LEMMA SampleIsKept ==
    ASSUME MetricsInv, NEW gap \in Gaps, measuring' = measuring,
           RecordLateness(Clamp(gap)), gaps' = Append(gaps, gap)
    PROVE  /\ count' \in 0..MaxSamples /\ samples' \in [1..MaxSamples -> Lateness]
           /\ LogInv'
<1> DEFINE n == Len(gaps)
           new == Clamp(gap)
<1>1. /\ n \in Nat /\ MaxSamples \in Nat \ {0} /\ count \in 0..MaxSamples
      /\ samples \in [1..MaxSamples -> Lateness] /\ gaps \in Seq(Int)
  BY GapsAreInt, MetricsAssumption DEF MetricsInv, MetricsTypes
<1>2. gap \in Int /\ new \in Lateness
  BY ClampIsInt, MetricsAssumption DEF Lateness
<1>3. /\ Len(gaps') = n + 1 /\ gaps'[n + 1] = gap
      /\ \A i \in 1..n : gaps'[i] = gaps[i]
  BY <1>1, <1>2, AppendProperties
<1>4. /\ count =< n
      /\ count < MaxSamples => count = n
      /\ truncated = (n > MaxSamples)
      /\ measuring => \A i \in 1..count : samples[i] = Clamp(gaps[i])
  BY DEF MetricsInv, LogInv
<1> HIDE DEF n, new
<1>5. CASE count < MaxSamples
  <2>1. /\ samples' = [samples EXCEPT ![count + 1] = new]
        /\ count' = count + 1 /\ truncated' = truncated
    BY <1>5 DEF RecordLateness, Room, new
  <2>2. count = n /\ count + 1 \in 1..MaxSamples
    BY <1>1, <1>4, <1>5
  <2>3. samples' \in [1..MaxSamples -> Lateness] /\ samples'[count + 1] = new
    BY <1>1, <1>2, <2>1, <2>2
  <2>4. \A i \in 1..count : samples'[i] = samples[i] /\ gaps'[i] = gaps[i]
    BY <1>1, <1>3, <2>1, <2>2
  <2>5. ASSUME measuring', NEW i \in 1..count' PROVE samples'[i] = Clamp(gaps'[i])
    <3>1. CASE i = count + 1
      BY <1>3, <2>2, <2>3, <3>1 DEF new
    <3>2. CASE i # count + 1
      <4>1. i \in 1..count
        BY <1>1, <2>1, <3>2
      <4> QED
        BY <1>4, <2>4, <2>5, <4>1
    <3> QED
      BY <3>1, <3>2
  <2>6. truncated' = (n + 1 > MaxSamples)
    BY <1>1, <1>4, <1>5, <2>1, <2>2
  <2>7. count' \in 0..MaxSamples /\ count' = n + 1
    BY <1>1, <2>1, <2>2
  <2>8. count' =< Len(gaps') /\ (count' < MaxSamples => count' = Len(gaps'))
    BY <1>1, <1>3, <2>7
  <2>9. truncated' = (Len(gaps') > MaxSamples)
    BY <1>3, <2>6
  <2>10. LogInv'
    BY <2>5, <2>8, <2>9 DEF LogInv
  <2> QED
    BY <2>3, <2>7, <2>10
<1>6. CASE ~(count < MaxSamples)
  <2>1. samples' = samples /\ count' = count /\ truncated' = TRUE
    BY <1>6 DEF RecordLateness, Room
  <2>2. count = MaxSamples /\ n >= MaxSamples
    BY <1>1, <1>4, <1>6
  <2>3. \A i \in 1..count : i \in 1..n
    BY <1>1, <1>4
  <2>4. measuring' => \A i \in 1..count' : samples'[i] = Clamp(gaps'[i])
    BY <1>3, <1>4, <2>1, <2>3
  <2>5. (n + 1 > MaxSamples) = TRUE /\ count' =< n + 1 /\ ~(count' < MaxSamples)
    BY <1>1, <2>1, <2>2
  <2>6. count' =< Len(gaps') /\ (count' < MaxSamples => count' = Len(gaps'))
    BY <1>3, <2>5
  <2>7. truncated' = (Len(gaps') > MaxSamples)
    BY <1>3, <2>1, <2>5
  <2>8. LogInv'
    BY <2>4, <2>6, <2>7 DEF LogInv
  <2> QED
    BY <1>1, <2>1, <2>8
<1> QED
  BY <1>5, <1>6

\* The totals count every dispatch, also those beyond the log.
LEMMA TotalsAreKept ==
    ASSUME MetricsInv, NEW gap \in Gaps,
           RecordLateness(Clamp(gap)), gaps' = Append(gaps, gap)
    PROVE  /\ totals' \in [dispatched : Nat, min : Lateness, max : Lateness, sum : Int]
           /\ TotalsInv'
<1> DEFINE n == Len(gaps)
           new == Clamp(gap)
<1>1. /\ n \in Nat /\ gaps \in Seq(Int) /\ \A i \in 1..n : Clamp(gaps[i]) \in Int
      /\ totals \in [dispatched : Nat, min : Lateness, max : Lateness, sum : Int]
  BY GapsAreInt DEF MetricsInv, MetricsTypes
<1>2. gap \in Int /\ new \in Lateness /\ new \in Int
  BY ClampIsInt, MetricsAssumption DEF Lateness
<1>3. /\ Len(gaps') = n + 1 /\ gaps'[n + 1] = gap
      /\ \A i \in 1..n : gaps'[i] = gaps[i]
  BY <1>1, <1>2, AppendProperties
<1>4. /\ totals.dispatched = n /\ totals.sum = ClampedSum(gaps)
      /\ n # 0 => Extremes(totals.min, totals.max, gaps)
  <2>1. n # 0 => gaps # <<>>
    BY EmptySeq
  <2> QED
    BY <2>1 DEF MetricsInv, TotalsInv
<1>5. ClampedSum(gaps) \in Int /\ ClampedSum(gaps') = ClampedSum(gaps) + new
  BY <1>1, <1>2, SumNext
<1> DEFINE low == IF n = 0 \/ new < totals.min THEN new ELSE totals.min
           high == IF n = 0 \/ new > totals.max THEN new ELSE totals.max
<1>6. totals' = [dispatched |-> n + 1, min |-> low, max |-> high, sum |-> totals.sum + new]
  BY <1>4 DEF RecordLateness, FirstSample
<1>7. /\ totals.min \in Lateness /\ totals.max \in Lateness
      /\ totals.min \in Int /\ totals.max \in Int
  BY <1>1, LatenessIsInt
<1>8. low \in Lateness /\ high \in Lateness
  BY <1>2, <1>7
<1>9. Clamp(gaps'[n + 1]) = new /\ n + 1 \in 1..Len(gaps')
  BY <1>1, <1>3
<1> HIDE DEF n, new
<1>10. \A i \in 1..n : Clamp(gaps'[i]) = Clamp(gaps[i]) /\ Clamp(gaps[i]) \in Int /\ i \in 1..Len(gaps')
  BY <1>1, <1>3
<1>11. Extremes(low, high, gaps')
  <2>1. CASE n = 0
    <3>1. low = new /\ high = new /\ \A i \in 1..Len(gaps') : i = n + 1
      BY <1>3, <2>1
    <3> QED
      BY <1>2, <1>9, <3>1 DEF Extremes
  <2>2. CASE n # 0
    <3>1. PICK a \in 1..n : totals.min = Clamp(gaps[a])
      BY <1>4, <2>2 DEF Extremes, n
    <3>2. PICK b \in 1..n : totals.max = Clamp(gaps[b])
      BY <1>4, <2>2 DEF Extremes, n
    <3>3. \A i \in 1..n : totals.min =< Clamp(gaps[i]) /\ Clamp(gaps[i]) =< totals.max
      BY <1>4, <2>2 DEF Extremes, n
    <3>4. \E i \in 1..Len(gaps') : low = Clamp(gaps'[i])
      BY <1>9, <1>10, <2>2, <3>1
    <3>5. \E i \in 1..Len(gaps') : high = Clamp(gaps'[i])
      BY <1>9, <1>10, <2>2, <3>2
    <3>6. low =< totals.min /\ low =< new /\ totals.max =< high /\ new =< high
      BY <1>2, <1>7, <2>2
    <3>7. low \in Int /\ high \in Int
      BY <1>8, LatenessIsInt
    <3> HIDE DEF low, high
    <3>8. ASSUME NEW i \in 1..Len(gaps')
          PROVE  low =< Clamp(gaps'[i]) /\ Clamp(gaps'[i]) =< high
      <4>1. CASE i = n + 1
        BY <1>9, <3>6, <4>1
      <4>2. CASE i # n + 1
        <5>1. i \in 1..n
          BY <1>1, <1>3, <4>2
        <5>2. Clamp(gaps'[i]) = Clamp(gaps[i]) /\ Clamp(gaps[i]) \in Int
          BY <1>10, <5>1
        <5>3. totals.min =< Clamp(gaps[i]) /\ Clamp(gaps[i]) =< totals.max
          BY <3>3, <5>1
        <5> QED
          BY <1>7, <3>6, <3>7, <5>2, <5>3
      <4> QED
        BY <4>1, <4>2
    <3> QED
      BY <3>4, <3>5, <3>8 DEF Extremes
  <2> QED
    BY <2>1, <2>2
<1> HIDE DEF low, high
<1>12. totals.sum \in Int /\ totals.sum + new \in Int /\ n + 1 \in Nat
  BY <1>1, <1>2
<1>13. totals' \in [dispatched : Nat, min : Lateness, max : Lateness, sum : Int]
  BY <1>6, <1>8, <1>12
<1>14. /\ totals'.dispatched = n + 1 /\ totals'.sum = totals.sum + new
       /\ totals'.min = low /\ totals'.max = high
  BY <1>6
<1> QED
  BY <1>3, <1>4, <1>5, <1>11, <1>13, <1>14 DEF TotalsInv

LEMMA SampleIsTaken == MetricsInv /\ Dispatch => MetricsInv'
<1> SUFFICES ASSUME MetricsInv, Dispatch PROVE MetricsInv'
  OBVIOUS
<1>1. PICK gap \in Gaps : RecordLateness(Clamp(gap)) /\ gaps' = Append(gaps, gap)
  BY DEF Dispatch
<1>2. measuring /\ measuring' = measuring /\ runCount' = runCount
  BY DEF Dispatch
<1>3. gaps' \in Seq(Gaps)
  BY <1>1, AppendProperties DEF MetricsInv, MetricsTypes
<1>4. /\ count' \in 0..MaxSamples /\ samples' \in [1..MaxSamples -> Lateness]
      /\ LogInv'
  BY <1>1, <1>2, SampleIsKept
<1>5. /\ totals' \in [dispatched : Nat, min : Lateness, max : Lateness, sum : Int]
      /\ TotalsInv'
  BY <1>1, TotalsAreKept
<1>6. MetricsTypes'
  BY <1>2, <1>3, <1>4, <1>5 DEF MetricsInv, MetricsTypes
<1>7. DescribesRun'
  BY <1>2 DEF Told, DescribesRun, TotalsDescribeRun, PercentilesAreNearestRank, StallIsNotHidden
<1> QED
  BY <1>4, <1>5, <1>6, <1>7 DEF MetricsInv

\* finish() sorts what was logged, and only that.
LEMMA LogIsSorted ==
    ASSUME MetricsInv, Finish
    PROVE  LET log == SubSeq(samples, 1, count)
           IN  /\ log \in Seq(Int) /\ Len(log) = count
               /\ \A i \in 1..count : log[i] = Clamp(gaps[i])
               /\ Orders(SortSamples(log), log, count)
               /\ samples' \in [1..MaxSamples -> Lateness]
<1> DEFINE log == SubSeq(samples, 1, count)
           rest == SubSeq(samples, count + 1, MaxSamples)
           sorted == SortSamples(log)
<1>1. /\ MaxSamples \in Nat /\ count \in 0..MaxSamples /\ count \in Nat
      /\ samples \in [1..MaxSamples -> Lateness]
      /\ \A v \in Lateness : v \in Int
  BY MetricsAssumption, LatenessIsInt DEF MetricsInv, MetricsTypes
<1>2. \A i \in 1..count : samples[i] = Clamp(gaps[i])
  BY DEF MetricsInv, LogInv, Finish
<1>3. samples' = sorted \o rest
  BY DEF Finish
<1>4. /\ \A i \in 1..count : samples[i] \in Lateness
      /\ \A i \in (count + 1)..MaxSamples : samples[i] \in Lateness
  <2>1. \A i : i \in 1..count \/ i \in (count + 1)..MaxSamples => i \in 1..MaxSamples
    BY <1>1
  <2> HIDE DEF Lateness
  <2> QED
    BY <1>1, <2>1
<1>5. /\ log \in Seq(Lateness) /\ Len(log) = IF 1 =< count THEN count - 1 + 1 ELSE 0
      /\ \A i \in 1..(count - 1 + 1) : log[i] = samples[1 + i - 1]
  BY <1>1, <1>4, SubSeqProperties
<1>6. /\ rest \in Seq(Lateness)
      /\ Len(rest) = IF count + 1 =< MaxSamples THEN MaxSamples - (count + 1) + 1 ELSE 0
  <2>1. count + 1 \in Int /\ MaxSamples \in Int
    BY <1>1
  <2> QED
    BY <1>4, <2>1, SubSeqProperties
<1> HIDE DEF log, rest
<1>7. Len(log) = count /\ \A i \in 1..count : log[i] = samples[i]
  BY <1>1, <1>5
<1>8. log \in Seq(Int)
  BY <1>1, <1>5, SeqMonotonic
<1>9. Orders(sorted, log, count)
  BY <1>7, <1>8, SampleSort
<1> HIDE DEF sorted
<1>10. sorted \in Seq(Int) /\ Len(sorted) = count
  BY <1>9 DEF Orders
<1>11. \A i \in 1..count : sorted[i] \in Lateness
  <2>1. \A i \in 1..count : \E j \in 1..count : sorted[i] = log[j]
    BY <1>9 DEF Orders
  <2> QED
    BY <1>4, <1>7, <2>1
<1>12. sorted \in Seq(Lateness)
  <2>1. sorted \in [1..count -> Int]
    BY <1>10, LenProperties
  <2>2. sorted \in [1..count -> Lateness]
    BY <1>11, <2>1
  <2> QED
    BY <1>1, <2>2, SeqDef
<1>13. sorted \o rest \in Seq(Lateness) /\ Len(sorted \o rest) = Len(sorted) + Len(rest)
  BY <1>6, <1>12, ConcatProperties
<1>14. Len(sorted) + Len(rest) = MaxSamples
  BY <1>1, <1>6, <1>10
<1>15. samples' \in [1..MaxSamples -> Lateness]
  BY <1>3, <1>13, <1>14, LenProperties
<1> QED
  BY <1>2, <1>7, <1>8, <1>9, <1>15 DEF log, sorted

\* What is told of the totals is what the totals hold.
LEMMA TotalsAreTold ==
    ASSUME MetricsInv, Finish
    PROVE  TotalsDescribeRun' /\ StallIsNotHidden'
<1>1. gaps' = gaps /\ gaps \in Seq(Int) /\ DOMAIN gaps = 1..Len(gaps)
  BY GapsAreInt DEF Finish, MetricsInv
<1>2. /\ reported'.dispatched = totals.dispatched /\ reported'.truncated = truncated
      /\ reported'.min = AsRead(totals.min) /\ reported'.max = AsRead(totals.max)
      /\ reported'.sum = totals.sum
  BY DEF Finish
<1>3. totals.min \in Lateness /\ totals.max \in Lateness
  BY DEF MetricsInv, MetricsTypes
<1>4. reported'.min = totals.min /\ reported'.max = totals.max
  BY <1>2, <1>3, WireKeepsLateness DEF Lateness
<1>5. /\ totals.dispatched = Len(gaps) /\ totals.sum = ClampedSum(gaps)
      /\ gaps # <<>> => Extremes(totals.min, totals.max, gaps)
      /\ truncated = (Len(gaps) > MaxSamples)
  BY DEF MetricsInv, TotalsInv, LogInv
<1>6. /\ Latenesses \subseteq Int
      /\ \A v : v \in Latenesses <=> \E i \in 1..Len(gaps) : v = Clamp(gaps[i])
  BY LatenessesAre DEF MetricsInv
<1>7. Latenesses' = Latenesses
  BY <1>1 DEF Latenesses
<1>8. ASSUME gaps # <<>>
      PROVE  Min(Latenesses) = totals.min /\ Max(Latenesses) = totals.max
  <2>1. Extremes(totals.min, totals.max, gaps)
    BY <1>5, <1>8
  <2>2. /\ totals.min \in Latenesses /\ totals.max \in Latenesses
        /\ \A v \in Latenesses : totals.min =< v /\ v =< totals.max
    BY <1>6, <2>1 DEF Extremes
  <2> QED
    BY <1>6, <2>2, LeastIs, GreatestIs
<1>9. ASSUME NEW i \in 1..Len(gaps), gaps[i] > MaxInt PROVE reported'.max = MaxInt
  <2>1. gaps # <<>> /\ Clamp(gaps[i]) = MaxInt
    BY <1>1, <1>9 DEF Clamp
  <2>2. MaxInt =< totals.max
    BY <1>5, <2>1 DEF Extremes
  <2>3. totals.max \in Int /\ totals.max =< MaxInt /\ MaxInt \in Int
    BY <1>3, LatenessIsInt, MetricsAssumption
  <2> QED
    BY <1>4, <2>2, <2>3
<1>10. StallIsNotHidden'
  BY <1>1, <1>9 DEF StallIsNotHidden
<1>11. TotalsDescribeRun'
  BY <1>1, <1>2, <1>4, <1>5, <1>7, <1>8 DEF TotalsDescribeRun
<1> QED
  BY <1>10, <1>11

\* What is told of the percentiles is the nearest rank.
LEMMA PercentilesAreTold ==
    ASSUME MetricsInv, Finish
    PROVE  PercentilesAreNearestRank'
<1> DEFINE log == SubSeq(samples, 1, count)
           sorted == SortSamples(log)
<1>1. gaps' = gaps
  BY DEF Finish
<1>2. \A p \in Percents : reported'.percentile[p] = AsRead(Percentile(sorted, count, p))
  BY DEF Finish
<1>3. /\ log \in Seq(Int) /\ Len(log) = count
      /\ \A i \in 1..count : log[i] = Clamp(gaps[i])
      /\ Orders(sorted, log, count)
  BY LogIsSorted
<1> HIDE DEF sorted, log
<1>4. ASSUME gaps # <<>>, NEW p \in Percents
      PROVE  reported'.percentile[p] = NearestRank(p)
  <2>1. MetricsTypes /\ LogInv
    BY DEF MetricsInv
  <2>2. Percentile(sorted, count, p) \in Lateness /\ Percentile(sorted, count, p) = NearestRank(p)
    BY <1>3, <1>4, <2>1, PercentileIs
  <2> QED
    BY <1>2, <2>2, WireKeepsLateness DEF Lateness
<1>5. Retained' = Retained /\ Latenesses' = Latenesses
  BY <1>1 DEF Retained, Latenesses
<1>6. \A v : NotAbove(v)' = NotAbove(v)
  BY <1>5 DEF NotAbove
<1>7. \A p : NearestRank(p)' = NearestRank(p)
  BY <1>5, <1>6 DEF NearestRank
<1>8. gaps # <<>> => \A p \in Percents : reported'.percentile[p] = NearestRank(p)'
  BY <1>4, <1>7
<1> QED
  BY <1>1, <1>8 DEF PercentilesAreNearestRank, NearestRank

LEMMA RunIsTold == MetricsInv /\ Finish => MetricsInv'
<1> SUFFICES ASSUME MetricsInv, Finish PROVE MetricsInv'
  OBVIOUS
<1>1. /\ measuring' = FALSE /\ totals' = totals /\ count' = count
      /\ truncated' = truncated /\ gaps' = gaps /\ runCount' = runCount
  BY DEF Finish
<1>2. samples' \in [1..MaxSamples -> Lateness]
  BY LogIsSorted
<1>3. MetricsTypes'
  BY <1>1, <1>2 DEF MetricsInv, MetricsTypes
<1>4. LogInv'
  BY <1>1 DEF MetricsInv, LogInv
<1>5. TotalsInv'
  BY <1>1 DEF MetricsInv, TotalsInv
<1>6. DescribesRun'
  BY TotalsAreTold, PercentilesAreTold DEF DescribesRun
<1> QED
  BY <1>3, <1>4, <1>5, <1>6 DEF MetricsInv

LEMMA MetricsRest == MetricsInv /\ UNCHANGED metricsVars => MetricsInv'
<1> SUFFICES ASSUME MetricsInv, UNCHANGED metricsVars PROVE MetricsInv'
  OBVIOUS
<1>1. /\ measuring' = measuring /\ totals' = totals /\ samples' = samples
      /\ count' = count /\ truncated' = truncated /\ reported' = reported
      /\ gaps' = gaps /\ runCount' = runCount
  BY DEF metricsVars
<1>2. MetricsTypes'
  BY <1>1 DEF MetricsInv, MetricsTypes
<1>3. LogInv'
  BY <1>1 DEF MetricsInv, LogInv
<1>4. TotalsInv'
  BY <1>1 DEF MetricsInv, TotalsInv
<1>5. Told' = Told /\ Latenesses' = Latenesses /\ Retained' = Retained
  BY <1>1 DEF Told, Latenesses, Retained
<1>6. \A v : NotAbove(v)' = NotAbove(v)
  BY <1>5 DEF NotAbove
<1>7. TotalsDescribeRun' /\ StallIsNotHidden'
  BY <1>1, <1>5 DEF MetricsInv, DescribesRun, TotalsDescribeRun, StallIsNotHidden
<1>8. PercentilesAreNearestRank'
  BY <1>1, <1>5, <1>6 DEF MetricsInv, DescribesRun, PercentilesAreNearestRank
<1> QED
  BY <1>2, <1>3, <1>4, <1>7, <1>8 DEF MetricsInv, DescribesRun

\* The totals are those of every dispatch of the run and the log is that of
\* the first of them, in the order of their dispatch while the run lasts:
\* record_lateness and finish of playback_scheduler.c keep this for every log
\* size and every width of the lateness.
THEOREM MetricsInvariance == MetricsSpec => []MetricsInv
<1>1. MetricsInv /\ [MetricsNext]_metricsVars => MetricsInv'
  BY RunStarts, SampleIsTaken, RunIsTold, MetricsRest DEF MetricsNext
<1> QED
  BY <1>1, MetricsAtInit, PTL DEF MetricsSpec

\* PLAY_METRICS describes its run: count, extremes and sum are those of all
\* its dispatches, the percentiles the nearest ranks of those it logged, with
\* nothing in them of an earlier run, and no stall is told as a short one.
THEOREM MetricsDescribeRunAlways == MetricsSpec => []MetricsDescribeRun
<1>1. MetricsInv => MetricsDescribeRun
  <2> SUFFICES ASSUME MetricsInv PROVE MetricsDescribeRun
    OBVIOUS
  <2>1. MetricsTypes /\ totals.dispatched = Len(gaps)
    BY DEF MetricsInv, TotalsInv
  <2>2. MetricsTypeOK
    BY <2>1 DEF MetricsTypes, MetricsTypeOK, Lateness
  <2> QED
    BY <2>2 DEF MetricsInv, DescribesRun, MetricsDescribeRun
<1> QED
  BY <1>1, MetricsInvariance, PTL

=============================================================================
