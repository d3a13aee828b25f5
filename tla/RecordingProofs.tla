--------------------------- MODULE RecordingProofs ---------------------------
(***************************************************************************)
(* What MCRecording checks of a recording's way on small instances: the    *)
(* keyboards and the capture ring, for any interfaces and a ring of any    *)
(* size; sessions, for any number of keys, of retries, of troubles and of  *)
(* late answers; the times of a recording, for any length, clock and       *)
(* speed; and the store, for any number of names, recordings, failed       *)
(* writes and crashes.                                                     *)
(*                                                                         *)
(* The argument for the ring: the write index is always `count' places     *)
(* after the read index (RingInv), so the place a report is written to is  *)
(* none of those that are still to be read.                                *)
(*                                                                         *)
(* The argument for sessions follows a frame: deferred by the current      *)
(* wait, pending, or still on the wire.  Those three, one behind the       *)
(* other, are the Way.  Every step but a new frame leaves the Way, takes   *)
(* its head, or loses frames of it (Part), so that the reports in the      *)
(* builder and on the Way stay in the order of capture (Flow).  A session  *)
(* is left in PASS because the last request written is the last one        *)
(* handled.  On a link without trouble and late answers each stage knows   *)
(* exactly what is on the Way (InStage): one answer at most, and around it *)
(* every event captured since the session began.                           *)
(*                                                                         *)
(* The argument for the times: the deltas up to an event add up to its     *)
(* time after the first (DeltasAddUp), so an offset is one rounded         *)
(* quotient of that time, never a sum of rounded ones, and rounding moves  *)
(* a quotient by half a unit at most and keeps an order.                   *)
(*                                                                         *)
(* The argument for the store: a temporary file is whole once its save may *)
(* publish it (SavesInOrder); while a rename holds the lock its old file   *)
(* cannot go away, as a file is removed by delete and rename only, and     *)
(* never replaced; and the copy is there before the old file goes          *)
(* (CopyFirst).                                                            *)
(***************************************************************************)
EXTENDS KeyboardHost, RecordingLink, RecordingStore, Timeline, SequenceLemmas,
        FiniteSetTheorems

-----------------------------------------------------------------------------
(* KeyboardHost. *)

BusInv ==
    /\ mounted \in Keyboards \cup {Nobody}
    /\ mounted # Nobody => mounted \in plugged
    /\ requested \subseteq {mounted} /\ requested \subseteq Keyboards \cap plugged
    /\ silenced \subseteq Keyboards
    /\ mounted # Nobody /\ mounted \notin silenced => mounted \in requested

RingInv ==
    /\ ring \in [0..(Capacity - 1) -> Nat] /\ reports \in Nat
    /\ readIndex \in Nat /\ readIndex < Capacity
    /\ count \in Nat /\ count =< Capacity
    /\ writeIndex = (readIndex + count) % Capacity

HostInv == BusInv /\ RingInv

LEMMA CapacityIsPositive == Capacity \in Nat /\ Capacity > 0
  BY HostAssumption

\* Indices stay below twice the capacity, where % is at most one subtraction.
LEMMA Wraps ==
    ASSUME NEW n \in Nat, NEW c \in Nat, n < 2 * c
    PROVE  n % c = IF n < c THEN n ELSE n - c
<1>1. CASE n < c
  BY <1>1, Z3
<1>2. CASE n >= c
  <2> DEFINE rest == n - c
  <2>1. rest \in Nat /\ rest < c /\ n = c + rest
    BY <1>2
  <2> HIDE DEF rest
  <2>2. (c + rest) % c = rest
    BY <2>1, Z3
  <2> QED
    BY <1>2, <2>1, <2>2 DEF rest
<1> QED
  BY <1>1, <1>2

LEMMA HostInitially == HostInit => HostInv
<1> SUFFICES ASSUME HostInit PROVE HostInv
  OBVIOUS
<1>1. BusInv
  BY DEF HostInit, BusInv
<1>2. 0 % Capacity = 0
  BY CapacityIsPositive, Wraps
<1>3. RingInv
  BY <1>2, CapacityIsPositive DEF HostInit, RingInv
<1> QED
  BY <1>1, <1>3 DEF HostInv

-----------------------------------------------------------------------------
(* The bus. *)

LEMMA MountKeepsBus ==
    ASSUME BusInv, NEW k \in Interfaces, Mount(k)
    PROVE  BusInv'
<1> USE DEF BusInv
<1>1. k # Nobody /\ plugged' = plugged \cup {k}
  BY HostAssumption DEF Interfaces, Mount
<1>2. CASE ~MayMount(k)
  <2>1. UNCHANGED <<mounted, requested, silenced>>
    BY <1>2 DEF Mount
  <2> QED
    BY <1>1, <2>1
<1>3. CASE MayMount(k)
  <2>1. k \in Keyboards /\ requested \subseteq {k}
    <3>1. k \in Keyboards /\ (mounted = Nobody \/ mounted = k)
      BY <1>3 DEF MayMount
    <3>2. requested \subseteq {mounted} \cap Keyboards
      OBVIOUS
    <3>3. Nobody \notin Keyboards
      BY HostAssumption
    <3> QED
      BY <3>1, <3>2, <3>3
  <2>2. mounted' = k /\ RequestNext(k, requested)
    BY <1>3 DEF Mount
  <2>3. CASE requested' = requested \cup {k} /\ silenced' = silenced \ {k}
    BY <1>1, <2>1, <2>2, <2>3
  <2>4. CASE requested' = requested /\ silenced' = silenced \cup {k}
    BY <1>1, <2>1, <2>2, <2>4
  <2> QED
    BY <2>2, <2>3, <2>4 DEF RequestNext
<1> QED
  BY <1>2, <1>3

LEMMA UnmountKeepsBus ==
    ASSUME BusInv, NEW k \in Interfaces, Unmount(k)
    PROVE  BusInv'
  BY DEF Unmount, BusInv

LEMMA ReportKeepsBus ==
    ASSUME BusInv, NEW k \in Interfaces, NEW whole \in BOOLEAN, ReportReceived(k, whole)
    PROVE  BusInv'
<1>1. k \in requested /\ mounted = k /\ k \in Keyboards
  BY DEF ReportReceived, BusInv
<1>2. RequestNext(k, requested \ {k}) /\ UNCHANGED <<plugged, mounted>>
  BY <1>1 DEF ReportReceived, Rearms
<1> QED
  BY <1>1, <1>2 DEF RequestNext, BusInv

-----------------------------------------------------------------------------
(* The ring. *)

\* The place of the i-th report that waits, before and after it is wrapped.
At(i) == readIndex + i - 1

Place(i) == At(i) % Capacity

Wrapped(n) == IF n < Capacity THEN n ELSE n - Capacity

LEMMA WrapsHere ==
    ASSUME NEW n \in Nat, n < 2 * Capacity
    PROVE  n % Capacity = Wrapped(n) /\ Wrapped(n) \in 0..(Capacity - 1)
  BY CapacityIsPositive, Wraps DEF Wrapped

LEMMA PlaceOf ==
    ASSUME RingInv, NEW i \in 1..(count + 1)
    PROVE  At(i) \in Nat /\ Place(i) = Wrapped(At(i)) /\ Place(i) \in 0..(Capacity - 1)
<1>1. At(i) \in Nat /\ At(i) < 2 * Capacity
  BY CapacityIsPositive DEF RingInv, At
<1> QED
  BY <1>1, WrapsHere DEF Place

LEMMA WritePlace ==
    ASSUME RingInv
    PROVE  writeIndex = Place(count + 1)
<1>1. At(count + 1) = readIndex + count
  BY DEF RingInv, At
<1> QED
  BY <1>1 DEF RingInv, Place

LEMMA WriteInRange ==
    ASSUME RingInv
    PROVE  writeIndex \in 0..(Capacity - 1)
  BY PlaceOf, WritePlace DEF RingInv

\* No report that waits is where the next one is written.
LEMMA WritePlaceIsFree ==
    ASSUME RingInv, Room, NEW i \in 1..count
    PROVE  Place(i) # writeIndex
<1>1. Place(i) = Wrapped(At(i)) /\ writeIndex = Wrapped(At(count + 1))
  BY PlaceOf, WritePlace DEF RingInv
<1> QED
  BY <1>1, CapacityIsPositive DEF RingInv, Room, At, Wrapped

LEMMA RingBounds ==
    ASSUME RingInv
    PROVE  /\ readIndex \in Nat /\ readIndex < Capacity
           /\ count \in Nat /\ count =< Capacity
  BY DEF RingInv

LEMMA WrapOnce ==
    ASSUME NEW n \in Nat, n + 1 < 2 * Capacity
    PROVE  Wrapped(Wrapped(n) + 1) = Wrapped(n + 1)
  BY CapacityIsPositive DEF Wrapped

LEMMA WriteIndexWrapped ==
    ASSUME RingInv
    PROVE  writeIndex = Wrapped(readIndex + count) /\ readIndex + count \in Nat
<1>1. At(count + 1) = readIndex + count /\ count + 1 \in 1..(count + 1)
  BY RingBounds DEF At
<1> QED
  BY <1>1, PlaceOf, WritePlace

\* Primed or not, what a ring holds is a sequence.
LEMMA ReportsFrom ==
    ASSUME NEW slots \in [0..(Capacity - 1) -> Nat],
           NEW first \in 0..(Capacity - 1), NEW n \in 0..Capacity
    PROVE  LET s == [i \in 1..n |-> slots[(first + i - 1) % Capacity]]
           IN  s \in Seq(Nat) /\ Len(s) = n
<1>1. ASSUME NEW i \in 1..n PROVE slots[(first + i - 1) % Capacity] \in Nat
  <2>1. first + i - 1 \in Nat /\ first + i - 1 < 2 * Capacity
    BY CapacityIsPositive
  <2>2. (first + i - 1) % Capacity \in 0..(Capacity - 1)
    BY <2>1, WrapsHere
  <2> QED
    BY <2>2
<1> QED
  BY <1>1, CapacityIsPositive

LEMMA SequenceInRing ==
    ASSUME RingInv
    PROVE  /\ InRing \in Seq(Nat) /\ Len(InRing) = count
           /\ \A i \in 1..count : InRing[i] = ring[Place(i)]
<1>1. readIndex \in 0..(Capacity - 1) /\ count \in 0..Capacity
  BY RingBounds, CapacityIsPositive
<1>2. ring \in [0..(Capacity - 1) -> Nat]
  BY DEF RingInv
<1>3. InRing \in Seq(Nat) /\ Len(InRing) = count
  BY <1>1, <1>2, ReportsFrom DEF InRing
<1> QED
  BY <1>3, RingBounds DEF InRing, Place, At

LEMMA PushKeepsRing ==
    ASSUME RingInv, NEW report \in Nat, Push(report), reports' \in Nat
    PROVE  RingInv' /\ (Captured!Put \/ Captured!Refuse)
<1>1. CASE ~Room
  <2>1. UNCHANGED <<ring, readIndex, writeIndex, count>> /\ dropped' = dropped + 1
    BY <1>1 DEF Push
  <2>2. InRing' = InRing /\ Len(InRing) = Capacity
    BY <1>1, <2>1, SequenceInRing, CapacityIsPositive DEF InRing, RingInv, Room
  <2> QED
    BY <2>1, <2>2 DEF RingInv, Captured!Refuse
<1>2. CASE Room
  <2>1. /\ ring' = [ring EXCEPT ![writeIndex] = report]
        /\ writeIndex' = Successor(writeIndex) /\ count' = count + 1
        /\ UNCHANGED <<readIndex, dropped>>
    BY <1>2 DEF Push
  <2>2. writeIndex \in 0..(Capacity - 1)
    BY WriteInRange
  <2>3. writeIndex' = (readIndex' + count') % Capacity
    <3>1. writeIndex = Wrapped(readIndex + count)
      BY WriteIndexWrapped
    <3>2. Successor(writeIndex) = Wrapped(writeIndex + 1)
      BY <2>2, WrapsHere, CapacityIsPositive DEF Successor
    <3>3. (readIndex + (count + 1)) % Capacity = Wrapped(readIndex + (count + 1))
      BY <1>2, WrapsHere, CapacityIsPositive DEF RingInv, Room
    <3>4. Wrapped(writeIndex + 1) = Wrapped(readIndex + (count + 1))
      <4>1. readIndex + count \in Nat /\ readIndex + count + 1 < 2 * Capacity
        BY <1>2, RingBounds, CapacityIsPositive DEF Room
      <4>2. Wrapped(Wrapped(readIndex + count) + 1) = Wrapped(readIndex + count + 1)
        BY <4>1, WrapOnce
      <4>3. readIndex + count + 1 = readIndex + (count + 1)
        BY RingBounds
      <4> QED
        BY <3>1, <4>2, <4>3
    <3> QED
      BY <2>1, <3>2, <3>3, <3>4
  <2>4. RingInv'
    <3>1. ring' \in [0..(Capacity - 1) -> Nat]
      BY <2>1, <2>2 DEF RingInv
    <3>2. count' \in Nat /\ count' =< Capacity
      BY <1>2, <2>1, RingBounds, CapacityIsPositive DEF Room
    <3>3. readIndex' \in Nat /\ readIndex' < Capacity
      BY <2>1, RingBounds
    <3> QED
      BY <2>3, <3>1, <3>2, <3>3 DEF RingInv
  <2>5. ASSUME NEW i \in 1..count PROVE InRing'[i] = InRing[i]
    <3>1. Place(i)' = Place(i) /\ Place(i) # writeIndex
      BY <1>2, <2>1, WritePlaceIsFree DEF Place, At
    <3>2. Place(i) \in DOMAIN ring
      BY PlaceOf DEF RingInv
    <3>3. InRing'[i] = ring'[Place(i)'] /\ InRing[i] = ring[Place(i)]
      BY <2>1, CapacityIsPositive DEF InRing, Place, At, RingInv
    <3> QED
      BY <2>1, <3>1, <3>2, <3>3
  <2>6. /\ InRing \in Seq(Nat) /\ Len(InRing) = count /\ count \in Nat /\ count < Capacity
        /\ InRing' \in Seq(Nat) /\ Len(InRing') = count + 1
    <3>1. /\ ring' \in [0..(Capacity - 1) -> Nat] /\ readIndex' \in 0..(Capacity - 1)
          /\ count' \in 0..Capacity
      BY <2>4, CapacityIsPositive DEF RingInv
    <3>2. InRing' \in Seq(Nat) /\ Len(InRing') = count'
      BY <3>1, ReportsFrom DEF InRing
    <3> QED
      BY <1>2, <2>1, <3>2, SequenceInRing, RingBounds DEF Room
  <2>7. SubSeq(InRing', 1, count) = InRing
    BY <2>5, <2>6, SubSeqProperties, SeqEqual
  <2> QED
    BY <2>1, <2>4, <2>6, <2>7 DEF Captured!Put
<1> QED
  BY <1>1, <1>2

LEMMA PopKeepsRing ==
    ASSUME RingInv, Pop
    PROVE  RingInv' /\ Captured!Take
<1>1. /\ count > 0 /\ readIndex' = Successor(readIndex) /\ count' = count - 1
      /\ UNCHANGED <<ring, writeIndex, dropped, reports>>
  BY DEF Pop
<1>2. readIndex \in 0..(Capacity - 1) /\ readIndex' = Wrapped(readIndex + 1)
      /\ readIndex' \in 0..(Capacity - 1)
  BY <1>1, WrapsHere, CapacityIsPositive DEF Successor, RingInv
<1>3. ASSUME NEW i \in 1..count PROVE (readIndex' + i - 1) % Capacity = Wrapped(readIndex + i)
  <2>1. readIndex' + i - 1 \in Nat /\ readIndex' + i - 1 < 2 * Capacity
    BY <1>2, CapacityIsPositive DEF RingInv
  <2>2. (readIndex' + i - 1) % Capacity = Wrapped(readIndex' + i - 1)
    BY <2>1, WrapsHere
  <2>3. Wrapped(readIndex' + i - 1) = Wrapped(readIndex + i)
    BY <1>2, CapacityIsPositive DEF RingInv, Wrapped
  <2> QED
    BY <2>2, <2>3
<1>4. RingInv'
  <2>1. writeIndex = Wrapped(readIndex + count)
    BY WriteIndexWrapped
  <2>2. (readIndex' + count - 1) % Capacity = Wrapped(readIndex + count)
    BY <1>1, <1>3 DEF RingInv
  <2>3. readIndex' + count' = readIndex' + count - 1
    BY <1>1, <1>2 DEF RingInv
  <2>4. writeIndex' = (readIndex' + count') % Capacity
    BY <1>1, <2>1, <2>2, <2>3
  <2>5. count' \in Nat /\ count' =< Capacity
    BY <1>1, RingBounds, CapacityIsPositive
  <2> QED
    BY <1>1, <1>2, <2>4, <2>5, CapacityIsPositive DEF RingInv
<1>5. ASSUME NEW i \in 1..(count - 1) PROVE InRing'[i] = InRing[i + 1]
  <2>1. InRing'[i] = ring[(readIndex' + i - 1) % Capacity]
    BY <1>1 DEF InRing, RingInv
  <2>2. InRing[i + 1] = ring[Place(i + 1)]
    BY SequenceInRing DEF RingInv
  <2>3. Place(i + 1) = Wrapped(readIndex + i)
    <3>1. i + 1 \in 1..(count + 1) /\ At(i + 1) = readIndex + i
      BY RingBounds DEF At
    <3> QED
      BY <3>1, PlaceOf
  <2> QED
    BY <1>3, <2>1, <2>2, <2>3 DEF RingInv
<1>6. /\ InRing \in Seq(Nat) /\ Len(InRing) = count /\ count \in Nat /\ InRing # <<>>
      /\ InRing' \in Seq(Nat) /\ Len(InRing') = count - 1
  <2>1. /\ ring' \in [0..(Capacity - 1) -> Nat] /\ readIndex' \in 0..(Capacity - 1)
        /\ count' \in 0..Capacity
    BY <1>4, CapacityIsPositive DEF RingInv
  <2>2. InRing' \in Seq(Nat) /\ Len(InRing') = count'
    BY <2>1, ReportsFrom DEF InRing
  <2> QED
    BY <1>1, <2>2, SequenceInRing, RingBounds
<1>7. InRing' = Tail(InRing)
  <2> DEFINE t == Tail(InRing)
  <2>1. t \in Seq(Nat) /\ Len(t) = count - 1 /\ \A i \in 1..(count - 1) : t[i] = InRing[i + 1]
    BY <1>6
  <2> HIDE DEF t
  <2>2. InRing' = t
    BY <1>5, <1>6, <2>1, SeqEqual
  <2> QED
    BY <2>2 DEF t
<1> QED
  BY <1>1, <1>4, <1>6, <1>7 DEF Captured!Take

LEMMA ForgetKeepsRing ==
    ASSUME RingInv, Forget, UNCHANGED <<ring, dropped, reports>>
    PROVE  RingInv' /\ Captured!Clear
<1>1. 0 % Capacity = 0
  BY CapacityIsPositive, Wraps
<1>2. RingInv'
  BY <1>1, CapacityIsPositive DEF Forget, RingInv
<1> QED
  BY <1>2 DEF Forget, InRing, Captured!Clear

-----------------------------------------------------------------------------
(* All steps. *)

LEMMA HostStep ==
    ASSUME HostInv, [HostNext]_hostVars
    PROVE  HostInv' /\ [Captured!Next]_<<InRing, dropped>>
<1> USE DEF HostInv
<1>1. CASE UNCHANGED <<capture>> /\ reports' \in Nat /\ BusInv'
  BY <1>1 DEF capture, RingInv, InRing
<1>2. CASE UNCHANGED hostVars
  <2>1. BusInv'
    BY <1>2 DEF hostVars, bus, BusInv
  <2>2. UNCHANGED <<capture>> /\ reports' \in Nat
    BY <1>2 DEF hostVars, RingInv
  <2> QED
    BY <1>1, <2>1, <2>2
<1>3. ASSUME NEW k \in Interfaces, Mount(k) PROVE UNCHANGED <<capture, reports>> /\ BusInv'
  BY <1>3, MountKeepsBus DEF Mount
<1>4. ASSUME NEW k \in Interfaces, Unmount(k) PROVE UNCHANGED <<capture, reports>> /\ BusInv'
  BY <1>4, UnmountKeepsBus DEF Unmount
<1>5. ASSUME NEW k \in Interfaces, NEW whole \in BOOLEAN, ReportReceived(k, whole)
      PROVE  HostInv' /\ [Captured!Next]_<<InRing, dropped>>
  <2>1. BusInv'
    BY <1>5, ReportKeepsBus
  <2>2. UNCHANGED <<capture>> \/ Push(reports')
    BY <1>5 DEF ReportReceived
  <2>3. reports' \in Nat
    BY <1>5 DEF ReportReceived, RingInv
  <2>4. CASE Push(reports')
    BY <2>1, <2>3, <2>4, PushKeepsRing DEF Captured!Next
  <2> QED
    BY <1>1, <2>1, <2>2, <2>3, <2>4
<1>6. CASE Pop
  <2>1. BusInv'
    BY <1>6 DEF Pop, bus, BusInv
  <2> QED
    BY <1>6, <2>1, PopKeepsRing DEF Captured!Next
<1>7. CASE ChangeMode
  <2>1. BusInv'
    BY <1>7 DEF ChangeMode, bus, BusInv
  <2> QED
    BY <1>7, <2>1, ForgetKeepsRing DEF ChangeMode, Captured!Next
<1>8. reports \in Nat
  BY DEF RingInv
<1> QED
  BY <1>1, <1>2, <1>3, <1>4, <1>5, <1>6, <1>7, <1>8 DEF HostNext

-----------------------------------------------------------------------------
\* The inductive invariant of the host's callbacks and the capture ring.
THEOREM HostInvariance == HostSpec => []HostInv
<1>1. HostInv /\ [HostNext]_hostVars => HostInv'
  BY HostStep
<1> QED
  BY <1>1, HostInitially, PTL DEF HostSpec

\* Whatever is plugged in, and however its transfers end, at most one keyboard
\* is listened to, and the one in use is, unless the USB stack itself refused
\* (hid_keyboard_host.c, tuh_hid_report_received_cb).
THEOREM KeyboardIsHeardAlways == HostSpec => []KeyboardIsHeard
<1>1. HostInv => OneKeyboardHeard /\ KeyboardStaysHeard
  BY DEF HostInv, BusInv, OneKeyboardHeard, KeyboardStaysHeard
<1>2. ASSUME HostInv PROVE HostTypeOK
  <2>1. readIndex \in 0..(Capacity - 1) /\ writeIndex \in 0..(Capacity - 1)
    BY <1>2, WriteInRange, RingBounds, CapacityIsPositive DEF HostInv
  <2>2. DOMAIN ring = 0..(Capacity - 1)
    BY <1>2 DEF HostInv, RingInv
  <2>3. {readIndex, writeIndex} \subseteq DOMAIN ring
    BY <2>1, <2>2
  <2>4. count \in 0..Capacity
    BY <1>2, RingBounds, CapacityIsPositive DEF HostInv
  <2> QED
    BY <1>2, <2>3, <2>4 DEF HostInv, BusInv, HostTypeOK
<1> QED
  BY <1>1, <1>2, HostInvariance, PTL DEF KeyboardIsHeard

\* The capture ring is a bounded FIFO through every wrap of its indices: reports
\* leave in the order they came, and only a full ring drops one
\* (keyboard_capture.c, pico_keyboard_capture_push).
THEOREM CaptureRingKeptAlways == HostSpec => CaptureRingKept
<1>1. HostInit => Captured!Init
  BY DEF HostInit, InRing, Captured!Init
<1>2. HostInv /\ [HostNext]_hostVars => [Captured!Next]_<<InRing, dropped>>
  BY HostStep
<1> QED
  BY <1>1, <1>2, HostInvariance, PTL DEF HostSpec, CaptureRingKept, Captured!Spec

-----------------------------------------------------------------------------
(* RecordingLink.  The way of a frame: deferred, pending, still on the wire. *)

Frame == {ModeChanged(s, r) : s \in Modes, r \in Reasons} \cup {RecordEvent(n) : n \in Reports}

IsEvent(frame) == frame.type = "RECORD_EVENT"

Way == Through(deferred, pending, fromPico)

-----------------------------------------------------------------------------
(* The order of the reports, on the way and in the builder. *)

Increasing(e) == \A i, j \in 1..Len(e) : i < j => e[i] < e[j]

Sorted(w) ==
    \A i, j \in 1..Len(w) : i < j /\ IsEvent(w[i]) /\ IsEvent(w[j]) => w[i].report < w[j].report

Precede(e, w) == \A i \in 1..Len(e), j \in 1..Len(w) : IsEvent(w[j]) => e[i] < w[j].report

\* The reports e of the builder come before those on the way w, and all of
\* them are among the n captured.
Flow(e, w, n) ==
    /\ Increasing(e) /\ Sorted(w) /\ Precede(e, w)
    /\ \A i \in 1..Len(e) : e[i] =< n
    /\ \A i \in 1..Len(w) : IsEvent(w[i]) => w[i].report =< n

FlowTypes(e, w, n) == e \in Seq(Nat) /\ w \in Seq(Frame) /\ n \in Nat

LEMMA Frames ==
    ASSUME NEW frame \in Frame
    PROVE  /\ frame.type \in {"MODE_CHANGED", "RECORD_EVENT"}
           /\ IsEvent(frame) => frame.report \in Reports /\ frame = RecordEvent(frame.report)
           /\ ~IsEvent(frame) => frame.state \in Modes /\ frame.reason \in Reasons
                                  /\ frame = ModeChanged(frame.state, frame.reason)
  BY DEF Frame, IsEvent, ModeChanged, RecordEvent

LEMMA ReportsAreNaturals == Reports \subseteq Nat /\ MaxKeys \in Nat
  BY LinkAssumption

LEMMA FlowReports ==
    ASSUME NEW e, NEW w, NEW n, FlowTypes(e, w, n), NEW i \in 1..Len(w), IsEvent(w[i])
    PROVE  w[i].report \in Nat
<1>1. w[i] \in Frame
  BY DEF FlowTypes
<1> QED
  BY <1>1, Frames, ReportsAreNaturals

LEMMA FlowOfPart ==
    ASSUME NEW e, NEW w, NEW n, NEW v, FlowTypes(e, w, n), v \in Seq(Frame),
           Flow(e, w, n), Part(v, w)
    PROVE  Flow(e, v, n)
<1>1. PICK f \in [1..Len(v) -> 1..Len(w)] :
          /\ \A i, j \in 1..Len(v) : i < j => f[i] < f[j]
          /\ \A i \in 1..Len(v) : v[i] = w[f[i]]
  BY DEF Part
<1>2. \A i \in 1..Len(v) : f[i] \in 1..Len(w) /\ v[i] = w[f[i]]
  BY <1>1
<1>3. Sorted(v)
  BY <1>1, <1>2 DEF Flow, Sorted
<1>4. Precede(e, v)
  BY <1>2 DEF Flow, Precede
<1>5. \A i \in 1..Len(v) : IsEvent(v[i]) => v[i].report =< n
  BY <1>2 DEF Flow
<1> QED
  BY <1>3, <1>4, <1>5 DEF Flow

LEMMA FlowAnew ==
    ASSUME NEW e, NEW w, NEW n, FlowTypes(e, w, n), Flow(e, w, n)
    PROVE  Flow(<<>>, w, n)
  BY DEF Flow, Increasing, Precede

LEMMA FlowAnswered ==
    ASSUME NEW e, NEW w, NEW n, NEW frame \in Frame, FlowTypes(e, w, n),
           Flow(e, w, n), ~IsEvent(frame)
    PROVE  Flow(e, w \o <<frame>>, n)
<1> DEFINE v == w \o <<frame>>
<1>1. /\ Len(w) \in Nat /\ Len(v) = Len(w) + 1
      /\ (\A i \in 1..Len(w) : v[i] = w[i]) /\ v[Len(w) + 1] = frame
  BY DEF FlowTypes
<1> HIDE DEF v
<1>2. \A i \in 1..Len(v) : IsEvent(v[i]) => i \in 1..Len(w) /\ v[i] = w[i]
  BY <1>1
<1> QED
  BY <1>2 DEF Flow, Sorted, Precede, v

LEMMA FlowCaptured ==
    ASSUME NEW e, NEW w, NEW n, FlowTypes(e, w, n), Flow(e, w, n)
    PROVE  Flow(e, w, n + 1) /\ Flow(e, w \o <<RecordEvent(n + 1)>>, n + 1)
<1> DEFINE v == w \o <<RecordEvent(n + 1)>>
<1>1. /\ Len(w) \in Nat /\ Len(v) = Len(w) + 1 /\ n \in Nat
      /\ (\A i \in 1..Len(w) : v[i] = w[i]) /\ v[Len(w) + 1] = RecordEvent(n + 1)
  BY DEF FlowTypes
<1>2. RecordEvent(n + 1).report = n + 1
  BY DEF RecordEvent
<1> HIDE DEF v
<1>3. \A i \in 1..Len(w) : IsEvent(w[i]) => w[i].report \in Nat
  BY FlowReports
<1>4. Len(e) \in Nat /\ \A i \in 1..Len(e) : e[i] \in Nat
  BY DEF FlowTypes
<1>5. Flow(e, w, n + 1)
  BY <1>1, <1>3, <1>4 DEF Flow
<1>6. \A i \in 1..Len(v) : IsEvent(v[i]) =>
          \/ i \in 1..Len(w) /\ v[i] = w[i] /\ v[i].report =< n
          \/ i = Len(w) + 1 /\ v[i].report = n + 1
  BY <1>1, <1>2 DEF Flow
<1>7. Sorted(v)
  <2> SUFFICES ASSUME NEW i \in 1..Len(v), NEW j \in 1..Len(v), i < j, IsEvent(v[i]), IsEvent(v[j])
               PROVE  v[i].report < v[j].report
    BY DEF Sorted
  <2>1. i \in 1..Len(w) /\ v[i] = w[i] /\ v[i].report =< n /\ v[i].report \in Nat
    BY <1>1, <1>3, <1>6
  <2>2. CASE j = Len(w) + 1 /\ v[j].report = n + 1
    BY <1>1, <2>1, <2>2
  <2>3. CASE j \in 1..Len(w) /\ v[j] = w[j]
    BY <2>1, <2>3 DEF Flow, Sorted
  <2> QED
    BY <1>6, <2>2, <2>3
<1>8. Precede(e, v)
  <2> SUFFICES ASSUME NEW i \in 1..Len(e), NEW j \in 1..Len(v), IsEvent(v[j])
               PROVE  e[i] < v[j].report
    BY DEF Precede
  <2>1. CASE j = Len(w) + 1 /\ v[j].report = n + 1
    <3>1. e[i] =< n /\ e[i] \in Nat
      BY <1>4 DEF Flow
    <3> QED
      BY <1>1, <2>1, <3>1
  <2>2. CASE j \in 1..Len(w) /\ v[j] = w[j]
    BY <2>2 DEF Flow, Precede
  <2> QED
    BY <1>6, <2>1, <2>2
<1>9. \A i \in 1..Len(v) : IsEvent(v[i]) => v[i].report =< n + 1
  BY <1>1, <1>3, <1>6
<1> QED
  BY <1>5, <1>7, <1>8, <1>9 DEF Flow, v

\* The builder takes the first frame on the way.
LEMMA FlowConsumed ==
    ASSUME NEW e, NEW w, NEW n, NEW v, FlowTypes(e, w, n), v \in Seq(Frame),
           Flow(e, w, n), Removed(v, w, 1), IsEvent(w[1])
    PROVE  Flow(Append(e, w[1].report), v, n)
<1> DEFINE d == Append(e, w[1].report)
<1>1. /\ Len(w) \in Nat /\ Len(v) = Len(w) - 1 /\ 1 \in 1..Len(w)
      /\ \A i \in 1..Len(v) : v[i] = w[i + 1] /\ i + 1 \in 1..Len(w)
  BY DEF Removed, FlowTypes
<1>2. w[1].report \in Nat
  BY <1>1, FlowReports
<1>3. /\ Len(e) \in Nat /\ Len(d) = Len(e) + 1
      /\ (\A i \in 1..Len(e) : d[i] = e[i]) /\ d[Len(e) + 1] = w[1].report
  BY <1>2 DEF FlowTypes
<1> HIDE DEF d
<1>4. Flow(e, v, n)
  BY RemovedIsPart, FlowOfPart DEF FlowTypes
<1>5. Increasing(d)
  <2> SUFFICES ASSUME NEW i \in 1..Len(d), NEW j \in 1..Len(d), i < j PROVE d[i] < d[j]
    BY DEF Increasing
  <2>1. CASE j \in 1..Len(e)
    BY <1>3, <2>1 DEF Flow, Increasing
  <2>2. CASE j = Len(e) + 1
    <3>1. i \in 1..Len(e) /\ d[i] = e[i] /\ d[j] = w[1].report
      BY <1>3, <2>2
    <3>2. e[i] < w[1].report
      BY <1>1, <3>1 DEF Flow, Precede
    <3> QED
      BY <3>1, <3>2
  <2> QED
    BY <1>3, <2>1, <2>2
<1>6. Precede(d, v)
  <2> SUFFICES ASSUME NEW i \in 1..Len(d), NEW j \in 1..Len(v), IsEvent(v[j])
               PROVE  d[i] < v[j].report
    BY DEF Precede
  <2>1. CASE i \in 1..Len(e)
    BY <1>3, <1>4, <2>1 DEF Flow, Precede
  <2>2. CASE i = Len(e) + 1
    <3>1. v[j] = w[j + 1] /\ j + 1 \in 1..Len(w) /\ 1 < j + 1
      BY <1>1
    <3> QED
      BY <1>1, <1>3, <2>2, <3>1 DEF Flow, Sorted
  <2> QED
    BY <1>3, <2>1, <2>2
<1>7. \A i \in 1..Len(d) : d[i] =< n
  BY <1>1, <1>3 DEF Flow
<1> QED
  BY <1>4, <1>5, <1>6, <1>7 DEF Flow, d

-----------------------------------------------------------------------------
(* What a drain returns. *)

\* The function by which ReportsOf is defined, up to the n-th frame.
Collected(g, frames, n) ==
    g = [m \in 0..n |->
            IF m = 0 THEN <<>>
            ELSE IF frames[m].type = "RECORD_EVENT" THEN Append(g[m - 1], frames[m].report)
            ELSE g[m - 1]]

LEMMA CollectedExists ==
    ASSUME NEW frames, NEW n \in Nat
    PROVE  \E g : Collected(g, frames, n)
<1> DEFINE S == {m \in Nat : \E g : Collected(g, frames, m)}
<1>1. 0 \in S
  <2> DEFINE g == [m \in 0..0 |-> <<>>]
  <2>1. Collected(g, frames, 0)
    BY DEF Collected
  <2> QED
    BY <2>1
<1>2. ASSUME NEW k \in Nat, k \in S PROVE k + 1 \in S
  <2>1. PICK g : Collected(g, frames, k)
    BY <1>2
  <2> DEFINE h == [m \in 0..(k + 1) |->
                      IF m = k + 1
                      THEN IF frames[m].type = "RECORD_EVENT" THEN Append(g[k], frames[m].report) ELSE g[k]
                      ELSE g[m]]
             next == [m \in 0..(k + 1) |->
                         IF m = 0 THEN <<>>
                         ELSE IF frames[m].type = "RECORD_EVENT" THEN Append(h[m - 1], frames[m].report)
                         ELSE h[m - 1]]
  <2>2. \A m \in 0..k : h[m] = g[m]
    OBVIOUS
  <2>3. \A m \in 0..k : g[m] = IF m = 0 THEN <<>>
                               ELSE IF frames[m].type = "RECORD_EVENT"
                               THEN Append(g[m - 1], frames[m].report) ELSE g[m - 1]
    BY <2>1 DEF Collected
  <2>4. ASSUME NEW m \in 0..(k + 1) PROVE h[m] = next[m]
    <3>1. CASE m = 0
      <4>1. h[0] = g[0] /\ g[0] = <<>>
        BY <2>2, <2>3
      <4> QED
        BY <3>1, <4>1
    <3>2. CASE m \in 1..k
      <4>1. m - 1 \in 0..k /\ m \in 0..k /\ m # 0
        BY <3>2
      <4>2. h[m] = g[m] /\ h[m - 1] = g[m - 1]
        BY <2>2, <4>1
      <4> QED
        BY <2>3, <4>1, <4>2
    <3>3. CASE m = k + 1
      <4>1. h[m - 1] = g[k] /\ m # 0
        BY <2>2, <3>3
      <4> QED
        BY <3>3, <4>1
    <3> QED
      BY <3>1, <3>2, <3>3
  <2>5. h = next
    <3>1. DOMAIN h = 0..(k + 1) /\ DOMAIN next = 0..(k + 1)
      OBVIOUS
    <3> HIDE DEF h, next
    <3>2. h = [m \in 0..(k + 1) |-> h[m]] /\ next = [m \in 0..(k + 1) |-> next[m]]
      BY DEF h, next
    <3> QED
      BY <2>4, <3>2
  <2>6. Collected(h, frames, k + 1)
    <3> HIDE DEF h
    <3> QED
      BY <2>5 DEF Collected
  <2> QED
    BY <2>6
<1>3. Nat \subseteq S
  <2> HIDE DEF S
  <2> QED
    BY <1>1, <1>2, SetInduction
<1> QED
  BY <1>3

LEMMA ReportsCollected ==
    ASSUME NEW frames, Len(frames) \in Nat
    PROVE  \E g : Collected(g, frames, Len(frames)) /\ ReportsOf(frames) = g[Len(frames)]
<1>1. \E g : Collected(g, frames, Len(frames))
  BY CollectedExists
<1> DEFINE chosen == CHOOSE g : Collected(g, frames, Len(frames))
<1>2. Collected(chosen, frames, Len(frames))
  BY <1>1
<1>3. ReportsOf(frames) = chosen[Len(frames)]
  BY DEF ReportsOf, Collected
<1> QED
  BY <1>2, <1>3

LEMMA ReportsEmpty ==
    ASSUME NEW g, NEW frames, NEW n \in Nat, Collected(g, frames, n)
    PROVE  g[0] = <<>>
  BY DEF Collected

LEMMA ReportsNext ==
    ASSUME NEW g, NEW frames, NEW n \in Nat, Collected(g, frames, n), NEW m \in Nat, m < n
    PROVE  g[m + 1] = IF IsEvent(frames[m + 1]) THEN Append(g[m], frames[m + 1].report) ELSE g[m]
<1>1. m + 1 \in 0..n /\ m + 1 # 0 /\ (m + 1) - 1 = m
  OBVIOUS
<1> QED
  BY <1>1 DEF Collected, IsEvent

\* What is left of d after m frames, and then c.
Rest(d, m, c) == SubSeq(d, m + 1, Len(d)) \o c

\* What is where in w, the rest of d after m frames and then c.
Behind(w, d, m, c) ==
    /\ Len(w) = Len(d) - m + Len(c)
    /\ \A i \in 1..(Len(d) - m) : w[i] = d[m + i]
    /\ \A i \in 1..Len(c) : w[Len(d) - m + i] = c[i]

LEMMA RestElements ==
    ASSUME NEW S, NEW d \in Seq(S), NEW c \in Seq(S), NEW m \in 0..Len(d)
    PROVE  Rest(d, m, c) \in Seq(S) /\ Behind(Rest(d, m, c), d, m, c)
<1> DEFINE w == Rest(d, m, c)
<1>1. w \in Seq(S) /\ Len(w) = Len(d) - m + Len(c)
  BY DEF Rest
<1>2. \A i \in 1..(Len(d) - m) : w[i] = d[m + i]
  BY DEF Rest
<1>3. \A i \in 1..Len(c) : w[Len(d) - m + i] = c[i]
  <2> DEFINE f == SubSeq(d, m + 1, Len(d))
  <2>1. f \in Seq(S) /\ Len(f) = Len(d) - m /\ Len(c) \in Nat
    OBVIOUS
  <2> HIDE DEF f
  <2>2. \A i \in 1..Len(c) : (f \o c)[Len(f) + i] = c[i]
    BY <2>1
  <2> QED
    BY <2>1, <2>2 DEF Rest, f
<1> QED
  BY <1>1, <1>2, <1>3 DEF Behind

LEMMA AppendBehind ==
    ASSUME NEW S, NEW e \in Seq(S), NEW r \in Seq(S), NEW x \in S
    PROVE  Append(e \o r, x) = e \o Append(r, x) /\ Append(r, x) \in Seq(S)
  OBVIOUS

LEMMA RestRemoved ==
    ASSUME NEW S, NEW d \in Seq(S), NEW c \in Seq(S), NEW m \in Nat, m < Len(d)
    PROVE  Removed(Rest(d, m + 1, c), Rest(d, m, c), 1) /\ Rest(d, m, c)[1] = d[m + 1]
<1> DEFINE w == Rest(d, m, c)
           v == Rest(d, m + 1, c)
<1>1. Len(d) \in Nat /\ Len(c) \in Nat /\ m \in 0..Len(d) /\ m + 1 \in 0..Len(d)
  BY LenProperties
<1>2. Behind(w, d, m, c) /\ Behind(v, d, m + 1, c)
  BY <1>1, RestElements, Zenon
<1> HIDE DEF v, w
<1>3. Len(w) = Len(d) - m + Len(c) /\ Len(v) = Len(d) - (m + 1) + Len(c) /\ m \in Nat
  BY <1>2 DEF Behind
<1>4. ASSUME NEW i \in 1..Len(v) PROVE v[i] = w[i + 1]
  <2>1. CASE i =< Len(d) - (m + 1)
    <3>1. i + 1 \in 1..(Len(d) - m) /\ m + (i + 1) = (m + 1) + i /\ i \in 1..(Len(d) - (m + 1))
      BY <1>1, <1>3, <2>1
    <3> QED
      BY <1>2, <3>1 DEF Behind
  <2>2. CASE i > Len(d) - (m + 1)
    <3> DEFINE j == i - (Len(d) - (m + 1))
    <3>1. j \in 1..Len(c) /\ i = Len(d) - (m + 1) + j /\ i + 1 = Len(d) - m + j
      BY <1>1, <1>3, <2>2
    <3> HIDE DEF j
    <3> QED
      BY <1>2, <3>1 DEF Behind
  <2> QED
    BY <1>1, <1>3, <2>1, <2>2
<1>5. 1 \in 1..Len(w) /\ Len(v) = Len(w) - 1 /\ w[1] = d[m + 1]
  BY <1>1, <1>2, <1>3 DEF Behind
<1>6. Removed(v, w, 1)
  <2>1. \A i \in 1..Len(v) : ~(i < 1)
    BY <1>1, <1>3
  <2> QED
    BY <1>4, <1>5, <2>1 DEF Removed
<1> QED
  BY <1>5, <1>6 DEF v, w

\* A drain takes the front of what is on the way, and the builder its reports.
LEMMA FlowDrained ==
    ASSUME NEW e, NEW d \in Seq(Frame), NEW c \in Seq(Frame), NEW n \in Nat,
           e \in Seq(Nat), Flow(e, d \o c, n)
    PROVE  /\ ReportsOf(d) \in Seq(Nat)
           /\ Flow(e \o ReportsOf(d), c, n)
<1>1. Len(d) \in Nat
  BY LenProperties
<1>2. PICK g : Collected(g, d, Len(d)) /\ ReportsOf(d) = g[Len(d)]
  BY <1>1, ReportsCollected
<1> DEFINE T == {m \in Nat : m =< Len(d) => g[m] \in Seq(Nat) /\ Flow(e \o g[m], Rest(d, m, c), n)}
<1>3. 0 \in T
  <2>1. g[0] = <<>> /\ e \o <<>> = e
    BY <1>1, <1>2, ReportsEmpty, ConcatEmptySeq
  <2>2. Rest(d, 0, c) = d \o c
    <3>1. SubSeq(d, 1, Len(d)) = d /\ 0 + 1 = 1
      BY SubSeqFull
    <3> QED
      BY <3>1 DEF Rest
  <2>3. Flow(e \o g[0], Rest(d, 0, c), n)
    BY <2>1, <2>2, Zenon
  <2>4. g[0] \in Seq(Nat)
    BY <2>1
  <2> QED
    BY <2>3, <2>4
<1>4. ASSUME NEW m \in Nat, m \in T PROVE m + 1 \in T
  <2> SUFFICES ASSUME m + 1 =< Len(d)
               PROVE  g[m + 1] \in Seq(Nat) /\ Flow(e \o g[m + 1], Rest(d, m + 1, c), n)
    OBVIOUS
  <2> DEFINE w == Rest(d, m, c)
             v == Rest(d, m + 1, c)
             r == g[m]
  <2>1. m < Len(d) /\ m =< Len(d) /\ m \in 0..Len(d) /\ m + 1 \in 0..Len(d)
    BY <1>1
  <2>2. r \in Seq(Nat) /\ Flow(e \o r, w, n)
    BY <1>4, <2>1
  <2>3. Removed(v, w, 1) /\ w[1] = d[m + 1]
    BY <2>1, RestRemoved
  <2>4. w \in Seq(Frame) /\ v \in Seq(Frame)
    BY <2>1, RestElements, Zenon
  <2>5. g[m + 1] = IF IsEvent(d[m + 1]) THEN Append(r, d[m + 1].report) ELSE r
    BY <1>1, <1>2, <2>1, ReportsNext
  <2> HIDE DEF w, v, r, T
  <2>6. e \o r \in Seq(Nat) /\ FlowTypes(e \o r, w, n)
    BY <2>2, <2>4, ConcatProperties DEF FlowTypes
  <2>7. CASE IsEvent(d[m + 1])
    <3>1. Flow(Append(e \o r, d[m + 1].report), v, n)
      BY <2>2, <2>3, <2>4, <2>6, <2>7, FlowConsumed
    <3>2. d[m + 1].report \in Nat
      <4>1. 1 \in 1..Len(w)
        BY <2>3 DEF Removed
      <4> QED
        BY <2>3, <2>6, <2>7, <4>1, FlowReports
    <3>3. Append(e \o r, d[m + 1].report) = e \o Append(r, d[m + 1].report)
          /\ Append(r, d[m + 1].report) \in Seq(Nat)
      <4> DEFINE x == d[m + 1].report
      <4>1. x \in Nat
        BY <3>2
      <4> HIDE DEF x
      <4>2. Append(e \o r, x) = e \o Append(r, x) /\ Append(r, x) \in Seq(Nat)
        BY <2>2, <4>1, AppendBehind, Zenon
      <4> QED
        BY <4>2 DEF x
    <3> QED
      BY <2>5, <2>7, <3>1, <3>3 DEF v
  <2>8. CASE ~IsEvent(d[m + 1])
    <3>1. Part(v, w)
      BY <2>3, <2>4, RemovedIsPart
    <3>2. Flow(e \o r, v, n)
      BY <2>2, <2>4, <2>6, <3>1, FlowOfPart
    <3> QED
      BY <2>2, <2>5, <2>8, <3>2 DEF v, r
  <2> QED
    BY <2>7, <2>8
<1>5. Nat \subseteq T
  <2> HIDE DEF T
  <2> QED
    BY <1>3, <1>4, SetInduction
<1>6. g[Len(d)] \in Seq(Nat) /\ Flow(e \o g[Len(d)], Rest(d, Len(d), c), n)
  BY <1>1, <1>5
<1>7. Rest(d, Len(d), c) = c
  BY <1>1, SubSeqEmpty, ConcatEmptySeq DEF Rest
<1> QED
  BY <1>2, <1>6, <1>7

\* A drain of events alone returns their reports.
LEMMA AllReports ==
    ASSUME NEW d, Len(d) \in Nat, \A i \in 1..Len(d) : IsEvent(d[i])
    PROVE  ReportsOf(d) = [i \in 1..Len(d) |-> d[i].report]
<1>1. PICK g : Collected(g, d, Len(d)) /\ ReportsOf(d) = g[Len(d)]
  BY ReportsCollected
<1> DEFINE T == {m \in Nat : m =< Len(d) => g[m] = [i \in 1..m |-> d[i].report]}
<1>2. 0 \in T
  <2>1. g[0] = <<>>
    BY <1>1, ReportsEmpty
  <2>2. [i \in 1..0 |-> d[i].report] = <<>>
    OBVIOUS
  <2> QED
    BY <2>1, <2>2
<1>3. ASSUME NEW m \in Nat, m \in T PROVE m + 1 \in T
  <2> SUFFICES ASSUME m + 1 =< Len(d) PROVE g[m + 1] = [i \in 1..(m + 1) |-> d[i].report]
    OBVIOUS
  <2>1. m < Len(d) /\ m =< Len(d) /\ m + 1 \in 1..Len(d)
    OBVIOUS
  <2>2. g[m + 1] = Append(g[m], d[m + 1].report)
    BY <1>1, <2>1, ReportsNext
  <2>3. g[m] = [i \in 1..m |-> d[i].report]
    BY <1>3, <2>1
  <2>4. Append([i \in 1..m |-> d[i].report], d[m + 1].report) = [i \in 1..(m + 1) |-> d[i].report]
    OBVIOUS
  <2> QED
    BY <2>2, <2>3, <2>4
<1>4. Nat \subseteq T
  <2> HIDE DEF T
  <2> QED
    BY <1>2, <1>3, SetInduction
<1> QED
  BY <1>1, <1>4

-----------------------------------------------------------------------------
(* The types of everything. *)

LinkTypes ==
    /\ LinkTypeOK
    /\ mode \in Modes
    /\ toPico \in Seq({"RECORD", "PASS"})
    /\ fromPico \in Seq(Frame) /\ pending \in Seq(Frame) /\ deferred \in Seq(Frame)
    /\ \A i \in 1..Len(deferred) : IsEvent(deferred[i])
    /\ captured \in 0..MaxKeys

\* One frame was sent, or dropped because the ring was full.
SentOne(frame) == sent' = <<>> \/ sent' = <<frame>>

LEMMA SendsOne ==
    ASSUME NEW frame, Sends(<<frame>>)
    PROVE  SentOne(frame)
<1>1. PICK n \in 0..Len(<<frame>>) : sent' = SubSeq(<<frame>>, 1, n)
  BY DEF Sends
<1>2. CASE n = 0
  BY <1>1, <1>2, SubSeqEmpty DEF SentOne
<1>3. CASE n = 1
  <2>1. <<frame>> \in Seq({frame}) /\ Len(<<frame>>) = 1
    OBVIOUS
  <2>2. SubSeq(<<frame>>, 1, 1) = <<frame>>
    BY <2>1, SubSeqFull
  <2> QED
    BY <1>1, <1>3, <2>2 DEF SentOne
<1> QED
  BY <1>1, <1>2, <1>3

LEMMA ModeFrames ==
    ASSUME NEW state \in Modes, NEW reason \in Reasons
    PROVE  ModeChanged(state, reason) \in Frame /\ ~IsEvent(ModeChanged(state, reason))
  BY DEF Frame, IsEvent, ModeChanged

LEMMA EventFrames ==
    ASSUME NEW n \in Reports
    PROVE  RecordEvent(n) \in Frame /\ IsEvent(RecordEvent(n)) /\ RecordEvent(n).report = n
  BY DEF Frame, IsEvent, RecordEvent

\* What the Pico makes of a request, and of a fault.
LEMMA RequestAnswered ==
    ASSUME NEW target \in {"RECORD", "PASS"}, mode \in Modes, ModeSet(target)
    PROVE  /\ mode' \in Modes
           /\ IF target \in {mode, "PASS"} \/ mode = "PASS"
              THEN mode' = target /\ SentOne(ModeChanged(target, "OK"))
              ELSE mode' = mode /\ SentOne(ModeChanged(mode, "INVALID_TRANSITION"))
  BY SendsOne DEF ModeSet, Answer, Modes

LEMMA FaultAnswered ==
    ASSUME Fault("UART_FAULT"), mode \in Modes
    PROVE  /\ mode' = (IF mode = "PASS" THEN "PASS" ELSE "ERROR")
           /\ SentOne(ModeChanged(mode', "UART_FAULT"))
  BY SendsOne DEF Fault, Answer

LEMMA CaptureSent ==
    ASSUME NEW n, Capture(n)
    PROVE  mode = "RECORD" /\ mode' = mode /\ SentOne(RecordEvent(n))
  BY SendsOne DEF Capture

\* The Pico sends a mode change, an event, or nothing.
LEMMA OneFrameMore ==
    ASSUME LinkTypes, NEW frame \in Frame, SentOne(frame), fromPico' = fromPico \o sent'
    PROVE  fromPico' \in Seq(Frame)
<1>1. fromPico \in Seq(Frame)
  BY DEF LinkTypes
<1>2. CASE sent' = <<>>
  BY <1>1, <1>2
<1>3. CASE sent' = <<frame>>
  BY <1>1, <1>3
<1> QED
  BY <1>2, <1>3 DEF SentOne

LEMMA RequestHandled ==
    ASSUME LinkTypes, HandleRequest
    PROVE  /\ LinkTypes'
           /\ \E frame \in Frame : ~IsEvent(frame) /\ SentOne(frame)
<1>1. /\ toPico # <<>> /\ toPico \in Seq({"RECORD", "PASS"}) /\ mode \in Modes
      /\ ModeSet(Head(toPico)) /\ toPico' = Tail(toPico) /\ fromPico' = fromPico \o sent'
      /\ UNCHANGED <<buffers, session, counters, late>>
  BY DEF HandleRequest, LinkTypes, Emit
<1>2. Head(toPico) \in {"RECORD", "PASS"} /\ toPico' \in Seq({"RECORD", "PASS"})
  BY <1>1
<1>3. mode' \in Modes /\ \E frame \in Frame : ~IsEvent(frame) /\ SentOne(frame)
  <2>1. mode' \in Modes /\ \E state \in Modes, reason \in Reasons : SentOne(ModeChanged(state, reason))
    BY <1>1, <1>2, RequestAnswered DEF Modes, Reasons
  <2> QED
    BY <2>1, ModeFrames
<1>4. fromPico' \in Seq(Frame)
  BY <1>1, <1>3, OneFrameMore
<1>5. trouble' \subseteq Troubles
  BY DEF HandleRequest, Emit, Meet, LinkTypes, LinkTypeOK, Troubles
<1> QED
  BY <1>1, <1>2, <1>3, <1>4, <1>5
  DEF LinkTypes, LinkTypeOK, buffers, session, counters, Exchanging

LEMMA KeyTaken ==
    ASSUME LinkTypes, KeyCaptured
    PROVE  /\ LinkTypes'
           /\ captured' = captured + 1 /\ captured' \in Reports
           /\ SentOne(RecordEvent(captured'))
<1>1. /\ captured' = captured + 1 /\ captured < MaxKeys /\ captured \in 0..MaxKeys
      /\ Capture(captured') /\ fromPico' = fromPico \o sent'
      /\ UNCHANGED <<toPico, buffers, session, sessions, firstOwn, late>>
  BY DEF KeyCaptured, LinkTypes, Emit
<1>2. captured' \in Reports /\ captured' \in 0..MaxKeys
  BY <1>1, LinkAssumption
<1>3. mode' = mode /\ SentOne(RecordEvent(captured'))
  BY <1>1, CaptureSent
<1>4. fromPico' \in Seq(Frame)
  BY <1>1, <1>2, <1>3, EventFrames, OneFrameMore
<1>5. trouble' \subseteq Troubles
  BY DEF KeyCaptured, Emit, Meet, LinkTypes, LinkTypeOK, Troubles
<1> QED
  BY <1>1, <1>2, <1>3, <1>4, <1>5 DEF LinkTypes, LinkTypeOK, buffers, session, Exchanging

LEMMA FaultReported ==
    ASSUME LinkTypes, LinkFault
    PROVE  /\ LinkTypes'
           /\ \E frame \in Frame : ~IsEvent(frame) /\ SentOne(frame)
<1>1. /\ Fault("UART_FAULT") /\ fromPico' = fromPico \o sent' /\ mode \in Modes
      /\ toPico \in Seq({"RECORD", "PASS"})
      /\ (UNCHANGED toPico \/ (toPico # <<>> /\ toPico' = Tail(toPico)))
      /\ UNCHANGED <<buffers, session, counters, late>>
  BY DEF LinkFault, LinkTypes
<1>2. mode' \in Modes /\ \E frame \in Frame : ~IsEvent(frame) /\ SentOne(frame)
  <2>1. mode' \in Modes /\ "UART_FAULT" \in Reasons
    BY <1>1, FaultAnswered DEF Modes, Reasons
  <2> QED
    BY <1>1, <2>1, FaultAnswered, ModeFrames
<1>3. toPico' \in Seq({"RECORD", "PASS"})
  <2>1. ASSUME toPico # <<>> PROVE Tail(toPico) \in Seq({"RECORD", "PASS"})
    BY <1>1, <2>1
  <2> QED
    BY <1>1, <2>1
<1>4. fromPico' \in Seq(Frame)
  BY <1>1, <1>2, OneFrameMore
<1>5. trouble' \subseteq Troubles
  BY DEF LinkFault, Meet, LinkTypes, LinkTypeOK, Troubles
<1> QED
  BY <1>1, <1>2, <1>3, <1>4, <1>5
  DEF LinkTypes, LinkTypeOK, buffers, session, counters, Exchanging

LEMMA AskWritten ==
    ASSUME LinkTypes, NEW next \in {"start", "stop", "abort"}, Ask(next)
    PROVE  /\ stage' = next /\ attempt' = 0 /\ toPico' = Append(toPico, Target[next])
           /\ toPico' \in Seq({"RECORD", "PASS"}) /\ attempt' \in 0..Retries
<1>1. Target[next] \in {"RECORD", "PASS"}
  BY DEF Target
<1>2. toPico \in Seq({"RECORD", "PASS"}) /\ 0 \in 0..Retries
  BY LinkAssumption DEF LinkTypes
<1> QED
  BY <1>1, <1>2 DEF Ask

LEMMA GivenUp ==
    ASSUME LinkTypes, NEW why, GiveUp(why), stage # "idle"
    PROVE  /\ events' = events
           /\ shown' \in {"PASS", "RECORD", "ERROR"} /\ attempt' \in 0..Retries
           /\ toPico' \in Seq({"RECORD", "PASS"})
           /\ IF stage \in {"start", "record"}
              THEN stage' = "abort" /\ toPico' = Append(toPico, "PASS")
              ELSE stage' = "idle" /\ toPico' = toPico
<1>1. stage \in {"start", "record", "stop", "abort"}
  BY DEF LinkTypes, LinkTypeOK, Target
<1>2. Cleanup[stage] = (IF stage \in {"start", "record"} THEN "abort" ELSE "idle")
  BY <1>1 DEF Cleanup
<1>3. shown' \in {"PASS", "RECORD", "ERROR"} /\ events' = events
  BY <1>1 DEF GiveUp, LinkTypes, LinkTypeOK
<1>4. CASE stage \in {"start", "record"}
  <2>1. Ask("abort")
    BY <1>2, <1>4 DEF GiveUp
  <2> QED
    BY <1>3, <1>4, <2>1, AskWritten DEF Target
<1>5. CASE stage \in {"stop", "abort"}
  <2>1. stage' = "idle" /\ UNCHANGED <<attempt, toPico>>
    BY <1>2, <1>5 DEF GiveUp
  <2> QED
    BY <1>3, <1>5, <2>1 DEF LinkTypes, LinkTypeOK
<1> QED
  BY <1>1, <1>4, <1>5

LEMMA FramesRead ==
    ASSUME LinkTypes, NEW n \in 1..Len(fromPico)
    PROVE  /\ SubSeq(fromPico, 1, n) \in Seq(Frame)
           /\ SubSeq(fromPico, n + 1, Len(fromPico)) \in Seq(Frame)
  BY SubSeqProperties, LenProperties DEF LinkTypes

LEMMA FrameTaken ==
    ASSUME LinkTypes, pending # <<>>
    PROVE  Head(pending) \in Frame /\ Tail(pending) \in Seq(Frame)
  BY DEF LinkTypes

LEMMA FramesPutBack ==
    ASSUME LinkTypes, NEW rest \in Seq(Frame), PutBack(rest)
    PROVE  /\ pending' = deferred \o rest /\ pending' \in Seq(Frame)
           /\ deferred' = <<>> /\ deferred' \in Seq(Frame)
           /\ \A i \in 1..Len(deferred') : IsEvent(deferred'[i])
  BY DEF PutBack, Kept, LinkTypes

LEMMA ReadTypes ==
    ASSUME LinkTypes, ReadChunk \/ Defer
    PROVE  LinkTypes'
<1>1. CASE ReadChunk
  <2>1. pending' \in Seq(Frame) /\ fromPico' \in Seq(Frame)
    BY <1>1, FramesRead DEF ReadChunk
  <2> QED
    BY <1>1, <2>1 DEF ReadChunk, LinkTypes, LinkTypeOK, peerVars, session, counters, Exchanging
<1>2. CASE Defer
  <2>1. /\ pending # <<>> /\ IsEvent(Head(pending)) /\ Exchanging
        /\ deferred' = Append(deferred, Head(pending)) /\ pending' = Tail(pending)
        /\ UNCHANGED <<peerVars, wire, session, counters, trouble, late>>
    BY <1>2 DEF Defer, HeadIs, IsEvent
  <2>2. deferred' \in Seq(Frame) /\ pending' \in Seq(Frame)
    BY <2>1, FrameTaken DEF LinkTypes
  <2>3. \A i \in 1..Len(deferred') : IsEvent(deferred'[i])
    <3>1. /\ Len(deferred') = Len(deferred) + 1 /\ Len(deferred) \in Nat
          /\ \A i \in 1..Len(deferred) : deferred'[i] = deferred[i] /\ IsEvent(deferred[i])
          /\ deferred'[Len(deferred) + 1] = Head(pending)
      BY <2>1, FrameTaken DEF LinkTypes
    <3> QED
      BY <2>1, <3>1
  <2> QED
    BY <2>1, <2>2, <2>3 DEF LinkTypes, LinkTypeOK, peerVars, wire, session, counters, Exchanging
<1> QED
  BY <1>1, <1>2

LEMMA RequestTypes ==
    ASSUME LinkTypes, StartSession \/ SafeStop \/ StopRequested \/ CtrlC \/ Restart
    PROVE  LinkTypes'
<1>1. /\ \E next \in {"start", "stop", "abort"} : Ask(next)
      /\ UNCHANGED <<peerVars, captured>>
      /\ UNCHANGED buffers \/ (pending' = <<>> /\ deferred' = <<>>)
      /\ events' \in {events, <<>>} /\ shown' \in {shown, "RECORD", "PASS"}
      /\ trouble' \subseteq Troubles
  BY DEF StartSession, SafeStop, StopRequested, CtrlC, Restart, counters, Meet, LinkTypes, LinkTypeOK, Troubles
<1>2. /\ stage' \in {"start", "stop", "abort"} /\ attempt' \in 0..Retries
      /\ toPico' \in Seq({"RECORD", "PASS"})
  BY <1>1, AskWritten
<1>3. fromPico' \in Seq(Frame)
  <2>1. \/ UNCHANGED fromPico
        \/ fromPico' = <<>>
        \/ \E n \in 1..Len(fromPico) : fromPico' = SubSeq(fromPico, n + 1, Len(fromPico))
    BY DEF StartSession, SafeStop, StopRequested, CtrlC, Restart
  <2>2. fromPico \in Seq(Frame) /\ <<>> \in Seq(Frame)
    BY DEF LinkTypes
  <2> QED
    BY <2>1, <2>2, FramesRead
<1>4. /\ pending' \in Seq(Frame) /\ deferred' \in Seq(Frame)
      /\ \A i \in 1..Len(deferred') : IsEvent(deferred'[i])
  <2>1. <<>> \in Seq(Frame) /\ Len(<<>>) = 0
    OBVIOUS
  <2>2. CASE UNCHANGED buffers
    BY <2>2 DEF LinkTypes, buffers
  <2>3. CASE pending' = <<>> /\ deferred' = <<>>
    BY <2>1, <2>3
  <2> QED
    BY <1>1, <2>2, <2>3
<1>5. events' \in Seq(Reports) /\ shown' \in {"PASS", "RECORD", "ERROR"}
  <2>1. events \in Seq(Reports) /\ <<>> \in Seq(Reports) /\ shown \in {"PASS", "RECORD", "ERROR"}
    BY DEF LinkTypes, LinkTypeOK
  <2> QED
    BY <1>1, <2>1
<1>6. Exchanging'
  BY <1>2 DEF Exchanging, Target
<1> QED
  BY <1>1, <1>2, <1>3, <1>4, <1>5, <1>6 DEF LinkTypes, LinkTypeOK, peerVars, Target

LEMMA FailureTypes ==
    ASSUME LinkTypes, ModeChangedWhileRecording \/ Refused \/ DamagedRead \/ TimesOut
    PROVE  LinkTypes'
<1>1. /\ stage # "idle" /\ UNCHANGED <<peerVars, captured>>
      /\ trouble' \subseteq Troubles
  BY DEF ModeChangedWhileRecording, Refused, DamagedRead, TimesOut, Reading, Exchanging, Target,
         counters, Meet, LinkTypes, LinkTypeOK, Troubles
<1>2. fromPico' \in Seq(Frame)
  <2>1. \/ UNCHANGED fromPico
        \/ \E n \in 1..Len(fromPico) : fromPico' = SubSeq(fromPico, n + 1, Len(fromPico))
    BY DEF ModeChangedWhileRecording, Refused, DamagedRead, TimesOut
  <2> QED
    BY <2>1, FramesRead DEF LinkTypes
<1>3. /\ pending' \in Seq(Frame) /\ deferred' \in Seq(Frame)
      /\ \A i \in 1..Len(deferred') : IsEvent(deferred'[i])
      /\ deferred' = <<>>
  <2>1. CASE ModeChangedWhileRecording
    <3>1. deferred = <<>> /\ deferred' = deferred
      BY <2>1 DEF ModeChangedWhileRecording, LinkTypes, LinkTypeOK, Exchanging, Target
    <3>2. pending # <<>> /\ pending' = Tail(pending)
      BY <2>1 DEF ModeChangedWhileRecording, HeadIs
    <3> QED
      BY <3>1, <3>2, FrameTaken DEF LinkTypes
  <2>2. CASE Refused
    <3>1. pending # <<>> /\ PutBack(Tail(pending))
      BY <2>2 DEF Refused, HeadIs
    <3> QED
      BY <3>1, FrameTaken, FramesPutBack
  <2>3. CASE DamagedRead
    <3>1. PutBack(<<>>) /\ <<>> \in Seq(Frame)
      BY <2>3 DEF DamagedRead
    <3> QED
      BY <3>1, FramesPutBack
  <2>4. CASE TimesOut
    <3>1. PutBack(pending) /\ pending \in Seq(Frame)
      BY <2>4 DEF TimesOut, LinkTypes
    <3> QED
      BY <3>1, FramesPutBack
  <2> QED
    BY <2>1, <2>2, <2>3, <2>4
<1>4. /\ stage' \in DOMAIN Target \cup {"record", "idle"} /\ events' \in Seq(Reports)
      /\ attempt' \in 0..Retries /\ shown' \in {"PASS", "RECORD", "ERROR"}
      /\ toPico' \in Seq({"RECORD", "PASS"})
  <2>1. CASE \E why : GiveUp(why)
    <3>1. /\ events' = events
          /\ shown' \in {"PASS", "RECORD", "ERROR"} /\ attempt' \in 0..Retries
          /\ toPico' \in Seq({"RECORD", "PASS"})
          /\ stage' \in {"abort", "idle"}
      BY <1>1, <2>1, GivenUp
    <3> QED
      BY <3>1 DEF LinkTypes, LinkTypeOK, Target
  <2>2. CASE TimesOut /\ CanRetry
    <3>1. /\ attempt' = attempt + 1 /\ toPico' = Append(toPico, Target[stage])
          /\ UNCHANGED <<stage, events, shown, failure>>
      BY <2>2 DEF TimesOut
    <3>2. Target[stage] \in {"RECORD", "PASS"}
      BY <2>2 DEF TimesOut, Exchanging, Target
    <3>3. attempt' \in 0..Retries
      BY <2>2, <3>1, LinkAssumption DEF CanRetry, LinkTypes, LinkTypeOK
    <3> QED
      BY <3>1, <3>2, <3>3 DEF LinkTypes, LinkTypeOK
  <2> QED
    BY <2>1, <2>2 DEF ModeChangedWhileRecording, Refused, DamagedRead, TimesOut
<1> QED
  BY <1>1, <1>2, <1>3, <1>4 DEF LinkTypes, LinkTypeOK, peerVars

LEMMA ProgressTypes ==
    ASSUME LinkTypes, ConsumeEvent \/ Confirmed
    PROVE  LinkTypes'
<1>1. CASE ConsumeEvent
  <2>1. /\ pending # <<>> /\ IsEvent(Head(pending))
        /\ events' = Append(events, Head(pending).report) /\ pending' = Tail(pending)
        /\ UNCHANGED <<peerVars, wire, deferred, stage, attempt, shown, failure, counters, trouble, late>>
    BY <1>1 DEF ConsumeEvent, HeadIs, IsEvent
  <2>2. Head(pending) \in Frame /\ pending' \in Seq(Frame)
    BY <2>1, FrameTaken
  <2>3. Head(pending).report \in Reports
    BY <2>1, <2>2, Frames
  <2>4. events' \in Seq(Reports)
    BY <2>1, <2>3 DEF LinkTypes, LinkTypeOK
  <2> QED
    BY <2>1, <2>2, <2>4 DEF LinkTypes, LinkTypeOK, peerVars, wire, counters, Exchanging
<1>2. CASE Confirmed
  <2>1. /\ pending # <<>> /\ PutBack(Tail(pending))
        /\ stage' \in {"record", "idle"} /\ shown' \in {shown, "PASS"}
        /\ UNCHANGED <<peerVars, wire, attempt, events, failure, counters, trouble, late>>
    BY <1>2 DEF Confirmed, Acknowledged, HeadIs
  <2>2. /\ pending' \in Seq(Frame) /\ deferred' \in Seq(Frame) /\ deferred' = <<>>
        /\ \A i \in 1..Len(deferred') : IsEvent(deferred'[i])
    BY <2>1, FrameTaken, FramesPutBack
  <2> QED
    BY <2>1, <2>2 DEF LinkTypes, LinkTypeOK, peerVars, wire, counters
<1> QED
  BY <1>1, <1>2

LEMMA DrainedReports ==
    ASSUME NEW d \in Seq(Frame)
    PROVE  ReportsOf(d) \in Seq(Reports)
<1>1. Len(d) \in Nat
  BY LenProperties
<1>2. PICK g : Collected(g, d, Len(d)) /\ ReportsOf(d) = g[Len(d)]
  BY <1>1, ReportsCollected
<1> DEFINE T == {m \in Nat : m =< Len(d) => g[m] \in Seq(Reports)}
<1>3. 0 \in T
  <2>1. g[0] = <<>>
    BY <1>1, <1>2, ReportsEmpty
  <2>2. g[0] \in Seq(Reports)
    BY <2>1
  <2> QED
    BY <2>2
<1>4. ASSUME NEW m \in Nat, m \in T PROVE m + 1 \in T
  <2> SUFFICES ASSUME m + 1 =< Len(d) PROVE g[m + 1] \in Seq(Reports)
    OBVIOUS
  <2>1. m < Len(d) /\ m =< Len(d) /\ m + 1 \in 1..Len(d)
    BY <1>1
  <2>2. g[m] \in Seq(Reports) /\ d[m + 1] \in Frame
    BY <1>4, <2>1
  <2>3. g[m + 1] = IF IsEvent(d[m + 1]) THEN Append(g[m], d[m + 1].report) ELSE g[m]
    BY <1>1, <1>2, <2>1, ReportsNext
  <2>4. IsEvent(d[m + 1]) => d[m + 1].report \in Reports
    BY <2>2, Frames
  <2> QED
    BY <2>2, <2>3, <2>4
<1>5. Nat \subseteq T
  <2> HIDE DEF T
  <2> QED
    BY <1>3, <1>4, SetInduction
<1> QED
  BY <1>1, <1>2, <1>5

\* What the drain of stop() adds to the builder.
Drained == Kept(Tail(pending))

LEMMA DrainedFrames ==
    ASSUME LinkTypes, pending # <<>>
    PROVE  Drained \in Seq(Frame) /\ ReportsOf(Drained) \in Seq(Reports)
<1>1. Drained \in Seq(Frame)
  BY FrameTaken DEF Drained, Kept, LinkTypes
<1> QED
  BY <1>1, DrainedReports

LEMMA StoppedAs ==
    ASSUME LinkTypes, Stopped
    PROVE  /\ stage = "stop" /\ Acknowledged /\ pending # <<>>
           /\ pending' = <<>> /\ deferred' = <<>> /\ stage' = "idle" /\ shown' = "PASS"
           /\ \/ events' = events
              \/ events' = events \o ReportsOf(Drained)
           /\ UNCHANGED <<peerVars, wire, attempt, counters, trouble, late>>
  BY DEF Stopped, Drained, Acknowledged, HeadIs

LEMMA StoppedTypes ==
    ASSUME LinkTypes, Stopped
    PROVE  LinkTypes'
<1>1. /\ pending # <<>> /\ pending' = <<>> /\ deferred' = <<>> /\ stage' = "idle" /\ shown' = "PASS"
      /\ UNCHANGED <<peerVars, wire, attempt, counters, trouble, late>>
  BY StoppedAs
<1>2. events' \in Seq(Reports)
  <2>1. events \in Seq(Reports) /\ ReportsOf(Drained) \in Seq(Reports)
    BY <1>1, DrainedFrames DEF LinkTypes, LinkTypeOK
  <2>2. events \o ReportsOf(Drained) \in Seq(Reports)
    BY <2>1, ConcatProperties
  <2> QED
    BY <2>1, <2>2, StoppedAs
<1>3. /\ pending' \in Seq(Frame) /\ deferred' \in Seq(Frame)
      /\ \A i \in 1..Len(deferred') : IsEvent(deferred'[i])
  <2>1. <<>> \in Seq(Frame) /\ Len(<<>>) = 0
    OBVIOUS
  <2> QED
    BY <1>1, <2>1
<1> QED
  BY <1>1, <1>2, <1>3 DEF LinkTypes, LinkTypeOK, peerVars, wire, counters

LEMMA LinkTypesStep ==
    ASSUME LinkTypes, [LinkNext]_linkVars
    PROVE  LinkTypes'
<1>1. CASE UNCHANGED linkVars
  BY <1>1 DEF LinkTypes, LinkTypeOK, linkVars, peerVars, wire, buffers, session, counters, Exchanging
<1> QED
  BY <1>1, RequestHandled, KeyTaken, FaultReported, ReadTypes, RequestTypes, FailureTypes,
     ProgressTypes, StoppedTypes DEF LinkNext

-----------------------------------------------------------------------------
(* The order of the reports is kept by every step. *)

FlowInv == Flow(events, Way, captured)

LEMMA WayTypes ==
    ASSUME LinkTypes
    PROVE  FlowTypes(events, Way, captured)
<1>1. Way \in Seq(Frame)
  BY ThroughJoins DEF LinkTypes, Way
<1>2. events \in Seq(Nat) /\ captured \in Nat
  <2>1. events \in Seq(Reports) /\ captured \in 0..MaxKeys
    BY DEF LinkTypes, LinkTypeOK
  <2>2. Reports \subseteq Nat /\ MaxKeys \in Nat
    BY ReportsAreNaturals
  <2> QED
    <3>1. events \in Seq(Nat)
      BY <2>1, <2>2, SeqMonotonic, Zenon
    <3> QED
      BY <2>1, <2>2, <3>1
<1> QED
  BY <1>1, <1>2 DEF FlowTypes

LEMMA WayTyped == LinkTypes => FlowTypes(events, Way, captured)
  BY WayTypes

LEMMA PartOfItself ==
    ASSUME NEW w \in Seq(Frame)
    PROVE  Part(w, w)
<1> DEFINE f == [i \in 1..Len(w) |-> i]
<1>1. /\ f \in [1..Len(w) -> 1..Len(w)]
      /\ \A i, j \in 1..Len(w) : i < j => f[i] < f[j]
      /\ \A i \in 1..Len(w) : w[i] = w[f[i]]
  OBVIOUS
<1> QED
  BY <1>1 DEF Part

LEMMA NothingIsPart ==
    ASSUME NEW w \in Seq(Frame)
    PROVE  Part(<<>>, w)
<1> DEFINE f == [i \in 1..Len(<<>>) |-> i]
<1>1. /\ f \in [1..Len(<<>>) -> 1..Len(w)]
      /\ \A i, j \in 1..Len(<<>>) : i < j => f[i] < f[j]
      /\ \A i \in 1..Len(<<>>) : <<>>[i] = w[f[i]]
  OBVIOUS
<1> QED
  BY <1>1 DEF Part

\* A step that only drops frames, and perhaps begins a recording.
LEMMA FlowAfterDrop ==
    ASSUME LinkTypes, LinkTypes', FlowInv, Part(Way', Way), events' \in {events, <<>>},
           captured' = captured
    PROVE  FlowInv'
<1>1. FlowTypes(events, Way, captured) /\ FlowTypes(events', Way', captured')
  <2>1. LinkTypes' => FlowTypes(events, Way, captured)'
    BY WayTyped, PTL
  <2> QED
    BY <2>1, WayTypes
<1>2. Flow(events, Way', captured)
  BY <1>1, FlowOfPart DEF FlowInv, FlowTypes
<1>3. FlowTypes(events, Way', captured)
  BY <1>1 DEF FlowTypes
<1>4. Flow(<<>>, Way', captured)
  BY <1>2, <1>3, FlowAnew
<1> QED
  BY <1>2, <1>4 DEF FlowInv

LEMMA WayKept ==
    ASSUME LinkTypes, Way' = Way
    PROVE  Part(Way', Way)
  BY WayTypes, PartOfItself DEF FlowTypes

LEMMA WayWithoutHead ==
    ASSUME LinkTypes, pending # <<>>, NEW w, w = Through(deferred, Tail(pending), fromPico)
    PROVE  /\ w \in Seq(Frame) /\ Removed(w, Way, Len(deferred) + 1)
           /\ Way[Len(deferred) + 1] = Head(pending) /\ Part(w, Way)
<1>1. /\ deferred \in Seq(Frame) /\ pending \in Seq(Frame) /\ fromPico \in Seq(Frame)
      /\ Tail(pending) \in Seq(Frame) /\ Way \in Seq(Frame)
  BY FrameTaken, WayTypes DEF LinkTypes, FlowTypes
<1>2. Removed(w, Way, Len(deferred) + 1) /\ Way[Len(deferred) + 1] = Head(pending)
  BY <1>1, ThroughTaken DEF Way
<1>3. w \in Seq(Frame)
  BY <1>1, ThroughJoins
<1> QED
  BY <1>1, <1>2, <1>3, RemovedIsPart

LEMMA WayPutBack ==
    ASSUME LinkTypes, NEW rest \in Seq(Frame), PutBack(rest), UNCHANGED fromPico
    PROVE  Way' = Through(deferred, rest, fromPico)
<1>1. pending' = deferred \o rest /\ deferred' = <<>>
  BY FramesPutBack
<1> QED
  BY <1>1, ThroughPutBack DEF Way, LinkTypes

\* Frames on the wire are dropped.
LEMMA WayDropped ==
    ASSUME LinkTypes, pending = <<>>, NEW n \in 1..Len(fromPico),
           fromPico' = SubSeq(fromPico, n + 1, Len(fromPico)),
           UNCHANGED buffers \/ PutBack(<<>>)
    PROVE  Part(Way', Way)
<1> DEFINE a == deferred \o pending
<1>1. a \in Seq(Frame) /\ fromPico \in Seq(Frame) /\ n \in 0..Len(fromPico) /\ deferred \in Seq(Frame)
  BY ConcatProperties DEF LinkTypes
<1>2. Part(a \o SubSeq(fromPico, n + 1, Len(fromPico)), a \o fromPico)
  BY <1>1, MiddleIsPart
<1>3. deferred' \o pending' = a
  <2>1. CASE UNCHANGED buffers
    BY <2>1 DEF buffers
  <2>2. CASE PutBack(<<>>)
    <3>1. pending' = deferred \o <<>> /\ deferred' = <<>>
      BY <2>2 DEF PutBack, Kept
    <3>2. <<>> \o a = a
      BY <1>1, ConcatEmptySeq
    <3> QED
      BY <3>1, <3>2
  <2> QED
    BY <2>1, <2>2
<1> QED
  BY <1>2, <1>3 DEF Way, Through

LEMMA FlowSent ==
    ASSUME LinkTypes, FlowInv, UNCHANGED <<events, buffers, captured>>,
           fromPico' = fromPico \o sent',
           NEW frame \in Frame, ~IsEvent(frame), SentOne(frame)
    PROVE  FlowInv'
<1>1. /\ deferred \in Seq(Frame) /\ pending \in Seq(Frame) /\ fromPico \in Seq(Frame)
      /\ FlowTypes(events, Way, captured)
  BY WayTypes DEF LinkTypes
<1>2. CASE sent' = <<>>
  <2>1. fromPico' = fromPico
    BY <1>1, <1>2, ConcatEmptySeq
  <2> QED
    BY <2>1 DEF FlowInv, Way, buffers
<1>3. CASE sent' = <<frame>>
  <2>1. Way' = Through(deferred, pending, fromPico \o <<frame>>)
    BY <1>3 DEF Way, buffers
  <2>2. <<frame>> \in Seq(Frame)
    BY <2>1
  <2>3. Way' = Way \o <<frame>>
    <3> DEFINE d == <<frame>>
               a == deferred \o pending
               S == Frame
    <3>1. a \in Seq(S) /\ fromPico \in Seq(S) /\ d \in Seq(S)
      BY <1>1, <2>2
    <3>2. Way' = a \o (fromPico \o d)
      BY <2>1 DEF Through
    <3> HIDE DEF a, d, S
    <3>3. a \o (fromPico \o d) = (a \o fromPico) \o d
      BY <3>1
    <3> QED
      BY <3>2, <3>3 DEF Way, Through, a, d
  <2> QED
    BY <1>1, <2>3, FlowAnswered DEF FlowInv
<1> QED
  BY <1>2, <1>3 DEF SentOne

LEMMA FlowKeyTaken ==
    ASSUME LinkTypes, FlowInv, KeyCaptured
    PROVE  FlowInv'
<1>1. /\ deferred \in Seq(Frame) /\ pending \in Seq(Frame) /\ fromPico \in Seq(Frame)
      /\ FlowTypes(events, Way, captured)
  BY WayTypes DEF LinkTypes
<1>2. /\ captured' = captured + 1 /\ captured + 1 \in Reports /\ fromPico' = fromPico \o sent'
      /\ UNCHANGED <<events, buffers>> /\ SentOne(RecordEvent(captured + 1))
  BY KeyTaken DEF KeyCaptured, Emit, session
<1>3. Flow(events, Way, captured + 1) /\ Flow(events, Way \o <<RecordEvent(captured + 1)>>, captured + 1)
  BY <1>1, FlowCaptured DEF FlowInv
<1>4. CASE sent' = <<>>
  <2>1. fromPico' = fromPico
    BY <1>1, <1>2, <1>4, ConcatEmptySeq
  <2> QED
    BY <1>2, <1>3, <2>1 DEF FlowInv, Way, buffers
<1>5. CASE sent' = <<RecordEvent(captured + 1)>>
  <2> DEFINE frame == RecordEvent(captured + 1)
  <2>1. Way' = Through(deferred, pending, fromPico \o <<frame>>) /\ frame \in Frame
    BY <1>2, <1>5, EventFrames DEF Way, buffers
  <2>2. <<frame>> \in Seq(Frame)
    BY <2>1
  <2>3. Way' = Way \o <<frame>>
    <3> DEFINE d == <<frame>>
               a == deferred \o pending
               S == Frame
    <3>1. a \in Seq(S) /\ fromPico \in Seq(S) /\ d \in Seq(S)
      BY <1>1, <2>2
    <3>2. Way' = a \o (fromPico \o d)
      BY <2>1 DEF Through
    <3> HIDE DEF a, d, S
    <3>3. a \o (fromPico \o d) = (a \o fromPico) \o d
      BY <3>1
    <3> QED
      BY <3>2, <3>3 DEF Way, Through, a, d
  <2> QED
    BY <1>2, <1>3, <2>3 DEF FlowInv
<1> QED
  BY <1>2, <1>4, <1>5 DEF SentOne

LEMMA FlowConsumeEvent ==
    ASSUME LinkTypes, LinkTypes', FlowInv, ConsumeEvent
    PROVE  FlowInv'
<1>1. /\ stage = "record" /\ pending # <<>> /\ IsEvent(Head(pending))
      /\ events' = Append(events, Head(pending).report) /\ pending' = Tail(pending)
      /\ UNCHANGED <<fromPico, deferred, captured>>
  BY DEF ConsumeEvent, HeadIs, IsEvent, wire, counters
<1>2. deferred = <<>> /\ Len(deferred) + 1 = 1
  BY <1>1 DEF LinkTypes, LinkTypeOK, Exchanging, Target
<1>3. Way' = Through(deferred, Tail(pending), fromPico)
  BY <1>1 DEF Way
<1>4. Way' \in Seq(Frame) /\ Removed(Way', Way, 1) /\ Way[1] = Head(pending)
  BY <1>1, <1>2, <1>3, WayWithoutHead
<1>5. FlowTypes(events, Way, captured)
  BY WayTypes
<1>6. Flow(Append(events, Way[1].report), Way', captured)
  BY <1>1, <1>4, <1>5, FlowConsumed DEF FlowInv
<1> QED
  BY <1>1, <1>4, <1>6 DEF FlowInv

LEMMA FlowStopped ==
    ASSUME LinkTypes, LinkTypes', FlowInv, Stopped
    PROVE  FlowInv'
<1>1. /\ pending # <<>> /\ pending' = <<>> /\ deferred' = <<>>
      /\ (events' = events \/ events' = events \o ReportsOf(Drained))
      /\ UNCHANGED <<fromPico, captured>>
  BY StoppedAs DEF wire, counters
<1>2. /\ deferred \in Seq(Frame) /\ pending \in Seq(Frame) /\ fromPico \in Seq(Frame)
      /\ Drained \in Seq(Frame)
  BY <1>1, DrainedFrames DEF LinkTypes
<1>3. Way' = fromPico
  <2>1. <<>> \o <<>> = <<>> /\ <<>> \o fromPico = fromPico
    BY <1>2, ConcatEmptySeq
  <2> QED
    BY <1>1, <2>1 DEF Way, Through
<1>4. CASE events' = events
  <2>1. deferred \o pending \in Seq(Frame)
    BY <1>2, ConcatProperties
  <2>2. Part(fromPico, Way)
    BY <1>2, <2>1, FrontIsPart DEF Way, Through
  <2> QED
    BY <1>1, <1>3, <1>4, <2>2, FlowAfterDrop
<1>5. CASE events' = events \o ReportsOf(Drained)
  <2>1. Drained \o fromPico = Through(deferred, Tail(pending), fromPico)
    BY DEF Drained, Kept, Through
  <2>2. Drained \o fromPico \in Seq(Frame) /\ Part(Drained \o fromPico, Way)
    BY <1>1, <2>1, WayWithoutHead
  <2>3. FlowTypes(events, Way, captured) /\ events \in Seq(Nat) /\ captured \in Nat
    BY WayTypes DEF FlowTypes
  <2>4. Flow(events, Drained \o fromPico, captured)
    BY <2>2, <2>3, FlowOfPart DEF FlowInv
  <2>5. Flow(events \o ReportsOf(Drained), fromPico, captured)
    BY <1>2, <2>3, <2>4, FlowDrained
  <2> QED
    BY <1>1, <1>3, <1>5, <2>5 DEF FlowInv
<1> QED
  BY <1>1, <1>4, <1>5

\* Steps that leave every frame where it is on its way.
LEMMA WaySteady ==
    ASSUME LinkTypes, ReadChunk \/ Defer \/ TimesOut \/ StartSession \/ StopRequested \/ SafeStop
    PROVE  Way' = Way
<1>0. /\ deferred \in Seq(Frame) /\ pending \in Seq(Frame) /\ fromPico \in Seq(Frame)
  BY DEF LinkTypes
<1>1. CASE ReadChunk
  <2>1. pending = <<>> /\ UNCHANGED deferred
    BY <1>1 DEF ReadChunk, Reading
  <2>2. PICK n \in 1..Len(fromPico) : /\ pending' = SubSeq(fromPico, 1, n)
                                      /\ fromPico' = SubSeq(fromPico, n + 1, Len(fromPico))
    BY <1>1 DEF ReadChunk
  <2> QED
    BY <1>0, <2>1, <2>2, ThroughRead DEF Way
<1>2. CASE Defer
  <2>1. /\ pending # <<>> /\ deferred' = Append(deferred, Head(pending)) /\ pending' = Tail(pending)
        /\ UNCHANGED fromPico
    BY <1>2 DEF Defer, HeadIs, wire
  <2> QED
    BY <1>0, <2>1, ThroughMoved DEF Way
<1>3. CASE TimesOut
  <2>1. PutBack(pending) /\ UNCHANGED fromPico
    BY <1>3 DEF TimesOut
  <2> QED
    BY <1>0, <2>1, WayPutBack DEF Way
<1>4. CASE StartSession \/ StopRequested \/ SafeStop
  <2>1. UNCHANGED <<fromPico, buffers>>
    BY <1>4 DEF StartSession, StopRequested, SafeStop
  <2> QED
    BY <2>1 DEF Way, buffers
<1> QED
  BY <1>1, <1>2, <1>3, <1>4

\* Every other step of the Zero keeps the frames, or drops some.
LEMMA OtherStepsDrop ==
    ASSUME LinkTypes,
           \/ ReadChunk \/ Defer \/ DamagedRead \/ TimesOut
           \/ StartSession \/ StopRequested \/ CtrlC \/ SafeStop \/ Restart
           \/ ModeChangedWhileRecording \/ Confirmed \/ Refused
    PROVE  Part(Way', Way) /\ events' \in {events, <<>>} /\ captured' = captured
<1>0. /\ deferred \in Seq(Frame) /\ pending \in Seq(Frame) /\ fromPico \in Seq(Frame)
      /\ Way \in Seq(Frame)
  BY WayTypes DEF LinkTypes, FlowTypes
<1>1. CASE ReadChunk \/ Defer \/ TimesOut \/ StartSession \/ StopRequested \/ SafeStop
  <2>1. events' \in {events, <<>>} /\ captured' = captured
    BY <1>1 DEF ReadChunk, Defer, TimesOut, StartSession, StopRequested, SafeStop, GiveUp, session, counters
  <2> QED
    BY <1>1, <2>1, WaySteady, WayKept
<1>3. CASE DamagedRead
  <2>1. pending = <<>> /\ PutBack(<<>>) /\ UNCHANGED captured /\ UNCHANGED events
    BY <1>3 DEF DamagedRead, Reading, counters, GiveUp
  <2>2. PICK n \in 1..Len(fromPico) : fromPico' = SubSeq(fromPico, n + 1, Len(fromPico))
    BY <1>3 DEF DamagedRead
  <2> QED
    BY <2>1, <2>2, WayDropped
<1>6. CASE CtrlC
  <2>1. UNCHANGED <<buffers, events, captured>>
    BY <1>6 DEF CtrlC, counters
  <2>2. CASE pending = <<>>
    <3>1. PICK n \in 1..Len(fromPico) : fromPico' = SubSeq(fromPico, n + 1, Len(fromPico))
      BY <1>6, <2>2 DEF CtrlC
    <3> QED
      BY <2>1, <2>2, <3>1, WayDropped
  <2>3. CASE pending # <<>>
    <3>1. Way' = Way
      BY <1>6, <2>1, <2>3 DEF CtrlC, Way, buffers
    <3> QED
      BY <2>1, <3>1, WayKept
  <2> QED
    BY <2>2, <2>3
<1>7. CASE Restart
  <2>1. fromPico' = <<>> /\ pending' = <<>> /\ deferred' = <<>> /\ events' = <<>> /\ captured' = captured
    BY <1>7 DEF Restart, counters
  <2>2. Way' = <<>>
    BY <2>1 DEF Way, Through
  <2> QED
    BY <1>0, <2>1, <2>2, NothingIsPart
<1>8. CASE ModeChangedWhileRecording
  <2>1. /\ pending # <<>> /\ pending' = Tail(pending) /\ UNCHANGED <<fromPico, deferred, captured>>
        /\ UNCHANGED events
    BY <1>8 DEF ModeChangedWhileRecording, HeadIs, counters, GiveUp
  <2> QED
    BY <2>1, WayWithoutHead DEF Way
<1>9. CASE Confirmed \/ Refused
  <2>1. /\ pending # <<>> /\ PutBack(Tail(pending)) /\ UNCHANGED <<fromPico, captured>> /\ UNCHANGED events
    BY <1>9 DEF Confirmed, Acknowledged, Refused, HeadIs, wire, counters, GiveUp
  <2>2. Way' = Through(deferred, Tail(pending), fromPico)
    BY <2>1, FrameTaken, WayPutBack
  <2> QED
    BY <2>1, <2>2, WayWithoutHead
<1> QED
  BY <1>1, <1>3, <1>6, <1>7, <1>8, <1>9

LEMMA FlowStep ==
    ASSUME LinkTypes, LinkTypes', FlowInv, [LinkNext]_linkVars
    PROVE  FlowInv'
<1>1. CASE HandleRequest \/ LinkFault
  <2>1. UNCHANGED <<events, buffers, captured>> /\ fromPico' = fromPico \o sent'
    BY <1>1 DEF HandleRequest, Emit, LinkFault, session, counters
  <2> QED
    BY <1>1, <2>1, RequestHandled, FaultReported, FlowSent
<1>2. CASE UNCHANGED linkVars
  <2>1. Way' = Way /\ events' = events /\ captured' = captured
    BY <1>2 DEF linkVars, wire, buffers, session, counters, Way
  <2> QED
    BY <2>1, WayKept, FlowAfterDrop
<1>3. CASE \/ ReadChunk \/ Defer \/ DamagedRead \/ TimesOut
           \/ StartSession \/ StopRequested \/ CtrlC \/ SafeStop \/ Restart
           \/ ModeChangedWhileRecording \/ Confirmed \/ Refused
  BY <1>3, OtherStepsDrop, FlowAfterDrop
<1> QED
  BY <1>1, <1>2, <1>3, FlowKeyTaken, FlowConsumeEvent, FlowStopped DEF LinkNext

LEMMA LinkInitially ==
    ASSUME LinkInit
    PROVE  LinkTypes /\ FlowInv
<1>1. /\ mode = "PASS" /\ toPico = <<>> /\ fromPico = <<>> /\ pending = <<>> /\ deferred = <<>>
      /\ stage = "idle" /\ attempt = 0 /\ events = <<>> /\ shown = "PASS" /\ captured = 0 /\ trouble = {}
  BY DEF LinkInit, Init
<1>2. Retries \in Nat /\ MaxKeys \in Nat
  BY LinkAssumption
<1>3. LinkTypes
  BY <1>1, <1>2 DEF LinkTypes, LinkTypeOK, Modes, Exchanging, Target
<1>4. Way = <<>>
  BY <1>1 DEF Way, Through
<1>5. Flow(<<>>, <<>>, 0)
  BY DEF Flow, Increasing, Sorted, Precede
<1> QED
  BY <1>1, <1>3, <1>4, <1>5 DEF FlowInv

\* The inductive invariant: the types, and the reports in order from the
\* builder through the buffers of the transport to the wire.
OrderInv == LinkTypes /\ FlowInv

THEOREM OrderInvariance == LinkSpec => []OrderInv
<1>1. LinkInit => OrderInv
  BY LinkInitially DEF OrderInv
<1>2. OrderInv /\ [LinkNext]_linkVars => OrderInv'
  <2> SUFFICES ASSUME OrderInv, [LinkNext]_linkVars PROVE OrderInv'
    OBVIOUS
  <2>1. LinkTypes'
    BY LinkTypesStep DEF OrderInv
  <2> QED
    BY <2>1, FlowStep DEF OrderInv
<1> QED
  BY <1>1, <1>2, PTL DEF LinkSpec

\* However frames are deferred, put back, lost, damaged or left over from the
\* session before, and wherever the process dies: the builder is given reports
\* in the order of their capture and none twice (recording.py, "Pico timestamp
\* moved backwards").
THEOREM RecordedInOrderAlways == LinkSpec => []RecordedInOrder
<1>1. OrderInv => RecordedInOrder
  <2> SUFFICES ASSUME OrderInv PROVE RecordedInOrder
    OBVIOUS
  <2>1. events \in Seq(Reports)
    BY DEF OrderInv, LinkTypes, LinkTypeOK
  <2>2. DOMAIN events = 1..Len(events)
    BY <2>1
  <2>3. InCaptureOrder
    BY <2>2 DEF OrderInv, FlowInv, Flow, Increasing, InCaptureOrder
  <2> QED
    BY <2>3 DEF OrderInv, LinkTypes, RecordedInOrder
<1> QED
  BY <1>1, OrderInvariance, PTL

-----------------------------------------------------------------------------
(* The request that is handled last asks for PASS. *)

PassAsked == IF toPico = <<>> THEN mode = "PASS" ELSE toPico[Len(toPico)] = "PASS"

Leaving == {"idle", "stop", "abort"}

LeavingInv == stage \in Leaving /\ "request" \notin trouble => PassAsked

LEMMA PassAskedNow ==
    ASSUME LinkTypes, NEW next \in {"stop", "abort"}, Ask(next)
    PROVE  PassAsked'
<1>1. toPico' = Append(toPico, "PASS") /\ toPico \in Seq({"RECORD", "PASS"})
  BY AskWritten DEF Target, LinkTypes
<1>2. toPico' # <<>> /\ toPico'[Len(toPico')] = "PASS"
  BY <1>1
<1> QED
  BY <1>2 DEF PassAsked

LEMMA LeavingHandled ==
    ASSUME LinkTypes, LeavingInv, HandleRequest
    PROVE  LeavingInv'
<1>1. /\ toPico # <<>> /\ toPico \in Seq({"RECORD", "PASS"}) /\ mode \in Modes
      /\ ModeSet(Head(toPico)) /\ toPico' = Tail(toPico) /\ stage' = stage
      /\ trouble \subseteq trouble'
  BY DEF HandleRequest, LinkTypes, Emit, Meet, session
<1> SUFFICES ASSUME stage \in Leaving, "request" \notin trouble PROVE PassAsked'
  BY <1>1 DEF LeavingInv
<1>2. toPico[Len(toPico)] = "PASS"
  BY <1>1 DEF LeavingInv, PassAsked
<1>3. CASE Len(toPico) = 1
  <2>1. toPico' = <<>> /\ Head(toPico) = "PASS"
    BY <1>1, <1>2, <1>3
  <2>2. mode' = "PASS"
    BY <1>1, <2>1, RequestAnswered
  <2> QED
    BY <2>1, <2>2 DEF PassAsked
<1>4. CASE Len(toPico) # 1
  <2>1. toPico' # <<>> /\ toPico'[Len(toPico')] = toPico[Len(toPico)]
    BY <1>1, <1>4, LastStays, Zenon
  <2> QED
    BY <1>2, <2>1 DEF PassAsked
<1> QED
  BY <1>3, <1>4

LEMMA LeavingGivenUp ==
    ASSUME LinkTypes, LeavingInv, NEW why, GiveUp(why), stage # "idle", mode' = mode,
           trouble \subseteq trouble'
    PROVE  LeavingInv'
<1>1. CASE stage \in {"start", "record"}
  <2>1. toPico' = Append(toPico, "PASS") /\ toPico \in Seq({"RECORD", "PASS"})
    BY <1>1, GivenUp DEF LinkTypes
  <2>2. toPico' # <<>> /\ toPico'[Len(toPico')] = "PASS"
    BY <2>1
  <2> QED
    BY <2>2 DEF LeavingInv, PassAsked
<1>2. CASE stage \notin {"start", "record"}
  <2>1. stage \in {"stop", "abort"} /\ toPico' = toPico
    BY <1>2, GivenUp DEF LinkTypes, LinkTypeOK, Target
  <2> QED
    BY <2>1 DEF LeavingInv, PassAsked, Leaving
<1> QED
  BY <1>1, <1>2

LEMMA LeavingStep ==
    ASSUME LinkTypes, LeavingInv, [LinkNext]_linkVars
    PROVE  LeavingInv'
<1>1. CASE KeyCaptured
  <2>1. mode' = mode /\ toPico' = toPico /\ stage' = stage /\ trouble \subseteq trouble'
    BY <1>1, CaptureSent DEF KeyCaptured, session, Emit, Meet
  <2> QED
    BY <2>1 DEF LeavingInv, PassAsked
<1>2. CASE LinkFault
  <2>1. /\ mode = "PASS" => mode' = "PASS"
        /\ stage' = stage /\ trouble \subseteq trouble'
        /\ "request" \notin trouble' => toPico' = toPico
    BY <1>2, FaultAnswered DEF LinkFault, session, Meet, LinkTypes
  <2> QED
    BY <2>1 DEF LeavingInv, PassAsked
<1>3. CASE ReadChunk \/ Defer \/ ConsumeEvent \/ Stopped \/ UNCHANGED linkVars
  <2>1. /\ mode' = mode /\ toPico' = toPico /\ trouble' = trouble
        /\ stage' = stage \/ (stage = "stop" /\ stage' = "idle")
    BY <1>3 DEF ReadChunk, Defer, ConsumeEvent, Stopped, linkVars, peerVars, wire, session
  <2> QED
    BY <2>1 DEF LeavingInv, PassAsked, Leaving
<1>4. CASE Confirmed
  <2>1. /\ mode' = mode /\ toPico' = toPico /\ trouble' = trouble
        /\ stage' = "record" \/ (stage = "abort" /\ stage' = "idle")
    BY <1>4 DEF Confirmed, peerVars, wire
  <2> QED
    BY <2>1 DEF LeavingInv, PassAsked, Leaving
<1>5. CASE StartSession
  BY <1>5, AskWritten DEF StartSession, LeavingInv, Leaving
<1>6. CASE StopRequested \/ CtrlC \/ SafeStop \/ Restart
  BY <1>6, PassAskedNow DEF StopRequested, CtrlC, SafeStop, Restart, LeavingInv
<1>7. CASE ModeChangedWhileRecording \/ Refused \/ DamagedRead \/ (TimesOut /\ ~CanRetry)
  <2>1. /\ \E why : GiveUp(why)
        /\ stage # "idle" /\ mode' = mode /\ trouble \subseteq trouble'
    BY <1>7 DEF ModeChangedWhileRecording, Refused, DamagedRead, TimesOut, Reading, Exchanging, Target,
                peerVars, Meet
  <2> QED
    BY <2>1, LeavingGivenUp
<1>8. CASE TimesOut /\ CanRetry
  <2>1. /\ toPico' = Append(toPico, Target[stage]) /\ stage' = stage /\ Exchanging
        /\ toPico \in Seq({"RECORD", "PASS"})
    BY <1>8 DEF TimesOut, LinkTypes
  <2>2. CASE stage = "start"
    BY <2>1, <2>2 DEF LeavingInv, Leaving
  <2>3. CASE stage # "start"
    <3>1. toPico' = Append(toPico, "PASS")
      BY <2>1, <2>3 DEF Exchanging, Target
    <3>2. toPico' # <<>> /\ toPico'[Len(toPico')] = "PASS"
      BY <2>1, <3>1
    <3> QED
      BY <3>2 DEF LeavingInv, PassAsked
  <2> QED
    BY <2>2, <2>3
<1> QED
  BY <1>1, <1>2, <1>3, <1>4, <1>5, <1>6, <1>7, <1>8, LeavingHandled DEF LinkNext

\* Whatever fails, and wherever the process dies: once the requests of a
\* session that ended have arrived, the Pico is in PASS and the keyboard works
\* (service.py, "always attempts a safe return to PASS").
THEOREM LeftInPassAlways == LinkSpec => []LeftInPass
<1>1. LinkInit => LinkTypes /\ LeavingInv
  BY LinkInitially DEF LinkInit, Init, LeavingInv, PassAsked
<1>2. LinkTypes /\ LeavingInv /\ [LinkNext]_linkVars => (LinkTypes /\ LeavingInv)'
  BY LinkTypesStep, LeavingStep
<1>3. LinkTypes /\ LeavingInv => LeftInPass
  BY DEF LeavingInv, Leaving, PassAsked, LeftInPass
<1> QED
  BY <1>1, <1>2, <1>3, PTL DEF LinkSpec

-----------------------------------------------------------------------------
(* A link without trouble and late answers, in the stages of a session. *)

HealthyLink == trouble = {} /\ late = 0

\* From place lo to place hi, w has the events with the reports first, ...
Run(w, lo, hi, first) == \A i \in lo..hi : w[i] = RecordEvent(first + (i - lo))

\* What is captured and not yet in the builder is on the way: the first `many'
\* frames from place lo on.
RestOnWay(lo, many) ==
    /\ Run(Way, lo, lo + many - 1, firstOwn + Len(events))
    /\ firstOwn + Len(events) + many = captured + 1

NothingOnWay == toPico = <<>> /\ mode = "PASS" /\ Way = <<>>

Starting ==
    /\ events = <<>>
    /\ \/ toPico = <<"RECORD">> /\ mode = "PASS" /\ Way = <<>> /\ firstOwn = captured + 1
       \/ /\ toPico = <<>> /\ mode = "RECORD"
          /\ Way # <<>> /\ Way[1] = ModeChanged("RECORD", "OK")
          /\ RestOnWay(2, Len(Way) - 1)

Recording == toPico = <<>> /\ mode = "RECORD" /\ RestOnWay(1, Len(Way))

Stopping ==
    \/ toPico = <<"PASS">> /\ mode = "RECORD" /\ RestOnWay(1, Len(Way))
    \/ /\ toPico = <<>> /\ mode = "PASS"
       /\ Way # <<>> /\ Way[Len(Way)] = ModeChanged("PASS", "OK")
       /\ RestOnWay(1, Len(Way) - 1)

Aborting ==
    \/ toPico = <<"PASS">> /\ mode = "PASS" /\ Way = <<>>
    \/ toPico = <<>> /\ mode = "PASS" /\ Way = <<ModeChanged("PASS", "OK")>>

OwnEvents == \A i \in 1..Len(events) : events[i] = firstOwn + (i - 1)

InStage ==
    /\ failure = "none"
    /\ stage = "idle" => NothingOnWay
    /\ stage = "start" => Starting
    /\ stage = "record" => Recording /\ OwnEvents
    /\ stage = "stop" => Stopping /\ OwnEvents
    /\ stage = "abort" => Aborting

Counted == late \in Nat /\ firstOwn \in Nat

StageInv == Counted /\ (HealthyLink => InStage)

LEMMA Distinct ==
    ASSUME NEW state, NEW reason, NEW n
    PROVE  /\ ModeChanged(state, reason) # RecordEvent(n)
           /\ ModeChanged(state, reason).type = "MODE_CHANGED"
           /\ ModeChanged(state, reason).state = state
           /\ RecordEvent(n).type = "RECORD_EVENT" /\ RecordEvent(n).report = n
  BY DEF ModeChanged, RecordEvent

LEMMA WayParts ==
    ASSUME LinkTypes
    PROVE  /\ Way \in Seq(Frame) /\ Joins(Way, deferred, pending, fromPico)
           /\ Len(Way) \in Nat /\ Len(deferred) \in Nat /\ Len(pending) \in Nat /\ Len(fromPico) \in Nat
           /\ Len(events) \in Nat /\ captured \in Nat
<1>1. /\ deferred \in Seq(Frame) /\ pending \in Seq(Frame) /\ fromPico \in Seq(Frame)
      /\ events \in Seq(Reports) /\ captured \in Nat
  BY LinkAssumption DEF LinkTypes, LinkTypeOK
<1>2. Way \in Seq(Frame) /\ Joins(Way, deferred, pending, fromPico)
  BY <1>1, ThroughJoins DEF Way
<1> QED
  BY <1>1, <1>2, LenProperties

\* Where there is no trouble, a frame that is sent is on its way.
LEMMA HealthySent ==
    ASSUME LinkTypes, Emit, HealthyLink', NEW frame \in Frame, SentOne(frame), UNCHANGED buffers
    PROVE  /\ Len(Way') = Len(Way) + 1 /\ Way'[Len(Way) + 1] = frame
           /\ \A i \in 1..Len(Way) : Way'[i] = Way[i]
           /\ Way' = Way \o <<frame>>
<1>1. /\ deferred \in Seq(Frame) /\ pending \in Seq(Frame) /\ fromPico \in Seq(Frame) /\ Way \in Seq(Frame)
  BY WayParts DEF LinkTypes
<1>2. sent' # <<>>
  BY DEF Emit, Meet, HealthyLink
<1>3. fromPico' = fromPico \o <<frame>>
  BY <1>2 DEF Emit, SentOne
<1>4. Way' = Way \o <<frame>>
  <2> DEFINE d == <<frame>>
  <2>1. d \in Seq(Frame) /\ Way' = Through(deferred, pending, fromPico \o d)
    BY <1>3 DEF Way, buffers
  <2> HIDE DEF d
  <2>2. Through(deferred, pending, fromPico \o d) = Through(deferred, pending, fromPico) \o d
    BY <1>1, <2>1 DEF Through
  <2> QED
    BY <2>1, <2>2 DEF Way, d
<1> QED
  BY <1>1, <1>4

LEMMA HealthyRequest ==
    ASSUME LinkTypes, InStage, HandleRequest, HealthyLink', firstOwn \in Nat
    PROVE  InStage'
<1>1. /\ toPico # <<>> /\ toPico \in Seq({"RECORD", "PASS"}) /\ mode \in Modes
      /\ ModeSet(Head(toPico)) /\ toPico' = Tail(toPico) /\ Emit
      /\ UNCHANGED <<buffers, stage, events, failure, captured, firstOwn>>
  BY DEF HandleRequest, LinkTypes, session, counters
<1>2. Len(Way) \in Nat /\ Len(events) \in Nat
  BY WayParts
<1>3. \A target \in {"RECORD", "PASS"} : ModeChanged(target, "OK") \in Frame
  BY ModeFrames DEF Modes, Reasons
<1>4. CASE stage = "start"
  <2>1. events = <<>> /\ toPico = <<"RECORD">> /\ mode = "PASS" /\ Way = <<>> /\ firstOwn = captured + 1
    BY <1>1, <1>4 DEF InStage, Starting
  <2>2. mode' = "RECORD" /\ SentOne(ModeChanged("RECORD", "OK")) /\ toPico' = <<>>
    <3>1. Head(toPico) = "RECORD" /\ Tail(toPico) = <<>>
      BY <2>1
    <3> QED
      BY <1>1, <2>1, <3>1, RequestAnswered
  <2>3. Len(Way') = 1 /\ Way'[1] = ModeChanged("RECORD", "OK")
    <3>1. Len(Way) = 0
      BY <2>1
    <3>2. Len(Way') = Len(Way) + 1 /\ Way'[Len(Way) + 1] = ModeChanged("RECORD", "OK")
      BY <1>1, <1>3, <2>2, HealthySent
    <3> QED
      BY <3>1, <3>2
  <2>4. RestOnWay(2, Len(Way) - 1)'
    <3>1. Len(events') = 0
      BY <1>1, <2>1
    <3> QED
      BY <1>1, <2>1, <2>3, <3>1, WayParts DEF RestOnWay, Run
  <2>5. Way' # <<>>
    BY <2>3
  <2> QED
    BY <1>1, <1>4, <2>1, <2>2, <2>3, <2>4, <2>5 DEF InStage, Starting
<1>5. CASE stage = "stop"
  <2>1. toPico = <<"PASS">> /\ mode = "RECORD" /\ RestOnWay(1, Len(Way)) /\ OwnEvents
    BY <1>1, <1>5 DEF InStage, Stopping
  <2>2. mode' = "PASS" /\ SentOne(ModeChanged("PASS", "OK")) /\ toPico' = <<>>
    <3>1. Head(toPico) = "PASS" /\ Tail(toPico) = <<>>
      BY <2>1
    <3> QED
      BY <1>1, <2>1, <3>1, RequestAnswered
  <2>3. /\ Len(Way') = Len(Way) + 1 /\ Way'[Len(Way) + 1] = ModeChanged("PASS", "OK")
        /\ \A i \in 1..Len(Way) : Way'[i] = Way[i]
    BY <1>1, <1>3, <2>2, HealthySent
  <2>4. RestOnWay(1, Len(Way) - 1)'
    BY <1>1, <1>2, <2>1, <2>3 DEF RestOnWay, Run
  <2>5. Way' # <<>>
    BY <1>2, <2>3
  <2> QED
    BY <1>1, <1>5, <2>1, <2>2, <2>3, <2>4, <2>5 DEF InStage, Stopping, OwnEvents
<1>6. CASE stage = "abort"
  <2>1. toPico = <<"PASS">> /\ mode = "PASS" /\ Way = <<>>
    BY <1>1, <1>6 DEF InStage, Aborting
  <2>2. mode' = "PASS" /\ SentOne(ModeChanged("PASS", "OK")) /\ toPico' = <<>>
    <3>1. Head(toPico) = "PASS" /\ Tail(toPico) = <<>>
      BY <2>1
    <3> QED
      BY <1>1, <2>1, <3>1, RequestAnswered
  <2>3. Way' = <<ModeChanged("PASS", "OK")>>
    <3>1. Way' = Way \o <<ModeChanged("PASS", "OK")>>
      BY <1>1, <1>3, <2>2, HealthySent
    <3> QED
      BY <2>1, <3>1
  <2> QED
    BY <1>1, <1>6, <2>2, <2>3 DEF InStage, Aborting
<1>7. stage \notin {"idle", "record"}
  BY <1>1 DEF InStage, NothingOnWay, Recording
<1> QED
  BY <1>4, <1>5, <1>6, <1>7 DEF LinkTypes, LinkTypeOK, Target

LEMMA HealthyKey ==
    ASSUME LinkTypes, InStage, KeyCaptured, HealthyLink', firstOwn \in Nat
    PROVE  InStage'
<1>1. /\ captured' = captured + 1 /\ captured + 1 \in Reports
      /\ SentOne(RecordEvent(captured + 1)) /\ Emit /\ mode = "RECORD" /\ mode' = mode
      /\ UNCHANGED <<toPico, buffers, stage, events, failure, firstOwn>>
  BY KeyTaken, CaptureSent DEF KeyCaptured, session
<1>2. Len(Way) \in Nat /\ Len(events) \in Nat /\ captured \in Nat
  BY WayParts
<1>3. /\ Len(Way') = Len(Way) + 1 /\ Way'[Len(Way) + 1] = RecordEvent(captured + 1)
      /\ \A i \in 1..Len(Way) : Way'[i] = Way[i]
  BY <1>1, EventFrames, HealthySent
<1>4. ASSUME NEW lo \in {1, 2}, lo =< Len(Way) + 1, RestOnWay(lo, Len(Way) + 1 - lo)
      PROVE  RestOnWay(lo, Len(Way) + 1 - lo)'
  <2> DEFINE first == firstOwn + Len(events)
  <2>1. first \in Nat /\ first + (Len(Way) + 1 - lo) = captured + 1 /\ Run(Way, lo, Len(Way), first)
    BY <1>2, <1>4 DEF RestOnWay
  <2>2. first' = first /\ Len(Way') + 1 - lo = Len(Way) + 2 - lo
    BY <1>1, <1>3
  <2> HIDE DEF first
  <2>3. Run(Way', lo, Len(Way) + 1, first)
    <3> SUFFICES ASSUME NEW i \in lo..(Len(Way) + 1)
                 PROVE  Way'[i] = RecordEvent(first + (i - lo))
      BY DEF Run
    <3>1. CASE i =< Len(Way)
      BY <1>2, <1>3, <2>1, <3>1 DEF Run
    <3>2. CASE i = Len(Way) + 1
      <4>1. first + (i - lo) = captured + 1
        BY <1>2, <2>1, <3>2
      <4> QED
        BY <1>3, <3>2, <4>1
    <3> QED
      BY <1>2, <3>1, <3>2
  <2>4. first + (Len(Way) + 2 - lo) = captured' + 1
    BY <1>1, <1>2, <2>1
  <2>5. lo + (Len(Way) + 2 - lo) - 1 = Len(Way) + 1
    BY <1>2
  <2> QED
    BY <1>1, <2>2, <2>3, <2>4, <2>5 DEF RestOnWay, first
<1>5. CASE stage = "start"
  <2>1. /\ toPico = <<>> /\ Way # <<>> /\ Way[1] = ModeChanged("RECORD", "OK") /\ events = <<>>
        /\ RestOnWay(2, Len(Way) - 1)
    BY <1>1, <1>5 DEF InStage, Starting
  <2>2. Len(Way) >= 1 /\ 2 =< Len(Way) + 1 /\ Len(Way) + 1 - 2 = Len(Way) - 1
    BY <1>2, <2>1, WayParts
  <2>3. RestOnWay(2, Len(Way) - 1)'
    <3>1. Len(Way') + 1 - 2 = Len(Way') - 1
      BY <1>2, <1>3
    <3> QED
      BY <1>4, <2>1, <2>2, <3>1
  <2>4. Way'[1] = ModeChanged("RECORD", "OK") /\ Way' # <<>>
    BY <1>2, <1>3, <2>1, <2>2
  <2> QED
    BY <1>1, <1>5, <2>1, <2>3, <2>4 DEF InStage, Starting
<1>6. CASE stage \in {"record", "stop"}
  <2>1. RestOnWay(1, Len(Way)) /\ OwnEvents
    BY <1>1, <1>6 DEF InStage, Recording, Stopping
  <2>2. RestOnWay(1, Len(Way))'
    <3>1. Len(Way) + 1 - 1 = Len(Way) /\ Len(Way') + 1 - 1 = Len(Way') /\ 1 =< Len(Way) + 1
      BY <1>2, <1>3
    <3> QED
      BY <1>4, <2>1, <3>1
  <2>3. OwnEvents'
    BY <1>1, <2>1 DEF OwnEvents
  <2> QED
    BY <1>1, <1>6, <2>2, <2>3 DEF InStage, Recording, Stopping
<1>7. stage \notin {"idle", "abort"}
  BY <1>1 DEF InStage, NothingOnWay, Aborting
<1> QED
  BY <1>5, <1>6, <1>7 DEF LinkTypes, LinkTypeOK, Target

LEMMA HealthyRead ==
    ASSUME LinkTypes, InStage, ReadChunk \/ Defer
    PROVE  InStage'
<1>1. UNCHANGED <<toPico, mode, stage, events, failure, captured, firstOwn>>
  BY DEF ReadChunk, Defer, peerVars, wire, session, counters
<1>2. Way' = Way
  BY WaySteady
<1> QED
  BY <1>1, <1>2 DEF InStage, NothingOnWay, Starting, Recording, Stopping, Aborting, RestOnWay, OwnEvents

LEMMA HealthyAsked ==
    ASSUME LinkTypes, InStage, Counted, StartSession \/ StopRequested \/ SafeStop
    PROVE  InStage' /\ Counted'
<1>1. Way' = Way
  BY WaySteady
<1>2. Len(events) \in Nat /\ captured \in Nat
  BY WayParts
<1>3. CASE StartSession
  <2>1. /\ stage = "idle" /\ Ask("start") /\ events' = <<>> /\ failure' = "none"
        /\ firstOwn' = captured + 1 /\ UNCHANGED <<mode, captured, late>>
    BY <1>3 DEF StartSession, peerVars
  <2>2. NothingOnWay
    BY <2>1 DEF InStage
  <2>3. stage' = "start" /\ toPico' = <<"RECORD">>
    BY <2>1, <2>2 DEF Ask, Target, NothingOnWay
  <2> QED
    BY <1>1, <1>2, <2>1, <2>2, <2>3 DEF InStage, Starting, NothingOnWay, Counted
<1>4. CASE StopRequested
  <2>1. stage = "record" /\ Ask("stop") /\ UNCHANGED <<events, failure, firstOwn, mode, captured, late>>
    BY <1>4 DEF StopRequested, peerVars, counters
  <2>2. Recording /\ OwnEvents
    BY <2>1 DEF InStage
  <2>3. stage' = "stop" /\ toPico' = <<"PASS">>
    BY <2>1, <2>2 DEF Ask, Target, Recording
  <2> QED
    BY <1>1, <2>1, <2>2, <2>3 DEF InStage, Stopping, Recording, RestOnWay, OwnEvents, Counted
<1>5. CASE SafeStop
  <2>1. stage = "idle" /\ Ask("abort") /\ failure' = "none" /\ UNCHANGED <<mode, late, firstOwn>>
    BY <1>5 DEF SafeStop, peerVars
  <2>2. NothingOnWay
    BY <2>1 DEF InStage
  <2>3. stage' = "abort" /\ toPico' = <<"PASS">>
    BY <2>1, <2>2 DEF Ask, Target, NothingOnWay
  <2> QED
    BY <1>1, <2>1, <2>2, <2>3 DEF InStage, Aborting, NothingOnWay, Counted
<1> QED
  BY <1>3, <1>4, <1>5

LEMMA HeadOnWay ==
    ASSUME LinkTypes, pending # <<>>
    PROVE  /\ Len(deferred) + 1 \in 1..Len(Way) /\ Way[Len(deferred) + 1] = Head(pending)
           /\ \A i \in 1..Len(deferred) : Way[i] = deferred[i]
<1>1. Removed(Through(deferred, Tail(pending), fromPico), Way, Len(deferred) + 1)
      /\ Way[Len(deferred) + 1] = Head(pending)
  BY WayWithoutHead
<1> QED
  BY <1>1, WayParts DEF Removed, Joins

\* On a link without trouble only the awaited answer comes.
LEMMA RightAnswer ==
    ASSUME LinkTypes, InStage, Counted, HeadIs("MODE_CHANGED")
    PROVE  /\ stage # "record"
           /\ Exchanging => Acknowledged /\ toPico = <<>> /\ mode = Target[stage]
           /\ stage = "start" => Len(deferred) = 0
           /\ stage = "stop" => Len(Way) = Len(deferred) + 1
<1>1. /\ pending # <<>> /\ Head(pending).type = "MODE_CHANGED"
      /\ Len(deferred) + 1 \in 1..Len(Way) /\ Way[Len(deferred) + 1] = Head(pending)
      /\ Len(Way) \in Nat /\ Len(deferred) \in Nat /\ Len(events) \in Nat /\ captured \in Nat /\ firstOwn \in Nat
  BY HeadOnWay, WayParts DEF HeadIs, Counted
<1>2. ASSUME NEW lo, NEW hi, NEW first, Run(Way, lo, hi, first), NEW i \in lo..hi, Way[i] = Head(pending)
      PROVE  FALSE
  BY <1>1, <1>2, Distinct DEF Run
<1>3. stage # "record"
  <2> SUFFICES ASSUME stage = "record" PROVE FALSE
    OBVIOUS
  <2>1. Run(Way, 1, 1 + Len(Way) - 1, firstOwn + Len(events))
    BY DEF InStage, Recording, RestOnWay
  <2>2. Len(deferred) + 1 \in 1..(1 + Len(Way) - 1)
    BY <1>1
  <2> QED
    BY <1>1, <1>2, <2>1, <2>2
<1>4. CASE stage = "start"
  <2>1. /\ Way[1] = ModeChanged("RECORD", "OK") /\ toPico = <<>> /\ mode = "RECORD"
        /\ Run(Way, 2, 2 + (Len(Way) - 1) - 1, firstOwn + Len(events))
    BY <1>1, <1>4 DEF InStage, Starting, RestOnWay
  <2>2. ~(Len(deferred) + 1 \in 2..(2 + (Len(Way) - 1) - 1))
    BY <1>1, <1>2, <2>1
  <2>3. Len(deferred) = 0
    BY <1>1, <2>2
  <2> QED
    BY <1>1, <1>4, <2>1, <2>3 DEF Acknowledged, Exchanging, HeadIs, Target
<1>5. CASE stage = "stop"
  <2>1. Run(Way, 1, 1 + (Len(Way) - 1) - 1, firstOwn + Len(events))
    BY <1>1, <1>5 DEF InStage, Stopping, RestOnWay, Run
  <2>2. ~(Len(deferred) + 1 \in 1..(1 + (Len(Way) - 1) - 1))
    BY <1>1, <1>2, <2>1
  <2>3. Len(Way) = Len(deferred) + 1
    BY <1>1, <2>2
  <2>4. ~Run(Way, 1, 1 + Len(Way) - 1, firstOwn + Len(events))
    <3>1. Len(deferred) + 1 \in 1..(1 + Len(Way) - 1)
      BY <1>1
    <3> QED
      BY <1>1, <1>2, <3>1
  <2>5. toPico = <<>> /\ mode = "PASS" /\ Way[Len(Way)] = ModeChanged("PASS", "OK")
    BY <1>5, <2>4 DEF InStage, Stopping, RestOnWay
  <2> QED
    BY <1>1, <1>5, <2>3, <2>5 DEF Acknowledged, Exchanging, HeadIs, Target
<1>6. CASE stage = "abort"
  <2>1. toPico = <<>> /\ mode = "PASS" /\ Way = <<ModeChanged("PASS", "OK")>>
    BY <1>1, <1>6 DEF InStage, Aborting
  <2>2. Len(deferred) = 0 /\ Way[1] = ModeChanged("PASS", "OK")
    BY <1>1, <2>1
  <2> QED
    BY <1>1, <1>6, <2>1, <2>2 DEF Acknowledged, Exchanging, HeadIs, Target
<1> QED
  BY <1>3, <1>4, <1>5, <1>6 DEF Exchanging, Target

LEMMA HealthyConsumed ==
    ASSUME LinkTypes, InStage, Counted, ConsumeEvent
    PROVE  InStage'
<1>1. /\ stage = "record" /\ pending # <<>>
      /\ events' = Append(events, Head(pending).report) /\ pending' = Tail(pending)
      /\ UNCHANGED <<toPico, fromPico, deferred, captured, firstOwn, mode, stage, failure>>
  BY DEF ConsumeEvent, HeadIs, wire, counters, peerVars
<1>2. Len(deferred) = 0 /\ deferred = <<>>
  BY <1>1 DEF LinkTypes, LinkTypeOK, Exchanging, Target
<1>3. Removed(Way', Way, 1) /\ Way[1] = Head(pending)
  BY <1>1, <1>2, WayWithoutHead DEF Way
<1>4. /\ Len(Way) \in Nat /\ Len(events) \in Nat /\ captured \in Nat /\ firstOwn \in Nat
  BY WayParts DEF Counted
<1>5. /\ toPico = <<>> /\ mode = "RECORD" /\ OwnEvents
      /\ Run(Way, 1, Len(Way), firstOwn + Len(events))
      /\ firstOwn + Len(events) + Len(Way) = captured + 1
  <2>1. 1 + Len(Way) - 1 = Len(Way)
    BY <1>4
  <2> QED
    BY <1>1, <2>1 DEF InStage, Recording, RestOnWay
<1>6. /\ Len(Way') = Len(Way) - 1 /\ 1 \in 1..Len(Way)
      /\ \A i \in 1..Len(Way') : Way'[i] = Way[i + 1]
  BY <1>3, <1>4 DEF Removed
<1>7. Head(pending).report = firstOwn + Len(events)
  <2>1. Way[1] = RecordEvent(firstOwn + Len(events) + (1 - 1))
    BY <1>5, <1>6 DEF Run
  <2>2. firstOwn + Len(events) + (1 - 1) = firstOwn + Len(events)
    BY <1>4
  <2> QED
    BY <1>3, <2>1, <2>2, Distinct
<1>8. /\ Len(events') = Len(events) + 1 /\ events'[Len(events) + 1] = firstOwn + Len(events)
      /\ \A i \in 1..Len(events) : events'[i] = events[i]
  <2>1. events \in Seq(Reports)
    BY DEF LinkTypes, LinkTypeOK
  <2> QED
    BY <1>1, <1>7, <2>1
<1>9. OwnEvents'
  <2> SUFFICES ASSUME NEW i \in 1..Len(events') PROVE events'[i] = firstOwn + (i - 1)
    BY <1>1 DEF OwnEvents
  <2>1. CASE i = Len(events) + 1
    <3>1. events'[i] = firstOwn + Len(events) /\ i - 1 = Len(events)
      BY <1>4, <1>8, <2>1
    <3> QED
      BY <3>1
  <2>2. CASE i # Len(events) + 1
    <3>1. i \in 1..Len(events)
      BY <1>4, <1>8, <2>2
    <3> QED
      BY <1>5, <1>8, <3>1 DEF OwnEvents
  <2> QED
    BY <2>1, <2>2
<1>10. RestOnWay(1, Len(Way))'
  <2>1. Run(Way', 1, Len(Way'), firstOwn + Len(events) + 1)
    <3> SUFFICES ASSUME NEW i \in 1..Len(Way')
                 PROVE  Way'[i] = RecordEvent(firstOwn + Len(events) + 1 + (i - 1))
      BY DEF Run
    <3>1. /\ i + 1 \in 1..Len(Way)
          /\ firstOwn + Len(events) + ((i + 1) - 1) = firstOwn + Len(events) + 1 + (i - 1)
      BY <1>4, <1>6
    <3>2. Way[i + 1] = RecordEvent(firstOwn + Len(events) + ((i + 1) - 1))
      BY <1>5, <3>1 DEF Run
    <3> QED
      BY <1>6, <3>1, <3>2
  <2>2. 1 + Len(Way') - 1 = Len(Way') /\ firstOwn + Len(events) + 1 + Len(Way') = captured + 1
    <3> DEFINE n == Len(Way)  p == Len(Way')  e == Len(events)
    <3>1. n \in Nat /\ e \in Nat /\ p = n - 1
      BY <1>4, <1>6
    <3>2. firstOwn + e + n = captured + 1
      BY <1>5
    <3> HIDE DEF n, p, e
    <3>3. 1 + p - 1 = p /\ firstOwn + e + 1 + p = captured + 1
      BY <1>4, <3>1, <3>2
    <3> QED
      BY <3>3 DEF p, e
  <2>3. firstOwn' + Len(events') = firstOwn + Len(events) + 1
    BY <1>1, <1>4, <1>8
  <2> QED
    BY <1>1, <2>1, <2>2, <2>3 DEF RestOnWay
<1> QED
  BY <1>1, <1>5, <1>9, <1>10 DEF InStage, Recording

LEMMA HealthyConfirmed ==
    ASSUME LinkTypes, InStage, Counted, Confirmed
    PROVE  InStage'
<1>1. /\ HeadIs("MODE_CHANGED") /\ Exchanging /\ pending # <<>> /\ PutBack(Tail(pending))
      /\ (stage = "start" /\ stage' = "record") \/ (stage = "abort" /\ stage' = "idle")
      /\ UNCHANGED <<toPico, fromPico, mode, events, failure, captured, firstOwn>>
  BY DEF Confirmed, Acknowledged, HeadIs, wire, counters, peerVars
<1>2. toPico = <<>> /\ mode = Target[stage]
  BY <1>1, RightAnswer
<1>3. Way' = Through(deferred, Tail(pending), fromPico)
  BY <1>1, FrameTaken, WayPutBack
<1>4. Removed(Way', Way, Len(deferred) + 1)
  BY <1>1, <1>3, WayWithoutHead
<1>5. /\ Len(Way) \in Nat /\ Len(events) \in Nat /\ captured \in Nat /\ firstOwn \in Nat /\ Len(deferred) \in Nat
  BY WayParts DEF Counted
<1>6. CASE stage = "start"
  <2>1. /\ events = <<>> /\ Len(deferred) = 0 /\ Way # <<>>
        /\ Run(Way, 2, Len(Way), firstOwn + Len(events))
        /\ firstOwn + Len(events) + (Len(Way) - 1) = captured + 1
    <3>1. Way # <<>>
      BY <1>1, HeadOnWay
    <3>2. 2 + (Len(Way) - 1) - 1 = Len(Way)
      BY <1>5
    <3> QED
      BY <1>1, <1>6, <3>1, <3>2, RightAnswer DEF InStage, Starting, RestOnWay
  <2>2. /\ Len(Way') = Len(Way) - 1
        /\ \A i \in 1..Len(Way') : Way'[i] = Way[i + 1]
    BY <1>4, <1>5, <2>1 DEF Removed
  <2>3. Run(Way', 1, Len(Way'), firstOwn + Len(events))
    <3> SUFFICES ASSUME NEW i \in 1..Len(Way')
                 PROVE  Way'[i] = RecordEvent(firstOwn + Len(events) + (i - 1))
      BY DEF Run
    <3>1. i + 1 \in 2..Len(Way) /\ (i + 1) - 2 = i - 1
      BY <1>5, <2>2
    <3>2. Way[i + 1] = RecordEvent(firstOwn + Len(events) + ((i + 1) - 2))
      BY <2>1, <3>1 DEF Run
    <3> QED
      BY <2>2, <3>1, <3>2
  <2>4. RestOnWay(1, Len(Way))'
    <3>1. 1 + Len(Way') - 1 = Len(Way') /\ firstOwn + Len(events) + Len(Way') = captured + 1
      BY <1>5, <2>1, <2>2
    <3> QED
      BY <1>1, <2>3, <3>1 DEF RestOnWay
  <2>5. OwnEvents'
    <3>1. Len(events') = 0
      BY <1>1, <2>1
    <3> QED
      BY <3>1 DEF OwnEvents
  <2> QED
    BY <1>1, <1>2, <1>6, <2>4, <2>5 DEF InStage, Recording, Target
<1>7. CASE stage = "abort"
  <2>1. Way = <<ModeChanged("PASS", "OK")>>
    BY <1>1, <1>2, <1>7 DEF InStage, Aborting
  <2>2. Len(Way') = 0
    BY <1>4, <2>1 DEF Removed
  <2>3. Way' = <<>>
    BY <1>1, <1>3, <2>2, WayWithoutHead
  <2> QED
    BY <1>1, <1>2, <1>7, <2>3 DEF InStage, NothingOnWay, Target
<1> QED
  BY <1>1, <1>6, <1>7

\* What stop() drains: everything that is on the way, and only events.
LEMMA HealthyDrain ==
    ASSUME LinkTypes, InStage, Counted, Stopped
    PROVE  /\ toPico = <<>> /\ mode = "PASS" /\ OwnEvents
           /\ fromPico = <<>> /\ Drained = deferred
           /\ \A i \in 1..Len(deferred) :
                 IsEvent(deferred[i]) /\ deferred[i].report = firstOwn + Len(events) + (i - 1)
           /\ firstOwn + Len(events) + Len(deferred) = captured + 1
<1>1. /\ stage = "stop" /\ Acknowledged /\ Exchanging /\ HeadIs("MODE_CHANGED") /\ pending # <<>>
      /\ Head(pending) = ModeChanged("PASS", "OK")
  BY StoppedAs DEF Acknowledged, HeadIs, Target, Exchanging
<1>2. toPico = <<>> /\ mode = "PASS" /\ Len(Way) = Len(deferred) + 1
  BY <1>1, RightAnswer DEF Target
<1>3. /\ deferred \in Seq(Frame) /\ pending \in Seq(Frame) /\ fromPico \in Seq(Frame)
      /\ Len(Way) \in Nat /\ Len(deferred) \in Nat /\ Len(pending) \in Nat /\ Len(fromPico) \in Nat
      /\ Len(events) \in Nat /\ captured \in Nat /\ firstOwn \in Nat
      /\ Len(Way) = Len(deferred) + Len(pending) + Len(fromPico)
  BY WayParts DEF LinkTypes, Joins, Counted
<1>4. fromPico = <<>> /\ Tail(pending) = <<>>
  <2> DEFINE a == Len(deferred)  b == Len(pending)  c == Len(fromPico)  w == Len(Way)
  <2>1. /\ a \in Nat /\ b \in Nat /\ c \in Nat /\ w \in Nat
        /\ w = a + b + c /\ w = a + 1
    BY <1>2, <1>3
  <2>2. b # 0
    BY <1>1, <1>3
  <2> HIDE DEF a, b, c, w
  <2>3. b = 1 /\ c = 0
    BY <2>1, <2>2
  <2>4. fromPico = <<>>
    BY <1>3, <2>3 DEF c
  <2>5. Len(Tail(pending)) = 0 /\ Tail(pending) \in Seq(Frame)
    <3> DEFINE F == Frame
    <3>1. pending \in Seq(F) /\ pending # <<>> /\ Len(pending) = 1
      BY <1>1, <1>3, <2>3 DEF b
    <3> HIDE DEF F
    <3>2. Len(Tail(pending)) = 0 /\ Tail(pending) \in Seq(F)
      BY <3>1, HeadTailProperties
    <3> QED
      BY <3>2 DEF F
  <2>6. Tail(pending) = <<>>
    <3> DEFINE F == Frame  t == Tail(pending)
    <3>1. t \in Seq(F) /\ Len(t) = 0
      BY <2>5
    <3> HIDE DEF F, t
    <3>2. t = <<>>
      BY <3>1
    <3> QED
      BY <3>2 DEF t
  <2> QED
    BY <2>4, <2>6
<1>5. Drained = deferred
  <2>1. Drained = deferred \o <<>>
    BY <1>4 DEF Drained, Kept
  <2> QED
    BY <1>3, <2>1
<1>6. OwnEvents /\ RestOnWay(1, Len(deferred))
  <2>1. Stopping /\ OwnEvents
    BY <1>1 DEF InStage
  <2>2. RestOnWay(1, Len(Way) - 1)
    BY <1>2, <2>1 DEF Stopping
  <2>3. Len(Way) - 1 = Len(deferred)
    BY <1>2, <1>3
  <2> QED
    BY <2>1, <2>2, <2>3
<1>7. ASSUME NEW i \in 1..Len(deferred)
      PROVE  IsEvent(deferred[i]) /\ deferred[i].report = firstOwn + Len(events) + (i - 1)
  <2>1. Way[i] = deferred[i]
    BY <1>1, HeadOnWay
  <2>2. i \in 1..(1 + Len(deferred) - 1)
    BY <1>3
  <2>3. Way[i] = RecordEvent(firstOwn + Len(events) + (i - 1))
    BY <1>6, <2>2 DEF RestOnWay, Run
  <2> QED
    BY <2>1, <2>3, Distinct DEF IsEvent
<1> QED
  BY <1>2, <1>4, <1>5, <1>6, <1>7 DEF RestOnWay

LEMMA HealthyStopped ==
    ASSUME LinkTypes, InStage, Counted, Stopped
    PROVE  InStage' /\ Whole
<1>1. /\ toPico = <<>> /\ mode = "PASS" /\ OwnEvents
      /\ fromPico = <<>> /\ Drained = deferred
      /\ \A i \in 1..Len(deferred) :
            IsEvent(deferred[i]) /\ deferred[i].report = firstOwn + Len(events) + (i - 1)
      /\ firstOwn + Len(events) + Len(deferred) = captured + 1
  BY HealthyDrain
<1>2. /\ stage' = "idle" /\ pending' = <<>> /\ deferred' = <<>> /\ pending # <<>>
      /\ UNCHANGED <<mode, toPico, fromPico>>
  BY StoppedAs DEF wire, peerVars
<1>3. /\ deferred \in Seq(Frame) /\ events \in Seq(Reports)
      /\ Len(deferred) \in Nat /\ Len(events) \in Nat /\ captured \in Nat /\ firstOwn \in Nat
  BY WayParts DEF LinkTypes, LinkTypeOK, Counted
<1>4. \A i \in DOMAIN Drained : Drained[i].type # "MODE_CHANGED"
  BY <1>1, <1>3 DEF IsEvent
<1>5. failure' = "none" /\ events' = events \o ReportsOf(deferred)
  BY <1>1, <1>4 DEF Stopped, Drained, InStage
<1>6. Way' = <<>>
  BY <1>1, <1>2 DEF Way, Through
<1>7. InStage'
  BY <1>1, <1>2, <1>5, <1>6 DEF InStage, NothingOnWay
<1>8. ReportsOf(deferred) = [i \in 1..Len(deferred) |-> deferred[i].report]
  BY <1>1, <1>3, AllReports
<1>9. events' = [i \in 1..(captured + 1 - firstOwn) |-> firstOwn + i - 1]
  <2> DEFINE drained == [i \in 1..Len(deferred) |-> deferred[i].report]
             total == captured + 1 - firstOwn
  <2>1. total = Len(events) + Len(deferred)
    BY <1>1, <1>3
  <2>2. drained \in Seq(Reports) /\ Len(drained) = Len(deferred)
    <3>1. ReportsOf(deferred) \in Seq(Reports)
      BY <1>3, DrainedReports
    <3> QED
      BY <1>3, <1>8, <3>1
  <2>3. \A i \in 1..Len(deferred) : drained[i] = firstOwn + Len(events) + (i - 1)
    BY <1>1
  <2>4. events' = events \o drained
    BY <1>5, <1>8
  <2> HIDE DEF drained
  <2>5. Len(events') = total /\ events' \in Seq(Reports)
    BY <1>3, <2>1, <2>2, <2>4
  <2>6. \A i \in 1..total : events'[i] = firstOwn + i - 1
    <3> SUFFICES ASSUME NEW i \in 1..total PROVE events'[i] = firstOwn + i - 1
      OBVIOUS
    <3>1. CASE i =< Len(events)
      <4>1. events'[i] = events[i] /\ i \in 1..Len(events)
        BY <1>3, <2>1, <2>2, <2>4, <3>1
      <4> QED
        BY <1>1, <1>3, <4>1 DEF OwnEvents
    <3>2. CASE i > Len(events)
      <4>1. events'[i] = drained[i - Len(events)] /\ i - Len(events) \in 1..Len(deferred)
        BY <1>3, <2>1, <2>2, <2>4, <3>2
      <4>2. firstOwn + Len(events) + ((i - Len(events)) - 1) = firstOwn + i - 1
        BY <1>3
      <4> QED
        BY <2>3, <4>1, <4>2
    <3> QED
      BY <1>3, <2>1, <3>1, <3>2
  <2>7. events' = [i \in 1..total |-> events'[i]]
    BY <2>5
  <2> QED
    BY <2>6, <2>7
<1> QED
  BY <1>1, <1>7, <1>9 DEF Whole

\* A step that ends on a healthy link began on one, and is none of the steps
\* that fail.
LEMMA StaysHealthy ==
    ASSUME LinkTypes, Counted, [LinkNext]_linkVars
    PROVE  /\ Counted'
           /\ HealthyLink' => HealthyLink
           /\ HealthyLink' => ~(LinkFault \/ DamagedRead \/ TimesOut \/ CtrlC \/ Restart)
<1>1. captured \in Nat
  BY WayParts
<1>2. Counted'
  BY <1>1 DEF Counted, LinkNext, linkVars, counters, session, HandleRequest, KeyCaptured, LinkFault,
      ReadChunk, Defer, DamagedRead, TimesOut, StartSession, StopRequested, CtrlC, SafeStop, Restart,
      ConsumeEvent, ModeChangedWhileRecording, Confirmed, Stopped, Refused
<1>3. trouble \subseteq trouble' /\ (late' = late \/ late' = late + 1)
  BY DEF LinkNext, linkVars, counters, session, HandleRequest, KeyCaptured, LinkFault,
      ReadChunk, Defer, DamagedRead, TimesOut, StartSession, StopRequested, CtrlC, SafeStop, Restart,
      ConsumeEvent, ModeChangedWhileRecording, Confirmed, Stopped, Refused, Emit, Meet
<1>4. HealthyLink' => HealthyLink
  BY <1>3 DEF HealthyLink, Counted
<1>5. ASSUME HealthyLink' PROVE ~(LinkFault \/ DamagedRead \/ TimesOut \/ CtrlC \/ Restart)
  BY <1>5 DEF HealthyLink, Counted, LinkFault, DamagedRead, TimesOut, CtrlC, Restart, Meet
<1> QED
  BY <1>2, <1>4, <1>5

LEMMA HealthyStep ==
    ASSUME LinkTypes, StageInv, [LinkNext]_linkVars
    PROVE  StageInv'
<1>1. /\ Counted /\ Counted'
      /\ HealthyLink' => HealthyLink
      /\ HealthyLink' => ~(LinkFault \/ DamagedRead \/ TimesOut \/ CtrlC \/ Restart)
  BY StaysHealthy DEF StageInv
<1> SUFFICES ASSUME HealthyLink' PROVE InStage'
  BY <1>1 DEF StageInv
<1>2. InStage /\ firstOwn \in Nat
  BY <1>1 DEF StageInv, Counted
<1>3. CASE HandleRequest
  BY <1>2, <1>3, HealthyRequest
<1>4. CASE KeyCaptured
  BY <1>2, <1>4, HealthyKey
<1>5. CASE ReadChunk \/ Defer
  BY <1>2, <1>5, HealthyRead
<1>6. CASE StartSession \/ StopRequested \/ SafeStop
  BY <1>1, <1>2, <1>6, HealthyAsked
<1>7. CASE ConsumeEvent
  BY <1>1, <1>2, <1>7, HealthyConsumed
<1>8. CASE Confirmed
  BY <1>1, <1>2, <1>8, HealthyConfirmed
<1>9. CASE Stopped
  BY <1>1, <1>2, <1>9, HealthyStopped
<1>10. ~ModeChangedWhileRecording
  BY <1>1, <1>2, RightAnswer DEF ModeChangedWhileRecording
<1>11. ~Refused
  BY <1>1, <1>2, RightAnswer DEF Refused
<1>12. CASE UNCHANGED linkVars
  <2>1. Way' = Way
    BY <1>12 DEF linkVars, wire, buffers, Way
  <2> QED
    BY <1>2, <1>12, <2>1 DEF linkVars, wire, buffers, session, counters, peerVars, InStage, NothingOnWay,
        Starting, Recording, Stopping, Aborting, RestOnWay, OwnEvents
<1> QED
  BY <1>1, <1>3, <1>4, <1>5, <1>6, <1>7, <1>8, <1>9, <1>10, <1>11, <1>12 DEF LinkNext

THEOREM StageInvariance == LinkSpec => [](LinkTypes /\ StageInv)
<1>1. LinkInit => LinkTypes /\ StageInv
  <2> SUFFICES ASSUME LinkInit PROVE LinkTypes /\ StageInv
    OBVIOUS
  <2>1. LinkTypes
    BY LinkInitially
  <2>2. /\ mode = "PASS" /\ toPico = <<>> /\ fromPico = <<>> /\ pending = <<>> /\ deferred = <<>>
        /\ stage = "idle" /\ failure = "none" /\ firstOwn = 1 /\ late = 0
    BY DEF LinkInit, Init
  <2>3. Way = <<>>
    BY <2>2 DEF Way, Through
  <2> QED
    BY <2>1, <2>2, <2>3 DEF StageInv, Counted, InStage, NothingOnWay
<1>2. LinkTypes /\ StageInv /\ [LinkNext]_linkVars => (LinkTypes /\ StageInv)'
  BY LinkTypesStep, HealthyStep
<1> QED
  BY <1>1, <1>2, PTL DEF LinkSpec

\* A session over a link without trouble and late answers never fails, in any
\* interleaving of key events, reads and acknowledgements: the awaited answer
\* is the only one that comes (service.py, RecordingSession).
THEOREM HealthyLinkNeverFailsAlways == LinkSpec => []HealthyLinkNeverFails
<1>1. LinkTypes /\ StageInv => HealthyLinkNeverFails
  BY DEF StageInv, HealthyLink, InStage, HealthyLinkNeverFails
<1> QED
  BY <1>1, StageInvariance, PTL

\* A recording saved over such a link holds every event captured since the
\* session began and no other one, with the Pico back in PASS (service.py,
\* stop): what is deferred while the acknowledgement is awaited is drained.
THEOREM WholeRecordingAlways == LinkSpec => WholeRecording
<1>1. LinkTypes /\ StageInv /\ [LinkNext]_linkVars
        => [Saves /\ trouble = {} /\ late = 0 => Whole]_linkVars
  <2> SUFFICES ASSUME LinkTypes, StageInv, LinkNext, Saves, trouble = {}, late = 0
               PROVE  Whole
    OBVIOUS
  <2>1. Counted /\ InStage
    BY DEF StageInv, HealthyLink
  <2>2. stage = "stop" /\ stage' = "idle" /\ failure' = "none" /\ failure = "none"
    BY <2>1 DEF Saves, InStage
  <2>3. ~\E why \in {"unexpected", "error", "rejected", "damaged", "timeout"} : GiveUp(why)
    BY <2>2 DEF GiveUp
  <2>4. Stopped
    BY <2>2, <2>3 DEF LinkNext, session, HandleRequest, KeyCaptured, LinkFault, ReadChunk, Defer, DamagedRead,
        TimesOut, StartSession, StopRequested, CtrlC, SafeStop, Restart, ConsumeEvent,
        ModeChangedWhileRecording, Confirmed, Refused, Ask
  <2> QED
    BY <2>1, <2>4, HealthyStopped
<1> QED
  BY <1>1, StageInvariance, PTL DEF LinkSpec, WholeRecording

-----------------------------------------------------------------------------
(* Timeline. *)

\* What FoldLeft computes for a sum: over the last place first.
Folding(iter, s) ==
    iter = [T \in SUBSET (DOMAIN s) |->
               IF T = {} THEN 0 ELSE iter[T \ {Max(T)}] + s[Max(T)]]

LEMMA TotalFolds ==
    ASSUME NEW s
    PROVE  Total(s) = (CHOOSE iter : Folding(iter, s))[DOMAIN s]
  BY DEF Total, FoldLeft, MapThenFoldSet, Folding

-----------------------------------------------------------------------------
(* Sums. *)

LEMMA TotalExists ==
    ASSUME NEW n \in Nat, NEW s \in [1..n -> Int]
    PROVE  \E iter : Folding(iter, s)
<1> DEFINE V == Int
           plus == [p \in V \X V |-> p[1] + p[2]]
           none == 0
<1>1. none \in V /\ s \in [1..n -> V]
  OBVIOUS
<1>2. \A a \in V, b \in V : a + b \in V
  OBVIOUS
<1>3. plus \in [V \X V -> V]
  <2> HIDE DEF V
  <2> QED
    BY <1>2
<1>4. \A a \in V, b \in V : plus[<<a, b>>] = a + b
  <2> HIDE DEF V
  <2> QED
    OBVIOUS
<1>5. PICK iter \in [SUBSET (1..n) -> V] : FoldsBy(iter, none, plus, n, s)
  <2>1. CanFold(V, V, none, plus, n, s)
    BY <1>1, <1>3 DEF CanFold
  <2> HIDE DEF V, plus, none
  <2> QED
    BY <2>1, FoldExists, Zenon
<1>6. \A T \in SUBSET (1..n) :
         /\ iter[T] = IF T = {} THEN none ELSE plus[<<iter[T \ {Max(T)}], s[Max(T)]>>]
         /\ T # {} => Max(T) \in 1..n /\ T \ {Max(T)} \in SUBSET (1..n)
  <2> HIDE DEF V, plus, none
  <2> QED
    BY <1>5 DEF FoldsBy
<1>7. ASSUME NEW T \in SUBSET (1..n)
      PROVE  iter[T] = IF T = {} THEN none ELSE iter[T \ {Max(T)}] + s[Max(T)]
  <2> HIDE DEF V, plus, none
  <2>1. CASE T = {}
    BY <1>6, <2>1
  <2>2. CASE T # {}
    <3>1. iter[T] = plus[<<iter[T \ {Max(T)}], s[Max(T)]>>] /\ Max(T) \in 1..n
          /\ T \ {Max(T)} \in SUBSET (1..n)
      BY <1>6, <2>2
    <3>2. iter[T \ {Max(T)}] \in V /\ s[Max(T)] \in V
      BY <1>1, <3>1
    <3>3. plus[<<iter[T \ {Max(T)}], s[Max(T)]>>] = iter[T \ {Max(T)}] + s[Max(T)]
      BY <1>4, <3>2
    <3> QED
      BY <2>2, <3>1, <3>3
  <2> QED
    BY <2>1, <2>2
<1>8. DOMAIN s = 1..n
  OBVIOUS
<1>9. iter = [T \in SUBSET (1..n) |-> IF T = {} THEN none ELSE iter[T \ {Max(T)}] + s[Max(T)]]
  <2> HIDE DEF V, none
  <2> QED
    BY <1>7
<1> QED
  BY <1>8, <1>9 DEF Folding

\* A sum is what its partial sums come to.
LEMMA TotalIs ==
    ASSUME NEW s \in Seq(Int), NEW h \in [0..Len(s) -> Int], h[0] = 0,
           \A k \in 0..(Len(s) - 1) : h[k + 1] = h[k] + s[k + 1]
    PROVE  Total(s) = h[Len(s)]
<1> DEFINE n == Len(s)
           iter == CHOOSE g : Folding(g, s)
<1>1. n \in Nat /\ s \in [1..n -> Int] /\ DOMAIN s = 1..n
  OBVIOUS
<1>2. Folding(iter, s)
  <2> HIDE DEF n
  <2>1. \E g : Folding(g, s)
    BY <1>1, TotalExists
  <2> QED
    BY <2>1
<1> HIDE DEF iter
<1>3. \A T \in SUBSET (1..n) : iter[T] = IF T = {} THEN 0 ELSE iter[T \ {Max(T)}] + s[Max(T)]
  BY <1>1, <1>2 DEF Folding
<1> DEFINE P == {k \in Nat : k =< n => iter[1..k] = h[k]}
<1>4. 0 \in P
  <2>1. 1..0 = {} /\ {} \in SUBSET (1..n)
    OBVIOUS
  <2> QED
    BY <1>3, <2>1
<1>5. ASSUME NEW k \in Nat, k \in P PROVE k + 1 \in P
  <2> SUFFICES ASSUME k + 1 =< n PROVE iter[1..(k + 1)] = h[k + 1]
    OBVIOUS
  <2> DEFINE T == 1..(k + 1)
  <2>1. k \in 0..(n - 1)
    BY <1>1
  <2>2. T \in SUBSET (1..n) /\ T # {} /\ Max(T) = k + 1 /\ T \ {k + 1} = 1..k
    <3> HIDE DEF n
    <3> QED
      BY <1>1, <2>1, FirstPlaces
  <2> HIDE DEF T, n
  <2>3. iter[T] = iter[1..k] + s[k + 1]
    BY <1>3, <2>2
  <2>4. iter[1..k] = h[k] /\ k \in 0..(n - 1)
    BY <1>1, <1>5, <2>1
  <2> QED
    BY <2>3, <2>4 DEF T, n
<1>6. Nat \subseteq P
  <2> HIDE DEF P
  <2> QED
    BY <1>4, <1>5, SetInduction
<1>7. iter[1..n] = h[n]
  BY <1>1, <1>6
<1>8. Total(s) = iter[DOMAIN s]
  BY TotalFolds DEF iter
<1> QED
  BY <1>1, <1>7, <1>8

-----------------------------------------------------------------------------
(* Rounding. *)

LEMMA Quotient ==
    ASSUME NEW n \in Nat, NEW d \in Nat \ {0}
    PROVE  \E b \in Nat, r \in 0..(d - 1) : n \div d = b /\ n % d = r /\ n = d * b + r
  OBVIOUS

\* Rounding moves a quotient by half a unit at most.
LEMMA RoundIsNear ==
    ASSUME NEW n \in Nat, NEW d \in Nat \ {0}
    PROVE  /\ Round(n, d) \in Nat
           /\ 2 * (Round(n, d) * d - n) =< d /\ -d =< 2 * (Round(n, d) * d - n)
<1>1. PICK b \in Nat, r \in 0..(d - 1) : n \div d = b /\ n % d = r /\ n = d * b + r
  BY Quotient
<1>2. Round(n, d) = IF 2 * r > d \/ (2 * r = d /\ b % 2 = 1) THEN b + 1 ELSE b
  BY <1>1 DEF Round
<1>3. CASE Round(n, d) = b /\ 2 * r =< d
  <2>1. b * d - n = -r
    BY <1>1
  <2> QED
    BY <1>3, <2>1
<1>4. CASE Round(n, d) = b + 1 /\ 2 * r >= d
  <2>1. (b + 1) * d - n = d - r
    BY <1>1
  <2> QED
    BY <1>4, <2>1
<1> QED
  BY <1>2, <1>3, <1>4

\* Rounding keeps an order.
LEMMA RoundKeepsOrder ==
    ASSUME NEW m \in Nat, NEW n \in Nat, m =< n, NEW d \in Nat \ {0}
    PROVE  Round(m, d) =< Round(n, d)
<1>1. PICK b \in Nat, r \in 0..(d - 1) : m \div d = b /\ m % d = r /\ m = d * b + r
  BY Quotient
<1>2. PICK c \in Nat, q \in 0..(d - 1) : n \div d = c /\ n % d = q /\ n = d * c + q
  BY Quotient
<1>3. Round(m, d) = IF 2 * r > d \/ (2 * r = d /\ b % 2 = 1) THEN b + 1 ELSE b
  BY <1>1 DEF Round
<1>4. Round(n, d) = IF 2 * q > d \/ (2 * q = d /\ c % 2 = 1) THEN c + 1 ELSE c
  BY <1>2 DEF Round
<1>5. b =< c
  <2> SUFFICES ASSUME c + 1 =< b PROVE FALSE
    OBVIOUS
  <2>1. d * (c + 1) =< d * b
    OBVIOUS
  <2>2. d * (c + 1) = d * c + d
    OBVIOUS
  <2> QED
    BY <1>1, <1>2, <2>1, <2>2
<1>6. CASE b = c
  <2>1. r =< q
    BY <1>1, <1>2, <1>6
  <2> QED
    BY <1>3, <1>4, <1>6, <2>1
<1>7. CASE b < c
  BY <1>3, <1>4, <1>7
<1> QED
  BY <1>5, <1>6, <1>7

-----------------------------------------------------------------------------
(* The recording. *)

TimelineInv ==
    /\ timestamps \in Seq(Nat) /\ deltas \in Seq(Int) /\ Len(deltas) = Len(timestamps)
    /\ \A i \in 1..Len(timestamps) : timestamps[i] < Width
    /\ \A i \in 1..Len(timestamps) : \A j \in 1..i : timestamps[j] =< timestamps[i]
    /\ \A i \in 1..Len(deltas) : deltas[i] = IF i = 1 THEN 0 ELSE timestamps[i] - timestamps[i - 1]
    /\ IF timestamps = <<>> THEN epoch = None /\ last = None
       ELSE epoch = timestamps[1] /\ last = timestamps[Len(timestamps)]

LEMMA TimelineInitially ==
    ASSUME TimelineInit
    PROVE  TimelineInv
  BY DEF TimelineInit, TimelineInv

LEMMA AddKeeps ==
    ASSUME TimelineInv, NEW timestamp \in 0..(Width - 1), Add(timestamp)
    PROVE  TimelineInv'
<1>1. CASE UNCHANGED <<epoch, last, deltas, timestamps>>
  BY <1>1 DEF TimelineInv
<1>2. CASE InOrder(timestamp)
  <2> DEFINE n == Len(timestamps)
  <2>1. /\ epoch' = (IF epoch = None THEN timestamp ELSE epoch) /\ last' = timestamp
        /\ deltas' = Append(deltas, Delta(timestamp))
        /\ timestamps' = Append(timestamps, timestamp)
    BY <1>2 DEF Add
  <2>2. /\ timestamps \in Seq(Nat) /\ deltas \in Seq(Int) /\ Len(deltas) = n /\ n \in Nat
        /\ timestamp \in Nat /\ timestamp < Width /\ timestamp # None
    BY TimelineAssumption DEF TimelineInv, None
  <2>3. timestamps # <<>> => n > 0 /\ last \in Nat /\ epoch \in Nat
    BY <2>2 DEF TimelineInv
  <2>4. n = 0 <=> timestamps = <<>>
    BY <2>2
  <2>5. n > 0 => last = timestamps[n] /\ last =< timestamp /\ epoch # None /\ epoch = timestamps[1]
    BY <1>2, <2>2, <2>3, <2>4 DEF InOrder, TimelineInv, None
  <2>6. Delta(timestamp) = (IF n = 0 THEN 0 ELSE timestamp - timestamps[n]) /\ Delta(timestamp) \in Int
    BY <2>2, <2>3, <2>4, <2>5 DEF Delta, TimelineInv
  <2>7. /\ timestamps' \in Seq(Nat) /\ deltas' \in Seq(Int) /\ Len(timestamps') = n + 1
        /\ Len(deltas') = n + 1 /\ timestamps'[n + 1] = timestamp /\ deltas'[n + 1] = Delta(timestamp)
        /\ \A i \in 1..n : timestamps'[i] = timestamps[i] /\ deltas'[i] = deltas[i]
    BY <2>1, <2>2, <2>6
  <2> HIDE DEF n
  <2>8. \A i \in 1..(n + 1) : timestamps'[i] < Width
    <3> TAKE i \in 1..(n + 1)
    <3>1. CASE i = n + 1
      BY <2>2, <2>7, <3>1
    <3>2. CASE i \in 1..n
      <4>1. timestamps[i] < Width
        BY <3>2 DEF TimelineInv, n
      <4> QED
        BY <2>7, <3>2, <4>1
    <3> QED
      BY <2>2, <3>1, <3>2
  <2>9. \A i \in 1..(n + 1) : \A j \in 1..i : timestamps'[j] =< timestamps'[i]
    <3> TAKE i \in 1..(n + 1)
    <3> TAKE j \in 1..i
    <3>1. CASE i \in 1..n
      <4>1. timestamps[j] =< timestamps[i] /\ j \in 1..n
        BY <2>2, <3>1 DEF TimelineInv, n
      <4> QED
        BY <2>7, <3>1, <4>1
    <3>2. CASE i = n + 1 /\ j = n + 1
      BY <2>2, <2>7, <3>2
    <3>3. CASE i = n + 1 /\ j \in 1..n
      <4>0. n > 0 /\ n \in 1..n
        BY <2>2, <3>3
      <4>1. timestamps[j] =< timestamps[n] /\ timestamps[j] \in Nat /\ timestamps[n] \in Nat
        <5>1. \A a \in 1..n : \A b \in 1..a : timestamps[b] =< timestamps[a]
          BY DEF TimelineInv, n
        <5>2. timestamps[j] =< timestamps[n]
          BY <3>3, <4>0, <5>1, Zenon
        <5> QED
          BY <2>2, <3>3, <4>0, <5>2 DEF n
      <4>2. timestamps[n] =< timestamp /\ timestamp \in Nat
        BY <2>2, <2>5, <4>0
      <4>3. timestamps'[j] = timestamps[j] /\ timestamps'[i] = timestamp
        BY <2>7, <3>3
      <4> QED
        BY <4>1, <4>2, <4>3
    <3> QED
      BY <2>2, <3>1, <3>2, <3>3
  <2>10. \A i \in 1..(n + 1) :
            deltas'[i] = IF i = 1 THEN 0 ELSE timestamps'[i] - timestamps'[i - 1]
    <3> TAKE i \in 1..(n + 1)
    <3>1. CASE i \in 1..n
      <4>1. deltas[i] = (IF i = 1 THEN 0 ELSE timestamps[i] - timestamps[i - 1])
            /\ (i # 1 => i - 1 \in 1..n)
        BY <2>2, <3>1 DEF TimelineInv, n
      <4> QED
        BY <2>7, <3>1, <4>1
    <3>2. CASE i = n + 1
      <4>1. i # 1 => n \in 1..n /\ i - 1 = n /\ n # 0
        BY <2>2, <3>2
      <4> QED
        BY <2>2, <2>6, <2>7, <3>2, <4>1
    <3> QED
      BY <2>2, <3>1, <3>2
  <2>11. timestamps' # <<>> /\ epoch' = timestamps'[1] /\ last' = timestamps'[n + 1]
    <3>1. CASE n = 0
      BY <2>1, <2>2, <2>4, <2>7, <3>1 DEF TimelineInv
    <3>2. CASE n > 0
      BY <2>1, <2>2, <2>5, <2>7, <3>2
    <3> QED
      BY <2>2, <3>1, <3>2
  <2> QED
    BY <2>7, <2>8, <2>9, <2>10, <2>11 DEF TimelineInv
<1> QED
  BY <1>1, <1>2 DEF Add

\* The deltas up to an event add up to its time after the first.
LEMMA DeltasAddUp ==
    ASSUME TimelineInv, NEW i \in 1..Len(deltas)
    PROVE  Total(SubSeq(deltas, 1, i)) = timestamps[i] - timestamps[1]
<1> DEFINE s == SubSeq(deltas, 1, i)
           h == [k \in 0..i |-> IF k = 0 THEN 0 ELSE timestamps[k] - timestamps[1]]
<1>1. s \in Seq(Int) /\ Len(s) = i /\ i \in Nat /\ \A k \in 1..i : s[k] = deltas[k]
  BY DEF TimelineInv
<1>2. \A k \in 1..i : timestamps[k] \in Nat
  BY DEF TimelineInv
<1>3. h \in [0..i -> Int] /\ h[0] = 0 /\ \A k \in 1..i : h[k] = timestamps[k] - timestamps[1]
  BY <1>2
<1> HIDE DEF s, h
<1>4. \A k \in 0..(i - 1) : h[k + 1] = h[k] + s[k + 1]
  <2> TAKE k \in 0..(i - 1)
  <2>1. s[k + 1] = (IF k + 1 = 1 THEN 0 ELSE timestamps[k + 1] - timestamps[(k + 1) - 1])
    <3>1. k + 1 \in 1..i /\ k + 1 \in 1..Len(deltas)
      BY <1>1 DEF TimelineInv
    <3>2. deltas[k + 1] = (IF k + 1 = 1 THEN 0 ELSE timestamps[k + 1] - timestamps[(k + 1) - 1])
      BY <3>1 DEF TimelineInv
    <3> QED
      BY <1>1, <3>1, <3>2
  <2>2. CASE k = 0
    <3>1. s[1] = 0 /\ 1 \in 1..i /\ h[1] = timestamps[1] - timestamps[1] /\ timestamps[1] \in Nat
      BY <1>1, <1>2, <1>3, <2>1, <2>2
    <3> QED
      BY <1>3, <2>2, <3>1
  <2>3. CASE k # 0
    <3>1. k \in 1..i /\ k + 1 \in 1..i /\ (k + 1) - 1 = k /\ k + 1 # 1
      BY <1>1, <2>3
    <3>2. s[k + 1] = timestamps[k + 1] - timestamps[k]
      BY <2>1, <3>1
    <3>3. h[k] = timestamps[k] - timestamps[1] /\ h[k + 1] = timestamps[k + 1] - timestamps[1]
      BY <1>3, <3>1
    <3>4. timestamps[k] \in Nat /\ timestamps[k + 1] \in Nat /\ timestamps[1] \in Nat
      BY <1>1, <1>2, <3>1
    <3> QED
      BY <3>2, <3>3, <3>4
  <2> QED
    BY <2>2, <2>3
<1>5. Total(s) = h[i]
  BY <1>1, <1>3, <1>4, TotalIs
<1> QED
  BY <1>1, <1>3, <1>5 DEF s

LEMMA Valids ==
    ASSUME TimelineInv
    PROVE  BuiltIsValid
<1> DEFINE n == Len(deltas)
<1>1. deltas \in Seq(Int) /\ n \in Nat /\ n = Len(timestamps) /\ timestamps \in Seq(Nat)
  BY DEF TimelineInv
<1>2. CASE deltas = <<>>
  <2>1. timestamps = <<>>
    BY <1>1, <1>2, EmptySeq
  <2>2. Duration = 0
    BY <2>1 DEF Duration, TimelineInv
  <2>3. Total(deltas) = 0
    <3> DEFINE h == [k \in 0..0 |-> 0]
    <3>1. Len(deltas) = 0 /\ h \in [0..0 -> Int] /\ h[0] = 0
      BY <1>2
    <3> HIDE DEF h
    <3> QED
      BY <1>1, <3>1, TotalIs
  <2>4. 0 \in 0..(Width - 1)
    <3>1. Width \in Nat \ {0}
      BY TimelineAssumption
    <3> QED
      BY <3>1
  <2> QED
    BY <1>2, <2>2, <2>3, <2>4 DEF BuiltIsValid, Valid
<1>3. CASE deltas # <<>>
  <2>1. n >= 1 /\ timestamps # <<>>
    BY <1>1, <1>3
  <2>2. Total(deltas) = timestamps[n] - timestamps[1]
    <3>1. SubSeq(deltas, 1, n) = deltas
      BY <1>1, SubSeqFull
    <3>2. n \in 1..Len(deltas)
      BY <1>1, <2>1
    <3>3. Total(SubSeq(deltas, 1, n)) = timestamps[n] - timestamps[1]
      BY <3>2, DeltasAddUp, Zenon
    <3> QED
      BY <3>1, <3>3
  <2>3. epoch = timestamps[1] /\ last = timestamps[n] /\ epoch \in Nat /\ last \in Nat
        /\ epoch =< last /\ last < Width /\ deltas[1] = 0
    BY <1>1, <2>1 DEF TimelineInv
  <2>4. Duration = last - epoch
    BY <2>3 DEF Duration, None
  <2> QED
    BY <2>2, <2>3, <2>4, TimelineAssumption DEF BuiltIsValid, Valid
<1> QED
  BY <1>2, <1>3

LEMMA OffsetsAre ==
    ASSUME TimelineInv, NEW num, NEW den \in Nat \ {0}, NEW i \in DOMAIN deltas
    PROVE  /\ Offsets(num, den)[i] = Round((timestamps[i] - timestamps[1]) * den, num)
           /\ (timestamps[i] - timestamps[1]) * den \in Nat
           /\ timestamps[i] \in Nat /\ timestamps[1] \in Nat
<1>1. i \in 1..Len(deltas) /\ 1 \in 1..i /\ i \in 1..Len(timestamps)
  BY DEF TimelineInv
<1>2. timestamps[i] \in Nat /\ timestamps[1] \in Nat /\ timestamps[1] =< timestamps[i]
  BY <1>1 DEF TimelineInv
<1>3. Total(SubSeq(deltas, 1, i)) = timestamps[i] - timestamps[1]
  BY <1>1, DeltasAddUp
<1>4. (timestamps[i] - timestamps[1]) * den \in Nat
  <2> DEFINE x == timestamps[i] - timestamps[1]
  <2>1. x \in Nat
    BY <1>2
  <2> HIDE DEF x
  <2>2. x * den \in Nat
    BY <2>1
  <2> QED
    BY <2>2 DEF x
<1> QED
  BY <1>2, <1>3, <1>4 DEF Offsets

LEMMA PlayedWhole ==
    ASSUME TimelineInv
    PROVE  PlayedAsRecorded
<1> SUFFICES ASSUME NEW i \in DOMAIN deltas
             PROVE  Offsets(1, 1)[i] = timestamps[i] - timestamps[1]
  BY DEF PlayedAsRecorded
<1> DEFINE x == (timestamps[i] - timestamps[1]) * 1
           r == Round(x, 1)
<1>1. Offsets(1, 1)[i] = r /\ x \in Nat /\ x = timestamps[i] - timestamps[1]
  BY OffsetsAre
<1>2. r \in Nat /\ 2 * (r * 1 - x) =< 1 /\ -1 =< 2 * (r * 1 - x)
  <2> HIDE DEF x
  <2> QED
    BY <1>1, RoundIsNear
<1> HIDE DEF x, r
<1>3. r = x
  BY <1>1, <1>2
<1> QED
  BY <1>1, <1>3

LEMMA DriftsNever ==
    ASSUME TimelineInv
    PROVE  NoDrift
<1> SUFFICES ASSUME NEW num \in Numerators, NEW den \in Denominators, NEW i \in DOMAIN deltas
             PROVE  /\ 2 * (Offsets(num, den)[i] * num - (timestamps[i] - timestamps[1]) * den) =< num
                    /\ -num =< 2 * (Offsets(num, den)[i] * num - (timestamps[i] - timestamps[1]) * den)
                    /\ i > 1 => Offsets(num, den)[i - 1] =< Offsets(num, den)[i]
  BY DEF NoDrift
<1>1. num \in Nat \ {0} /\ den \in Nat \ {0}
  BY TimelineAssumption
<1> DEFINE x == (timestamps[i] - timestamps[1]) * den
<1>2. Offsets(num, den)[i] = Round(x, num) /\ x \in Nat
  BY <1>1, OffsetsAre
<1>3. 2 * (Round(x, num) * num - x) =< num /\ -num =< 2 * (Round(x, num) * num - x)
  <2> HIDE DEF x
  <2> QED
    BY <1>1, <1>2, RoundIsNear
<1>4. ASSUME i > 1 PROVE Offsets(num, den)[i - 1] =< Offsets(num, den)[i]
  <2> DEFINE y == (timestamps[i - 1] - timestamps[1]) * den
  <2>1. i - 1 \in DOMAIN deltas /\ i - 1 \in 1..i /\ i \in 1..Len(timestamps)
    BY <1>4 DEF TimelineInv
  <2>2. Offsets(num, den)[i - 1] = Round(y, num) /\ y \in Nat
    BY <1>1, <2>1, OffsetsAre
  <2>3. y =< x
    <3>1. timestamps[i - 1] =< timestamps[i]
      BY <2>1 DEF TimelineInv
    <3>2. timestamps[i - 1] \in Nat /\ timestamps[i] \in Nat /\ timestamps[1] \in Nat
      BY <1>1, <2>1, OffsetsAre
    <3> DEFINE u == timestamps[i - 1] - timestamps[1]
               w == timestamps[i] - timestamps[1]
    <3>3. u \in Int /\ w \in Int /\ u =< w
      BY <3>1, <3>2
    <3> HIDE DEF u, w
    <3>4. u * den =< w * den
      BY <1>1, <3>3
    <3> QED
      BY <3>4 DEF u, w
  <2> HIDE DEF x, y
  <2> QED
    BY <1>1, <1>2, <2>2, <2>3, RoundKeepsOrder
<1> QED
  BY <1>2, <1>3, <1>4

LEMMA PrebufferIsEnough ==
    ASSUME TimelineInv
    PROVE  PrebufferLasts
<1> SUFFICES ASSUME NEW num \in Numerators, NEW den \in Denominators
             PROVE  LET offsets == Offsets(num, den)
                        n == PrebufferCount(offsets)
                    IN  n = Len(offsets) \/ (n > 0 /\ offsets[n] >= Prebuffer)
  BY DEF PrebufferLasts
<1> DEFINE offsets == Offsets(num, den)
           n == Len(deltas)
           early == {i \in DOMAIN offsets : \A j \in 1..i : offsets[j] < Prebuffer}
<1>1. num \in Nat \ {0} /\ den \in Nat \ {0} /\ Prebuffer \in Nat
  BY TimelineAssumption
<1>2. n \in Nat /\ DOMAIN offsets = 1..n
  BY DEF TimelineInv, Offsets
<1>3. \A i \in 1..n : offsets[i] \in Nat
  <2> TAKE i \in 1..n
  <2>1. i \in DOMAIN deltas
    BY DEF TimelineInv
  <2> DEFINE x == (timestamps[i] - timestamps[1]) * den
  <2>2. offsets[i] = Round(x, num) /\ x \in Nat
    BY <1>1, <2>1, OffsetsAre
  <2> HIDE DEF x
  <2> QED
    BY <1>1, <2>2, RoundIsNear
<1> HIDE DEF offsets, n
<1>4. CASE early = DOMAIN offsets
  BY <1>4 DEF PrebufferCount, offsets
<1>5. CASE early # DOMAIN offsets
  <2> DEFINE rest == (1..n) \ early
  <2>1. rest # {} /\ rest \subseteq Nat
    BY <1>2, <1>5
  <2> HIDE DEF rest
  <2>2. PICK m \in rest : \A i \in rest : m =< i
    BY <2>1, LeastElement
  <2>3. m \in 1..n /\ m \notin early
    BY DEF rest
  <2>4. PICK j \in 1..m : ~(offsets[j] < Prebuffer)
    BY <1>2, <2>3
  <2>5. j \in 1..n /\ j \notin early
    BY <1>2, <2>3, <2>4
  <2>6. j = m
    BY <2>2, <2>3, <2>4, <2>5 DEF rest
  <2>7. early = 1..(m - 1)
    <3>1. ASSUME NEW i \in 1..(m - 1) PROVE i \in early
      BY <1>2, <2>2, <2>3, <3>1 DEF rest
    <3>2. ASSUME NEW i \in early PROVE i \in 1..(m - 1)
      <4>1. i \in 1..n /\ \A k \in 1..i : offsets[k] < Prebuffer
        BY <1>2
      <4>2. ~(m \in 1..i)
        BY <2>4, <2>6, <4>1
      <4> QED
        BY <1>2, <2>3, <4>1, <4>2
    <3> HIDE DEF early
    <3> QED
      BY <3>1, <3>2
  <2>8. Cardinality(early) + 1 = m
    <3>1. Cardinality(1..(m - 1)) = m - 1
      BY <2>3, FS_Interval
    <3> HIDE DEF early
    <3>2. Cardinality(early) = m - 1
      BY <2>7, <3>1
    <3> QED
      BY <2>3, <3>2
  <2>9. PrebufferCount(offsets) = m
    BY <1>5, <2>8 DEF PrebufferCount, AndTheNext
  <2>10. m > 0 /\ offsets[m] >= Prebuffer
    BY <1>1, <1>3, <2>3, <2>4, <2>6
  <2> QED
    BY <2>9, <2>10 DEF offsets
<1> QED
  BY <1>4, <1>5

\* In every reachable state of RecordingBuilder.add the deltas lead from each
\* timestamp to the next, which is never earlier.
THEOREM TimelineInvariance == TimelineSpec => []TimelineInv
<1>1. ASSUME TimelineInv, [TimelineNext]_timelineVars PROVE TimelineInv'
  <2>1. CASE UNCHANGED timelineVars
    BY <1>1, <2>1 DEF timelineVars, TimelineInv
  <2> QED
    BY <1>1, <2>1, AddKeeps DEF TimelineNext
<1> QED
  BY <1>1, TimelineInitially, PTL DEF TimelineSpec

\* A recording of any length, at any speed, is valid, is played at normal speed
\* at the times it was captured, moves no event by more than half a microsecond
\* at another speed, keeps their order, and its prebuffer lasts as long as start()
\* asks or holds all of it (RecordingBuilder, expand_offsets, _prebuffer_count).
THEOREM TimesAreKeptAlways == TimelineSpec => []TimesAreKept
<1>1. TimelineInv => TimesAreKept
  BY Valids, PlayedWhole, DriftsNever, PrebufferIsEnough DEF TimesAreKept
<1> QED
  BY <1>1, TimelineInvariance, PTL

-----------------------------------------------------------------------------
(* RecordingStore. *)

Stages == {"idle", "temporary", "written", "full", "linked", "taken", "saved", "failed"}

Typed ==
    /\ files \in [Names -> Recordings \cup {Absent}]
    /\ temps \in [Savers -> Recordings \cup {Absent}]
    /\ saving \in [Savers -> Stages]
    /\ request \in {NoOne} \cup [step : {"load", "save"}, old : Names, new : Names]
    /\ recordings \in Nat

\* A save in progress has the file its stage says, for the name it is to get.
SaveInOrder(saver) ==
    /\ saving[saver] \in {"idle", "saved", "failed"} <=> temps[saver] = Absent
    /\ temps[saver] # Absent => temps[saver].name = PathFor(saver)
    /\ saving[saver] \in {"written", "linked", "taken"} => temps[saver].whole

SavesInOrder ==
    /\ SaveInOrder("worker") /\ SaveInOrder("rename")
    /\ saving["worker"] # "idle" =>
           active.kind = "record" /\ active.name \in Names /\ active.confirmed
    /\ active.kind \in {"record", "playback"} => active.name \in Names
    /\ saving["rename"] # "idle" <=> request.step = "save"

CopyFirst ==
    /\ Locked => request.old # request.new /\ ~IsActive(request.old)
    /\ request.step = "save" => Exists(request.old)
    /\ temps["rename"] # Absent => temps["rename"].data = files[request.old].data
    /\ saving["rename"] \in {"linked", "saved"} =>
           Exists(request.new) /\ files[request.new].data = files[request.old].data

StoreInv == Typed /\ SavesInOrder /\ CopyFirst /\ StoreTypeOK /\ NothingLost

USE DEF Exists, Loads, Locked, PathFor, Savers, NoOne, Idle, Move

-----------------------------------------------------------------------------
(* Recordings: what save() is given, and what it has written. *)

LEMMA ContentIsRecording ==
    ASSUME NEW name \in Names, NEW data \in Nat
    PROVE  /\ Content(name, data) \in Recordings /\ Content(name, data) # Absent
           /\ Content(name, data).name = name /\ Content(name, data).data = data
<1>1. Content(name, data) \in Recordings
  BY DEF Content, Recordings
<1> QED
  BY <1>1, StoreAssumption DEF Content

LEMMA WrittenIsRecording ==
    ASSUME NEW recording \in Recordings
    PROVE  /\ Written(recording) \in Recordings /\ Written(recording) # Absent
           /\ Written(recording).whole
           /\ Written(recording).name = recording.name
           /\ Written(recording).data = recording.data
<1>1. Written(recording) \in Recordings
  BY DEF Written, Recordings
<1>2. Written(recording) # Absent
  BY <1>1, StoreAssumption
<1> QED
  BY <1>1, <1>2 DEF Written, Recordings

\* What a recording holds has a type.
LEMMA RecordingFields ==
    ASSUME NEW recording \in Recordings
    PROVE  /\ recording.name \in Names /\ recording.data \in Nat
           /\ recording.whole \in BOOLEAN /\ recording # Absent
  BY StoreAssumption DEF Recordings

LEMMA StoreInitially == StoreInit => StoreInv
  BY DEF StoreInit, Listing, StoreInv, Typed, SavesInOrder, SaveInOrder, CopyFirst, Stages,
         IsActive, StoreTypeOK, NothingLost

-----------------------------------------------------------------------------
(* The invariant, action by action. *)

LEMMA WriteFailsKeeps ==
    ASSUME StoreInv, NEW saver \in Savers, WriteFails(saver)
    PROVE  StoreInv'
<1> USE RecordingFields
    DEF WriteFails,
        StoreInv, Typed, SavesInOrder, SaveInOrder, CopyFirst, Stages, IsActive,
        StoreTypeOK, NothingLost
<1>1. Typed'
  OBVIOUS
<1>2. SavesInOrder'
  OBVIOUS
<1>3. CopyFirst'
  OBVIOUS
<1>4. StoreTypeOK'
  OBVIOUS
<1>5. NothingLost'
  OBVIOUS
<1> QED
  BY <1>1, <1>2, <1>3, <1>4, <1>5

LEMMA SaveEndsKeeps ==
    ASSUME StoreInv, NEW saver \in Savers, SaveEnds(saver)
    PROVE  StoreInv'
<1> USE RecordingFields
    DEF SaveEnds, UnlinkTemporary,
        StoreInv, Typed, SavesInOrder, SaveInOrder, CopyFirst, Stages, IsActive,
        StoreTypeOK, NothingLost
<1>1. Typed'
  OBVIOUS
<1>2. SavesInOrder'
  OBVIOUS
<1>3. CopyFirst'
  OBVIOUS
<1>4. StoreTypeOK'
  OBVIOUS
<1>5. NothingLost'
  OBVIOUS
<1> QED
  BY <1>1, <1>2, <1>3, <1>4, <1>5

LEMMA RecordingEndsKeeps ==
    ASSUME StoreInv, RecordingEnds
    PROVE  StoreInv'
<1> USE RecordingFields
    DEF RecordingEnds,
        StoreInv, Typed, SavesInOrder, SaveInOrder, CopyFirst, Stages, IsActive,
        StoreTypeOK, NothingLost
<1>1. Typed'
  OBVIOUS
<1>2. SavesInOrder'
  OBVIOUS
<1>3. CopyFirst'
  OBVIOUS
<1>4. StoreTypeOK'
  OBVIOUS
<1>5. NothingLost'
  OBVIOUS
<1> QED
  BY <1>1, <1>2, <1>3, <1>4, <1>5

LEMMA CrashKeeps ==
    ASSUME StoreInv, Crash
    PROVE  StoreInv'
<1> USE RecordingFields
    DEF Crash, Listing,
        StoreInv, Typed, SavesInOrder, SaveInOrder, CopyFirst, Stages, IsActive,
        StoreTypeOK, NothingLost
<1>1. Typed'
  OBVIOUS
<1>2. SavesInOrder'
  OBVIOUS
<1>3. CopyFirst'
  OBVIOUS
<1>4. StoreTypeOK'
  OBVIOUS
<1>5. NothingLost'
  OBVIOUS
<1> QED
  BY <1>1, <1>2, <1>3, <1>4, <1>5

LEMMA RenameKeeps ==
    ASSUME StoreInv, NEW old \in Names, NEW new \in Names, Rename(old, new)
    PROVE  StoreInv'
<1> USE RecordingFields
    DEF Rename,
        StoreInv, Typed, SavesInOrder, SaveInOrder, CopyFirst, Stages, IsActive,
        StoreTypeOK, NothingLost
<1>1. Typed'
  OBVIOUS
<1>2. SavesInOrder'
  OBVIOUS
<1>3. CopyFirst'
  OBVIOUS
<1>4. StoreTypeOK'
  OBVIOUS
<1>5. NothingLost'
  OBVIOUS
<1> QED
  BY <1>1, <1>2, <1>3, <1>4, <1>5

LEMMA DeleteKeeps ==
    ASSUME StoreInv, NEW name \in Names, Delete(name)
    PROVE  StoreInv'
<1> USE RecordingFields
    DEF Delete, RemoveFile,
        StoreInv, Typed, SavesInOrder, SaveInOrder, CopyFirst, Stages, IsActive,
        StoreTypeOK, NothingLost
<1>1. Typed'
  OBVIOUS
<1>2. SavesInOrder'
  OBVIOUS
<1>3. CopyFirst'
  OBVIOUS
<1>4. StoreTypeOK'
  OBVIOUS
<1>5. NothingLost'
  OBVIOUS
<1> QED
  BY <1>1, <1>2, <1>3, <1>4, <1>5

LEMMA DeleteOldKeeps ==
    ASSUME StoreInv, DeleteOld
    PROVE  StoreInv'
<1> USE RecordingFields
    DEF DeleteOld, RemoveFile, Success,
        StoreInv, Typed, SavesInOrder, SaveInOrder, CopyFirst, Stages, IsActive,
        StoreTypeOK, NothingLost
<1>1. Typed'
  OBVIOUS
<1>2. SavesInOrder'
  OBVIOUS
<1>3. CopyFirst'
  OBVIOUS
<1>4. StoreTypeOK'
  OBVIOUS
<1>5. NothingLost'
  OBVIOUS
<1> QED
  BY <1>1, <1>2, <1>3, <1>4, <1>5

LEMMA LinkKeeps ==
    ASSUME StoreInv, NEW saver \in Savers, Link(saver)
    PROVE  StoreInv'
<1> USE RecordingFields
    DEF Link, MayPublish, Publishable,
        StoreInv, Typed, SavesInOrder, SaveInOrder, CopyFirst, Stages, IsActive,
        StoreTypeOK, NothingLost
<1>1. Typed'
  OBVIOUS
<1>2. SavesInOrder'
  OBVIOUS
<1>3. CopyFirst'
  OBVIOUS
<1>4. StoreTypeOK'
  OBVIOUS
<1>5. NothingLost'
  OBVIOUS
<1> QED
  BY <1>1, <1>2, <1>3, <1>4, <1>5

LEMMA LoadOldKeeps ==
    ASSUME StoreInv, LoadOld
    PROVE  StoreInv'
<1> USE RecordingFields, ContentIsRecording
    DEF LoadOld, Create, NewName,
        StoreInv, Typed, SavesInOrder, SaveInOrder, CopyFirst, Stages, IsActive,
        StoreTypeOK, NothingLost
<1>1. Typed'
  OBVIOUS
<1>2. SavesInOrder'
  OBVIOUS
<1>3. CopyFirst'
  OBVIOUS
<1>4. StoreTypeOK'
  OBVIOUS
<1>5. NothingLost'
  OBVIOUS
<1> QED
  BY <1>1, <1>2, <1>3, <1>4, <1>5

LEMMA StopRecordingKeeps ==
    ASSUME StoreInv, StopRecording
    PROVE  StoreInv'
<1> USE RecordingFields, ContentIsRecording
    DEF StopRecording, Create,
        StoreInv, Typed, SavesInOrder, SaveInOrder, CopyFirst, Stages, IsActive,
        StoreTypeOK, NothingLost
<1>1. Typed'
  OBVIOUS
<1>2. SavesInOrder'
  OBVIOUS
<1>3. CopyFirst'
  OBVIOUS
<1>4. StoreTypeOK'
  OBVIOUS
<1>5. NothingLost'
  OBVIOUS
<1> QED
  BY <1>1, <1>2, <1>3, <1>4, <1>5

LEMMA WriteFileKeeps ==
    ASSUME StoreInv, NEW saver \in Savers, WriteFile(saver)
    PROVE  StoreInv'
<1> USE RecordingFields, WrittenIsRecording
    DEF WriteFile,
        StoreInv, Typed, SavesInOrder, SaveInOrder, CopyFirst, Stages, IsActive,
        StoreTypeOK, NothingLost
<1>1. Typed'
  OBVIOUS
<1>2. SavesInOrder'
  OBVIOUS
<1>3. CopyFirst'
  OBVIOUS
<1>4. StoreTypeOK'
  OBVIOUS
<1>5. NothingLost'
  OBVIOUS
<1> QED
  BY <1>1, <1>2, <1>3, <1>4, <1>5

LEMMA BeginRecordKeeps ==
    ASSUME StoreInv, NEW name \in Names, BeginRecord(name)
    PROVE  StoreInv'
<1> USE RecordingFields
    DEF BeginRecord, MayBegin,
        StoreInv, Typed, SavesInOrder, SaveInOrder, CopyFirst, Stages, IsActive,
        StoreTypeOK, NothingLost
<1>1. Typed'
  OBVIOUS
<1>2. SavesInOrder'
  OBVIOUS
<1>3. CopyFirst'
  OBVIOUS
<1>4. StoreTypeOK'
  OBVIOUS
<1>5. NothingLost'
  OBVIOUS
<1> QED
  BY <1>1, <1>2, <1>3, <1>4, <1>5

LEMMA BeginPlaybackKeeps ==
    ASSUME StoreInv, NEW name \in Names, BeginPlayback(name)
    PROVE  StoreInv'
<1> USE RecordingFields
    DEF BeginPlayback, MayBegin,
        StoreInv, Typed, SavesInOrder, SaveInOrder, CopyFirst, Stages, IsActive,
        StoreTypeOK, NothingLost
<1>1. Typed'
  OBVIOUS
<1>2. SavesInOrder'
  OBVIOUS
<1>3. CopyFirst'
  OBVIOUS
<1>4. StoreTypeOK'
  OBVIOUS
<1>5. NothingLost'
  OBVIOUS
<1> QED
  BY <1>1, <1>2, <1>3, <1>4, <1>5

LEMMA NameIsFreeKeeps ==
    ASSUME StoreInv, NameIsFree
    PROVE  StoreInv'
<1> USE RecordingFields
    DEF NameIsFree,
        StoreInv, Typed, SavesInOrder, SaveInOrder, CopyFirst, Stages, IsActive,
        StoreTypeOK, NothingLost
<1>1. Typed'
  OBVIOUS
<1>2. SavesInOrder'
  OBVIOUS
<1>3. CopyFirst'
  OBVIOUS
<1>4. StoreTypeOK'
  OBVIOUS
<1>5. NothingLost'
  OBVIOUS
<1> QED
  BY <1>1, <1>2, <1>3, <1>4, <1>5

LEMMA PlaybackEndsKeeps ==
    ASSUME StoreInv, PlaybackEnds
    PROVE  StoreInv'
<1> USE RecordingFields
    DEF PlaybackEnds,
        StoreInv, Typed, SavesInOrder, SaveInOrder, CopyFirst, Stages, IsActive,
        StoreTypeOK, NothingLost
<1>1. Typed'
  OBVIOUS
<1>2. SavesInOrder'
  OBVIOUS
<1>3. CopyFirst'
  OBVIOUS
<1>4. StoreTypeOK'
  OBVIOUS
<1>5. NothingLost'
  OBVIOUS
<1> QED
  BY <1>1, <1>2, <1>3, <1>4, <1>5

LEMMA GlobKeeps ==
    ASSUME StoreInv, Glob
    PROVE  StoreInv'
<1> USE RecordingFields
    DEF Glob,
        StoreInv, Typed, SavesInOrder, SaveInOrder, CopyFirst, Stages, IsActive,
        StoreTypeOK, NothingLost
<1>1. Typed'
  OBVIOUS
<1>2. SavesInOrder'
  OBVIOUS
<1>3. CopyFirst'
  OBVIOUS
<1>4. StoreTypeOK'
  OBVIOUS
<1>5. NothingLost'
  OBVIOUS
<1> QED
  BY <1>1, <1>2, <1>3, <1>4, <1>5

LEMMA LoadListedKeeps ==
    ASSUME StoreInv, LoadListed
    PROVE  StoreInv'
<1> USE RecordingFields
    DEF LoadListed,
        StoreInv, Typed, SavesInOrder, SaveInOrder, CopyFirst, Stages, IsActive,
        StoreTypeOK, NothingLost
<1>1. Typed'
  OBVIOUS
<1>2. SavesInOrder'
  OBVIOUS
<1>3. CopyFirst'
  OBVIOUS
<1>4. StoreTypeOK'
  OBVIOUS
<1>5. NothingLost'
  OBVIOUS
<1> QED
  BY <1>1, <1>2, <1>3, <1>4, <1>5

LEMMA StutterKeeps ==
    ASSUME StoreInv, UNCHANGED storeVars
    PROVE  StoreInv'
  BY DEF storeVars, StoreInv, Typed, SavesInOrder, SaveInOrder, CopyFirst, Stages,
         IsActive, StoreTypeOK, NothingLost

LEMMA StepKeeps == StoreInv /\ [StoreNext]_storeVars => StoreInv'
<1> SUFFICES ASSUME StoreInv, [StoreNext]_storeVars PROVE StoreInv'
  OBVIOUS
<1>1. CASE \E saver \in Savers :
              WriteFile(saver) \/ WriteFails(saver) \/ Link(saver) \/ SaveEnds(saver)
  BY <1>1, WriteFileKeeps, WriteFailsKeeps, LinkKeeps, SaveEndsKeeps
<1>2. CASE \E name \in Names : BeginRecord(name) \/ BeginPlayback(name) \/ Delete(name)
  BY <1>2, BeginRecordKeeps, BeginPlaybackKeeps, DeleteKeeps
<1>3. CASE \E old, new \in Names : Rename(old, new)
  BY <1>3, RenameKeeps
<1>4. CASE NameIsFree \/ StopRecording \/ RecordingEnds \/ PlaybackEnds
  BY <1>4, NameIsFreeKeeps, StopRecordingKeeps, RecordingEndsKeeps, PlaybackEndsKeeps
<1>5. CASE LoadOld \/ DeleteOld \/ Glob \/ LoadListed \/ Crash
  BY <1>5, LoadOldKeeps, DeleteOldKeeps, GlobKeeps, LoadListedKeeps, CrashKeeps
<1> QED
  BY <1>1, <1>2, <1>3, <1>4, <1>5, StutterKeeps DEF StoreNext

\* The inductive invariant of the store and of those who use it at once.
THEOREM StoreInvariance == StoreSpec => []StoreInv
  BY StoreInitially, StepKeeps, PTL DEF StoreSpec

-----------------------------------------------------------------------------
(* What a list has met so far: it loads without the lock, so a name it has  *)
(* yet to load may have gone meanwhile, but only as one that was removed.   *)

ListInv ==
    /\ listing \in [left : SUBSET Names, failed : SUBSET Names, removed : SUBSET Names]
    /\ \A name \in listing.left : Loads(name) \/ name \in listing.removed
    /\ ListFailsOnRemoval

LEMMA ListStep == StoreInv /\ ListInv /\ [StoreNext]_storeVars => ListInv'
<1> SUFFICES ASSUME StoreInv, ListInv, [StoreNext]_storeVars PROVE ListInv'
  OBVIOUS
<1> USE DEF StoreInv, Typed, ListInv, ListFailsOnRemoval
<1>1. ASSUME UNCHANGED <<files, listing>> PROVE ListInv'
  BY <1>1
<1>2. ASSUME NEW name \in Names, RemoveFile(name) PROVE ListInv'
  BY <1>2 DEF RemoveFile
<1>3. ASSUME NEW saver \in Savers, Link(saver) PROVE ListInv'
  BY <1>3 DEF Link, MayPublish, Publishable
<1>4. CASE Glob
  BY <1>4 DEF Glob, Listing, StoreTypeOK
<1>5. CASE LoadListed
  <2>1. PICK name \in listing.left :
               listing' = IF Loads(name) THEN [listing EXCEPT !.left = @ \ {name}]
                          ELSE [listing EXCEPT !.left = {}, !.failed = {name}]
    BY <1>5 DEF LoadListed
  <2>2. files' = files
    BY <1>5 DEF LoadListed
  <2>3. CASE Loads(name)
    <3>1. listing' = [listing EXCEPT !.left = @ \ {name}]
      BY <2>1, <2>3
    <3> QED
      BY <2>2, <3>1
  <2>4. CASE ~Loads(name)
    <3>1. listing' = [listing EXCEPT !.left = {}, !.failed = {name}]
      BY <2>1, <2>4
    <3>2. name \in listing.removed /\ name \in Names
      BY <2>1, <2>4
    <3>3. /\ listing'.left = {} /\ listing'.failed = {name}
          /\ listing'.removed = listing.removed
          /\ listing' \in [left : SUBSET Names, failed : SUBSET Names, removed : SUBSET Names]
      BY <3>1, <3>2
    <3> QED
      BY <3>2, <3>3
  <2> QED
    BY <2>3, <2>4
<1>6. CASE Crash
  BY <1>6 DEF Crash, Listing
<1>7. CASE DeleteOld
  BY <1>1, <1>2, <1>7 DEF DeleteOld, CopyFirst
<1>8. CASE \E name \in Names : Delete(name)
  BY <1>2, <1>8 DEF Delete
<1> QED
  BY <1>1, <1>3, <1>4, <1>5, <1>6, <1>7, <1>8
  DEF StoreNext, storeVars, WriteFile, WriteFails, SaveEnds, BeginRecord, BeginPlayback,
      Rename, NameIsFree, StopRecording, RecordingEnds, PlaybackEnds, LoadOld

\* Every published file is whole, no recording has gone unasked, a save leaves
\* no litter, and a list fails only at a removal: at every moment, also after
\* a crash in any save or rename.
THEOREM StoreIsSoundAlways == StoreSpec => []StoreIsSound
<1>1. StoreInit => ListInv
  BY DEF StoreInit, Listing, ListInv, ListFailsOnRemoval
<1>2. StoreInv => NoLitter
  BY DEF StoreInv, SavesInOrder, SaveInOrder, NoLitter
<1>3. StoreInv /\ ListInv => StoreIsSound
  BY <1>2 DEF StoreInv, ListInv, StoreIsSound
<1> QED
  BY <1>1, <1>3, StoreInvariance, ListStep, PTL DEF StoreSpec

-----------------------------------------------------------------------------
\* A step of the store leaves a published file alone or removes it, and does
\* not touch the one that is played.
LEMMA StepKeepsFiles ==
    ASSUME StoreInv, [StoreNext]_storeVars, NEW name \in Names, Exists(name)
    PROVE  /\ files'[name] \in {files[name], Absent}
           /\ IsActive(name) => files'[name] = files[name]
<1> USE DEF StoreInv, Typed, IsActive
<1>1. CASE UNCHANGED files
  BY <1>1
<1>2. ASSUME NEW saver \in Savers, Link(saver)
      PROVE  files'[name] = files[name]
  BY <1>2 DEF Link, MayPublish, Publishable
<1>3. ASSUME NEW other \in Names, Delete(other)
      PROVE  /\ files'[name] \in {files[name], Absent}
             /\ IsActive(name) => files'[name] = files[name]
  BY <1>3 DEF Delete, RemoveFile
<1>4. CASE DeleteOld
  BY <1>4 DEF DeleteOld, RemoveFile, CopyFirst
<1> QED
  BY <1>1, <1>2, <1>3, <1>4
  DEF StoreNext, storeVars, WriteFile, WriteFails, SaveEnds, BeginRecord, BeginPlayback,
      Rename, NameIsFree, StopRecording, RecordingEnds, PlaybackEnds, LoadOld, Glob,
      LoadListed, Crash

\* A published recording is never replaced, and the one that is played is
\* neither renamed nor deleted, however saves, renames and deletions interleave.
THEOREM FilesAreKeptAlways == StoreSpec => FilesAreKept
<1>1. StoreInv /\ [StoreNext]_storeVars
        => [\A name \in Names : Exists(name) => files'[name] \in {files[name], Absent}]_storeVars
  BY StepKeepsFiles
<1>2. StoreInv /\ [StoreNext]_storeVars
        => [active.kind = "playback" /\ active' = active /\ Exists(active.name)
               => files'[active.name] = files[active.name]]_storeVars
  BY StepKeepsFiles DEF StoreInv, SavesInOrder, IsActive
<1> QED
  BY <1>1, <1>2, StoreInvariance, PTL DEF StoreSpec, FilesAreKept, NoClobber, PlayedIsKept

=============================================================================
