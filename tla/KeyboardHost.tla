---------------------------- MODULE KeyboardHost ----------------------------
(***************************************************************************)
(* The USB host's callbacks (pico/src/hid_keyboard_host.c) and the ring of *)
(* captured reports they fill (pico/src/keyboard_capture.c), against USB   *)
(* interfaces that come, go and complete transfers in any order.  The main *)
(* loop takes from the ring and clears it.  The n-th report is stamped n.  *)
(***************************************************************************)
EXTENDS Naturals, Sequences

CONSTANTS
    Keyboards, Others,  \* USB interfaces with and without the boot protocol
    Nobody,
    Capacity,           \* PICO_KEYBOARD_CAPTURE_CAPACITY
    MaxReports          \* bound: transfers that complete

ASSUME HostAssumption == Nobody \notin Keyboards \cup Others /\ Capacity \in Nat \ {0}

VARIABLES
    plugged,    \* interfaces on the bus
    requested,  \* those with a transfer under way
    mounted,    \* host_state: the keyboard in use, or Nobody
    silenced,   \* history: keyboards whose last request was refused
    accepting,  \* pico_mode_state_accepts_physical
    ring, readIndex, writeIndex, count, dropped,  \* pico_keyboard_capture_t
    reports     \* counter

bus == <<plugged, requested, mounted, silenced>>
capture == <<ring, readIndex, writeIndex, count, dropped>>
hostVars == <<bus, accepting, capture, reports>>

Interfaces == Keyboards \cup Others

-----------------------------------------------------------------------------
\* tuh_hid_receive_report may refuse; nothing asks again.
RequestNext(k, others) ==
    \/ requested' = others \cup {k} /\ silenced' = silenced \ {k}
    \/ requested' = others /\ silenced' = silenced \cup {k}

MayMount(k) == k \in Keyboards /\ mounted \in {Nobody, k}

Mount(k) ==
    /\ k \notin plugged
    /\ plugged' = plugged \cup {k}
    /\ IF MayMount(k)
       THEN mounted' = k /\ RequestNext(k, requested)
       ELSE UNCHANGED <<mounted, requested, silenced>>
    /\ UNCHANGED <<accepting, capture, reports>>

\* The stack gives up the transfer of an interface that is gone.
Unmount(k) ==
    /\ k \in plugged
    /\ plugged' = plugged \ {k}
    /\ requested' = requested \ {k}
    /\ mounted' = IF mounted = k THEN Nobody ELSE mounted
    /\ UNCHANGED <<silenced, accepting, capture, reports>>

Successor(index) == (index + 1) % Capacity

Room == count < Capacity

Push(report) ==
    IF Room
    THEN /\ ring' = [ring EXCEPT ![writeIndex] = report]
         /\ writeIndex' = Successor(writeIndex)
         /\ count' = count + 1
         /\ UNCHANGED <<readIndex, dropped>>
    ELSE dropped' = dropped + 1 /\ UNCHANGED <<ring, readIndex, writeIndex, count>>

\* Fault: only a report that was captured is followed by a request.
RearmsIfCaptured(captured) == captured

Rearms(captured) == TRUE

\* A transfer completes, with a whole report or a malformed one.
ReportReceived(k, whole) ==
    LET captured == whole /\ accepting
    IN  /\ k \in requested
        /\ reports < MaxReports
        /\ reports' = reports + 1
        /\ IF mounted = k
           THEN /\ IF captured THEN Push(reports') ELSE UNCHANGED capture
                /\ IF Rearms(captured)
                   THEN RequestNext(k, requested \ {k})
                   ELSE requested' = requested \ {k} /\ UNCHANGED silenced
           ELSE requested' = requested \ {k} /\ UNCHANGED <<silenced, capture>>
        /\ UNCHANGED <<plugged, mounted, accepting>>

\* The main loop has forwarded the head.
Pop ==
    /\ count > 0
    /\ readIndex' = Successor(readIndex)
    /\ count' = count - 1
    /\ UNCHANGED <<ring, writeIndex, dropped, bus, accepting, reports>>

\* Fault: the indices are left where they are.
ForgetCount == count' = 0 /\ UNCHANGED <<readIndex, writeIndex>>

Forget == count' = 0 /\ readIndex' = 0 /\ writeIndex' = 0

\* A mode change clears the ring, and accepts physical input or not.
ChangeMode ==
    /\ Forget
    /\ accepting' \in BOOLEAN
    /\ UNCHANGED <<ring, dropped, bus, reports>>

HostInit ==
    /\ plugged = {} /\ requested = {} /\ mounted = Nobody /\ silenced = {}
    /\ accepting = TRUE
    /\ ring = [i \in 0..(Capacity - 1) |-> 0]
    /\ readIndex = 0 /\ writeIndex = 0 /\ count = 0 /\ dropped = 0
    /\ reports = 0

HostNext ==
    \/ \E k \in Interfaces : Mount(k) \/ Unmount(k) \/ \E whole \in BOOLEAN : ReportReceived(k, whole)
    \/ Pop \/ ChangeMode

HostSpec == HostInit /\ [][HostNext]_hostVars

-----------------------------------------------------------------------------
(* Properties. *)

HostTypeOK ==
    /\ mounted \in Keyboards \cup {Nobody} /\ requested \subseteq Keyboards \cap plugged
    /\ count \in 0..Capacity /\ {readIndex, writeIndex} \subseteq DOMAIN ring
    /\ silenced \subseteq Keyboards

\* One keyboard is listened to: "a second keyboard remains unarmed rather than
\* silently sharing capture state" (hid_keyboard_host.c).
OneKeyboardHeard == requested \subseteq {mounted}

\* The keyboard in use is always listened to, in whatever mode its reports come
\* and however malformed, unless the stack itself refused: "one bad transfer
\* cannot permanently stop the keyboard" (hid_keyboard_host.c).
KeyboardStaysHeard == mounted # Nobody /\ mounted \notin silenced => mounted \in requested

\* Whatever is plugged in, and in whatever order, the keyboard in use is heard and
\* no other one.
KeyboardIsHeard == HostTypeOK /\ OneKeyboardHeard /\ KeyboardStaysHeard

\* The ring is a bounded FIFO: reports leave in the order they came, and only
\* a full ring drops one.
InRing == [i \in 1..count |-> ring[(readIndex + i - 1) % Capacity]]

Captured == INSTANCE BoundedFifo WITH items <- InRing, refused <- dropped

CaptureRingKept == Captured!Spec

=============================================================================
