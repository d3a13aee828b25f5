------------------------------ MODULE Timeline ------------------------------
(***************************************************************************)
(* Time from the capture to the playback: RecordingBuilder turns the       *)
(* timestamps of the Pico into deltas (zero/app/recording.py), a Recording *)
(* checks them, and expand_offsets turns them back into offsets from the   *)
(* start of the run, at some speed, of which start() queues a prebuffer    *)
(* (zero/app/playback.py).  A speed is a quotient; rounding is Python's.   *)
(***************************************************************************)
EXTENDS Integers, Sequences, SequencesExt

CONSTANTS
    Width,         \* MAX_U64 + 1
    Numerators, Denominators,
    Prebuffer,     \* prebuffer_us
    MaxEvents      \* bound: events of a recording

\* A speed is above zero (expand_offsets refuses any other).
ASSUME TimelineAssumption ==
    /\ Width \in Nat \ {0} /\ Prebuffer \in Nat
    /\ Numerators \cup Denominators \subseteq Nat \ {0}

VARIABLES
    epoch, last,   \* the builder's _epoch and _last_timestamp, or None
    deltas,        \* its _events: the dt_us
    refused,       \* an add that raised
    timestamps     \* history: what was added

timelineVars == <<epoch, last, deltas, refused, timestamps>>

None == -1
Total(numbers) == FoldLeft(+, 0, numbers)

-----------------------------------------------------------------------------
(* Recording. *)

Delta(timestamp) == IF epoch = None THEN 0 ELSE timestamp - last

InOrder(timestamp) == last = None \/ timestamp >= last

Add(timestamp) ==
    /\ Len(timestamps) < MaxEvents /\ ~refused
    /\ IF InOrder(timestamp)
       THEN /\ epoch' = IF epoch = None THEN timestamp ELSE epoch
            /\ last' = timestamp
            /\ deltas' = Append(deltas, Delta(timestamp))
            /\ timestamps' = Append(timestamps, timestamp)
            /\ UNCHANGED refused
       ELSE refused' = TRUE /\ UNCHANGED <<epoch, last, deltas, timestamps>>

Duration == IF epoch = None THEN 0 ELSE last - epoch

Valid(events, duration) ==
    /\ events # <<>> => events[1] = 0
    /\ Total(events) = duration
    /\ duration \in 0..(Width - 1)

-----------------------------------------------------------------------------
(* Playback. *)

\* round(n / d): a half goes to the even neighbour.
Round(n, d) ==
    LET below == n \div d
        twice == 2 * (n % d)
    IN  IF twice > d \/ (twice = d /\ below % 2 = 1) THEN below + 1 ELSE below

\* Fault: every delta is scaled and rounded by itself.
ScaledDeltas(num, den) ==
    [i \in DOMAIN deltas |-> Total([j \in 1..i |-> Round(deltas[j] * den, num)])]

Offsets(num, den) ==
    [i \in DOMAIN deltas |-> Round(Total(SubSeq(deltas, 1, i)) * den, num)]

AndTheNext(places) == Cardinality(places) + 1

PrebufferCount(offsets) ==
    LET early == {i \in DOMAIN offsets : \A j \in 1..i : offsets[j] < Prebuffer}
    IN  IF early = DOMAIN offsets THEN Len(offsets) ELSE AndTheNext(early)

-----------------------------------------------------------------------------
TimelineInit ==
    epoch = None /\ last = None /\ deltas = <<>> /\ refused = FALSE /\ timestamps = <<>>

TimelineNext == \E timestamp \in 0..(Width - 1) : Add(timestamp)

TimelineSpec == TimelineInit /\ [][TimelineNext]_timelineVars

-----------------------------------------------------------------------------
(* Properties. *)

\* Whatever is recorded makes a Recording that its own checks accept, so that
\* no recording is refused when it is saved or loaded.
BuiltIsValid == Valid(deltas, Duration)

\* At normal speed the offsets are the times of capture, from the first event
\* on, for any pauses in between.
PlayedAsRecorded ==
    \A i \in DOMAIN deltas : Offsets(1, 1)[i] = timestamps[i] - timestamps[1]

\* At any speed no event is moved by more than half a microsecond, however many
\* came before it ("offsets remain anchored to the one Pico epoch",
\* playback.py), and so none overtakes another.
NoDrift ==
    \A num \in Numerators, den \in Denominators : \A i \in DOMAIN deltas :
        LET exact == (timestamps[i] - timestamps[1]) * den
            error == Offsets(num, den)[i] * num - exact
        IN  /\ 2 * error =< num /\ -num =< 2 * error
            /\ i > 1 => Offsets(num, den)[i - 1] =< Offsets(num, den)[i]

\* What start() queues lasts for the prebuffer, or is everything.
PrebufferLasts ==
    \A num \in Numerators, den \in Denominators :
        LET offsets == Offsets(num, den)
            n == PrebufferCount(offsets)
        IN  n = Len(offsets) \/ (n > 0 /\ offsets[n] >= Prebuffer)

\* A recording keeps its times, from the capture to the playback.
TimesAreKept == BuiltIsValid /\ PlayedAsRecorded /\ NoDrift /\ PrebufferLasts

=============================================================================
