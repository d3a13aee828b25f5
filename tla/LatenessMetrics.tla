--------------------------- MODULE LatenessMetrics ---------------------------
(***************************************************************************)
(* The lateness metrics of playback runs (pico/src/playback_scheduler.c):  *)
(* what each dispatch adds to them, the sort and the percentiles at the    *)
(* end of a run, and PLAY_METRICS as the Zero reads it.  The array of      *)
(* samples is sorted in place and outlives the run it belongs to.          *)
(***************************************************************************)
EXTENDS Integers, SequencesExt

CONSTANTS
    MaxSamples,     \* PICO_PLAYBACK_SCHEDULER_MAX_SAMPLES
    MaxInt,         \* INT32_MAX
    Percents,       \* {95, 99}
    Gaps,           \* dispatch time minus deadline, before narrowing
    MaxDispatches,  \* bound: dispatches in a run
    MaxRuns         \* bound: runs

ASSUME MetricsAssumption ==
    /\ {MaxSamples, MaxInt} \subseteq Nat \ {0}
    /\ {MaxDispatches, MaxRuns} \subseteq Nat
    /\ Percents \subseteq 1..100
    /\ Gaps \subseteq Int

VARIABLES
    measuring,  \* scheduler.running
    totals,     \* dispatched_count, min, max and sum
    samples,    \* lateness_samples
    count,      \* sample_count
    truncated,  \* samples_truncated
    reported,   \* what the Zero has read of the last run, or Nothing
    gaps,       \* history: the gaps of this run's dispatches
    runCount    \* history: runs started

metricsVars == <<measuring, totals, samples, count, truncated, reported, gaps, runCount>>

Nothing == [dispatched |-> -1]
NoTotals == [dispatched |-> 0, min |-> 0, max |-> 0, sum |-> 0]

MinInt == -MaxInt - 1
Span == 2 * (MaxInt + 1)

-----------------------------------------------------------------------------
(* int32_t: narrowing, and the wire's unsigned form of it. *)

Signed(word) == IF word > MaxInt THEN word - Span ELSE word

Clamp(gap) == IF gap > MaxInt THEN MaxInt ELSE IF gap < MinInt THEN MinInt ELSE gap

\* write_u32_le of a cast to uint32_t, then struct.unpack("<i").
AsRead(lateness) == Signed(lateness % Span)

-----------------------------------------------------------------------------
(* sort_samples and percentile *)

\* One pass of the insertion sort: the key goes behind the last element that
\* is not above it.
InsertSorted(sorted, key) ==
    LET places == {j \in 0..Len(sorted) : j = 0 \/ sorted[j] =< key}
    IN  InsertAt(sorted, Max(places) + 1, key)

SortSamples(array) == FoldLeft(InsertSorted, <<>>, array)

\* Fault: the rank is rounded down.
FlooredRank(p, n) == IF p * n < 100 THEN 1 ELSE (p * n) \div 100

Rank(p, n) ==
    LET rank == (p * n + 99) \div 100
    IN  IF rank < 1 THEN 1 ELSE IF rank > n THEN n ELSE rank

Percentile(sorted, n, p) == IF n = 0 THEN 0 ELSE sorted[Rank(p, n)]

-----------------------------------------------------------------------------
FreshTruncated == FALSE

StartRun ==
    /\ ~measuring
    /\ runCount < MaxRuns
    /\ measuring' = TRUE
    /\ totals' = NoTotals
    /\ count' = 0
    /\ truncated' = FreshTruncated
    /\ gaps' = <<>>
    /\ runCount' = runCount + 1
    /\ UNCHANGED <<samples, reported>>

Room == count < MaxSamples

FirstSample == totals.dispatched = 0

RecordLateness(lateness) ==
    /\ totals' = [dispatched |-> totals.dispatched + 1,
                  min |-> IF FirstSample \/ lateness < totals.min THEN lateness ELSE totals.min,
                  max |-> IF FirstSample \/ lateness > totals.max THEN lateness ELSE totals.max,
                  sum |-> totals.sum + lateness]
    /\ IF Room
       THEN /\ samples' = [samples EXCEPT ![count + 1] = lateness]
            /\ count' = count + 1
            /\ UNCHANGED truncated
       ELSE truncated' = TRUE /\ UNCHANGED <<samples, count>>

Dispatch ==
    /\ measuring
    /\ Len(gaps) < MaxDispatches
    /\ \E gap \in Gaps : RecordLateness(Clamp(gap)) /\ gaps' = Append(gaps, gap)
    /\ UNCHANGED <<measuring, reported, runCount>>

\* finish(): the run ends, drained or interrupted, and PLAY_METRICS is sent.
Finish ==
    LET sorted == SortSamples(SubSeq(samples, 1, count))
    IN  /\ measuring
        /\ measuring' = FALSE
        /\ samples' = sorted \o SubSeq(samples, count + 1, MaxSamples)
        /\ reported' = [dispatched |-> totals.dispatched,
                        min |-> AsRead(totals.min), max |-> AsRead(totals.max),
                        sum |-> totals.sum, truncated |-> truncated,
                        percentile |-> [p \in Percents |-> AsRead(Percentile(sorted, count, p))]]
        /\ UNCHANGED <<totals, count, truncated, gaps, runCount>>

MetricsInit ==
    /\ measuring = FALSE /\ totals = NoTotals /\ count = 0 /\ truncated = FALSE
    /\ samples = [i \in 1..MaxSamples |-> 0]
    /\ reported = Nothing /\ gaps = <<>> /\ runCount = 0

MetricsNext == StartRun \/ Dispatch \/ Finish

MetricsSpec == MetricsInit /\ [][MetricsNext]_metricsVars

-----------------------------------------------------------------------------
(* Properties. *)

\* The sample log is never written behind its end, and every metric fits the
\* int32_t it is sent as.
MetricsTypeOK ==
    /\ count \in 0..MaxSamples
    /\ samples \in [1..MaxSamples -> MinInt..MaxInt]
    /\ {totals.min, totals.max} \subseteq MinInt..MaxInt
    /\ totals.dispatched = Len(gaps)
    /\ measuring \in BOOLEAN
    /\ runCount \in 0..MaxRuns

Told == ~measuring /\ reported # Nothing
Latenesses == {Clamp(gaps[i]) : i \in DOMAIN gaps}
ClampedSum(s) == FoldLeft(LAMBDA sum, gap : sum + Clamp(gap), 0, s)

\* What the Zero reads covers every dispatch of this run, also those beyond
\* the log, none of an earlier run; truncation is told exactly when it
\* happened (docs/protocol.md, PLAY_METRICS).
TotalsDescribeRun ==
    Told => /\ reported.dispatched = Len(gaps)
            /\ reported.truncated = (Len(gaps) > MaxSamples)
            /\ gaps # <<>> => /\ reported.min = Min(Latenesses)
                              /\ reported.max = Max(Latenesses)
            /\ reported.sum = ClampedSum(gaps)

\* Nearest rank, said without sorting: the least sample that at least p per
\* cent of the retained samples do not exceed.
Retained == SubSeq(gaps, 1, Min({Len(gaps), MaxSamples}))
NotAbove(value) == Cardinality({i \in DOMAIN Retained : Clamp(Retained[i]) =< value})

PercentilesAreNearestRank ==
    Told /\ gaps # <<>> =>
        \A p \in Percents :
            reported.percentile[p] =
                Min({v \in Latenesses : 100 * NotAbove(v) >= p * Len(Retained)})

\* A stall longer than int32_t can say is reported as the longest lateness it
\* can say, never as a small or a negative one.
StallIsNotHidden ==
    Told => \A i \in DOMAIN gaps : gaps[i] > MaxInt => reported.max = MaxInt

\* PLAY_METRICS describes its run, whatever the runs before it left in the log.
MetricsDescribeRun ==
    MetricsTypeOK /\ TotalsDescribeRun /\ PercentilesAreNearestRank /\ StallIsNotHidden

=============================================================================
