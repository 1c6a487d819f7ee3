--------------------------- MODULE LinePerformance ---------------------------
(***************************************************************************)
(* The figures of the history: what a sample of the feeds adds to the      *)
(* snapshots and the daily rows (aggregateHistorySample, persist), what a  *)
(* backfill makes of the snapshots, and what is reported of the rows       *)
(* (HistoryService).                                                       *)
(*                                                                         *)
(* HistorySampler has the order of the writes and what fails between them; *)
(* here a sample and a backfill are one step each.  One mode stands for    *)
(* all.  Percentages are in tenths.                                        *)
(***************************************************************************)
EXTENDS Integers, Sequences, FiniteSets, FiniteSetsExt, Functions

CONSTANTS
    Trips,
    TripLine,        \* resolveLine, of each trip
    Network,         \* the line NETWORK, of an alert that names nothing
    Inputs,          \* the samples that are tried
    MaxSampled       \* bound: samples taken

Badges    == Range(TripLine) \cup {Network}
Period    == {1, 2}
Threshold == 300

\* What the feeds say of a trip, and a sample of them: seats has the score of each
\* vehicle, -1 for one that is unknown.
Absent == [seen |-> FALSE, cancelled |-> FALSE, skipped |-> FALSE, delay |-> 0]

ASSUME LinePerformanceAssumption ==
    /\ IsFiniteSet(Trips) /\ DOMAIN TripLine = Trips /\ Network \notin Range(TripLine)
    /\ MaxSampled \in Nat
    /\ \A in \in Inputs :
         /\ \A t \in Trips : in.trips[t].delay \in Int
         /\ in.seats \in Seq(Badges \X (-1 .. 4))
         /\ in.alerts \in Seq((SUBSET Badges) \X (0 .. 5))
         /\ in.peak \in BOOLEAN /\ in.scheduled \in Nat

VARIABLES
    sampled,  \* per day the snapshots, line by line
    rowOf,    \* line_performance_daily
    alreadyCancelled, alreadySkipped

figureVars == <<sampled, rowOf, alreadyCancelled, alreadySkipped>>

Larger(a, b)  == IF a < b THEN b ELSE a
Rounded(n, d) == (2 * n + d) \div (2 * d)

\* percentile: the nearest rank among the values of a function, 0 if there are none.
Percentile(values, p) ==
    LET rank == Larger(1, (p * Cardinality(DOMAIN values) + 99) \div 100)
    IN  IF DOMAIN values = {} THEN 0
        ELSE CHOOSE v \in Range(values) :
               /\ Cardinality({i \in DOMAIN values : values[i] < v}) < rank
               /\ rank <= Cardinality({i \in DOMAIN values : values[i] <= v})

PeakFields   == {"peakTracked", "peakDelayed", "offPeakTracked", "offPeakDelayed", "effects"}
Approximated == {"scoreSum", "scored", "minutes"}
Greatest     == {"max", "scheduled"}
Counters     == {"samples", "tracked", "delayed", "cancelled", "skipped", "early", "delaySum",
                 "p50Sum", "p90Sum", "crowded"} \cup PeakFields \cup Approximated \cup Greatest
NoRow        == [f \in Counters |-> 0]

FiguresInit ==
    /\ sampled = [d \in Period |-> <<>>]
    /\ rowOf = [d \in Period |-> [l \in Badges |-> NoRow]]
    /\ alreadyCancelled = [d \in Period |-> {}] /\ alreadySkipped = [d \in Period |-> {}]

-----------------------------------------------------------------------------
(* A sample. *)

\* The lines an alert is charged to.
AffectedLines(alert) == IF alert[1] = {} THEN {Network} ELSE alert[1]

\* snapshotRowFromAccumulator: delays by trip, scores by vehicle, minutes by alert.
SnapshotOf(in, tracked, cancelled, skipped, delays, scores, minutes) ==
    LET delaySum == SumFunction([t \in DOMAIN delays |-> Larger(0, delays[t])])
        active   == tracked - cancelled
        known    == {v \in DOMAIN scores : scores[v] # -1}
        scoreSum == SumFunctionOnSet(scores, known)
    IN  [tracked |-> tracked, cancelled |-> cancelled, skipped |-> skipped, peak |-> in.peak,
         delayed |-> Cardinality({t \in DOMAIN delays : delays[t] > Threshold}),
         early   |-> Cardinality({t \in DOMAIN delays : delays[t] < 0}),
         avg     |-> IF active > 0 THEN Rounded(delaySum, active) ELSE 0,
         max     |-> Max({0} \cup Range(delays)),
         p50     |-> Percentile(delays, 50),
         p90     |-> Percentile(delays, 90),
         vehicles |-> Cardinality(DOMAIN scores), scoreSum |-> scoreSum, scored |-> Cardinality(known),
         avgOccupancy |-> IF known # {} THEN Rounded(scoreSum, Cardinality(known)) ELSE 0,
         crowded  |-> Cardinality({v \in known : scores[v] >= 3}),
         disruptions |-> Cardinality(DOMAIN minutes), minutes |-> SumFunction(minutes),
         scheduled |-> in.scheduled]

Tracked(in, l) == {t \in Trips : in.trips[t].seen /\ TripLine[t] = l}

\* Mutant: a cancelled trip still counts with its delay.
EveryTrip(in, l) == Tracked(in, l)

\* The trips whose delay counts.
Active(in, l) == {t \in Tracked(in, l) : ~in.trips[t].cancelled}

\* The vehicles and the alerts of a line, by their positions in the sample.
SeatsOf(in, l)  == {i \in DOMAIN in.seats : in.seats[i][1] = l}
AlertsOf(in, l) == {i \in DOMAIN in.alerts : l \in AffectedLines(in.alerts[i])}

\* aggregateHistorySample, for one line.  A trip that is cancelled counts as tracked,
\* and as cancelled the first time in a day.
Accumulate(in, d, l) ==
    LET gone  == {t \in Tracked(in, l) : in.trips[t].cancelled} \ alreadyCancelled[d]
        skips == {t \in Active(in, l) : in.trips[t].skipped} \ alreadySkipped[d]
    IN  SnapshotOf(in, Cardinality(Tracked(in, l)), Cardinality(gone), Cardinality(skips),
                   [t \in Active(in, l) |-> in.trips[t].delay],
                   [i \in SeatsOf(in, l) |-> in.seats[i][2]],
                   [i \in AlertsOf(in, l) |-> in.alerts[i][2]])

\* The lines a sample has an accumulator for.
LinesIn(in) ==
    {TripLine[t] : t \in {t \in Trips : in.trips[t].seen}}
      \cup {s[1] : s \in Range(in.seats)} \cup UNION {AffectedLines(a) : a \in Range(in.alerts)}

\* The row that persist() adds for a snapshot.
Increment(s) ==
    [samples |-> 1, tracked |-> s.tracked, delayed |-> s.delayed, cancelled |-> s.cancelled,
     skipped |-> s.skipped, early |-> s.early, p50Sum |-> s.p50, p90Sum |-> s.p90,
     delaySum |-> s.avg * Larger(0, s.tracked - s.cancelled), max |-> s.max,
     scoreSum |-> s.scoreSum, scored |-> s.scored, crowded |-> s.crowded,
     peakTracked    |-> IF s.peak THEN s.tracked ELSE 0, peakDelayed |-> IF s.peak THEN s.delayed ELSE 0,
     offPeakTracked |-> IF s.peak THEN 0 ELSE s.tracked, offPeakDelayed |-> IF s.peak THEN 0 ELSE s.delayed,
     minutes |-> s.minutes, effects |-> s.disruptions, scheduled |-> s.scheduled]

\* ON CONFLICT DO UPDATE of persist().
AddRow(row, inc) ==
    [f \in Counters |-> IF f \in Greatest THEN Larger(row[f], inc[f]) ELSE row[f] + inc[f]]

TakeSample(d, in) ==
    LET lines == LinesIn(in)
        snap  == [l \in lines |-> Accumulate(in, d, l)]
    IN  /\ Len(sampled[1]) + Len(sampled[2]) < MaxSampled /\ lines # {}
        /\ sampled' = [sampled EXCEPT ![d] = Append(@, snap)]
        /\ rowOf' = [rowOf EXCEPT ![d] =
                       [l \in Badges |-> IF l \in lines THEN AddRow(@[l], Increment(snap[l])) ELSE @[l]]]
        /\ alreadyCancelled' = [alreadyCancelled EXCEPT ![d] =
                       @ \cup {t \in Trips : in.trips[t].seen /\ in.trips[t].cancelled}]
        /\ alreadySkipped' = [alreadySkipped EXCEPT ![d] =
                       @ \cup {t \in Trips : in.trips[t].seen /\ ~in.trips[t].cancelled /\ in.trips[t].skipped}]

-----------------------------------------------------------------------------
(* A backfill. *)

\* Mutant: the average delay is multiplied by the trips that were cancelled too.
RebuiltOfTracked(s) ==
    [f \in Counters |-> IF f = "delaySum" THEN s.avg * s.tracked
                        ELSE IF f \in PeakFields \cup Approximated THEN 0 ELSE Increment(s)[f]]

\* What a snapshot adds to a rebuilt row: it keeps no scores, no minutes and no
\* hour, so that these are guessed or left at zero.
Rebuilt(s) ==
    LET scored == s.avgOccupancy > 0 \/ s.crowded > 0
    IN  [f \in Counters |->
           CASE f \in PeakFields -> 0
             [] f = "scoreSum"   -> IF scored THEN s.avgOccupancy * s.vehicles ELSE 0
             [] f = "scored"     -> IF scored THEN s.vehicles ELSE 0
             [] f = "minutes"    -> IF s.disruptions > 0 THEN 5 ELSE 0
             [] OTHER            -> Increment(s)[f]]

WithSnapshot(row, snap, l) == IF l \in DOMAIN snap THEN AddRow(row, Rebuilt(snap[l])) ELSE row

RowOfSnapshots(snaps, l) ==
    LET upTo[n \in 0 .. Len(snaps)] == IF n = 0 THEN NoRow ELSE WithSnapshot(upTo[n - 1], snaps[n], l)
    IN  upTo[Len(snaps)]

RowFromSnapshots(d, l) == RowOfSnapshots(sampled[d], l)

\* backfillFromSnapshots: what cannot be rebuilt stays as it is in a row.
RebuildRows ==
    /\ \E d \in Period : sampled[d] # <<>>
    /\ rowOf' = [d \in Period |-> [l \in Badges |->
                   IF \E i \in DOMAIN sampled[d] : l \in DOMAIN sampled[d][i]
                   THEN [f \in Counters |-> IF f \in PeakFields THEN rowOf[d][l][f] ELSE RowFromSnapshots(d, l)[f]]
                   ELSE rowOf[d][l]]]
    /\ UNCHANGED <<sampled, alreadyCancelled, alreadySkipped>>

FiguresNext ==
    \/ \E d \in Period, in \in Inputs : TakeSample(d, in)
    \/ RebuildRows

FiguresSpec == FiguresInit /\ [][FiguresNext]_figureVars

-----------------------------------------------------------------------------
(* What is reported: a figure, or none while there is nothing to divide by. *)

Tenths(n, d) == IF d > 0 THEN {Rounded(1000 * n, d)} ELSE {}
Mean(n, d)   == IF d > 0 THEN {Rounded(n, d)} ELSE {}

\* mapDailyRow
MapDailyRow(row) ==
    [onTime        |-> Tenths(row["tracked"] - row["delayed"], row["tracked"]),
     peakOnTime    |-> Tenths(row["peakTracked"] - row["peakDelayed"], row["peakTracked"]),
     offPeakOnTime |-> Tenths(row["offPeakTracked"] - row["offPeakDelayed"], row["offPeakTracked"]),
     avgDelay      |-> Mean(row["delaySum"], row["tracked"]),
     p50           |-> Mean(row["p50Sum"], row["samples"]),
     p90           |-> Mean(row["p90Sum"], row["samples"]),
     occupancy     |-> Mean(row["scoreSum"], row["scored"]),
     reliability   |-> Tenths(IF row["tracked"] < row["scheduled"] THEN row["tracked"] ELSE row["scheduled"],
                              row["scheduled"])]

\* SUM of a column over the rows of some days and lines.
SumOf(days, lines, f) ==
    SumFunctionOnSet([p \in Period \X Badges |-> rowOf[p[1]][p[2]][f]], days \X lines)

\* networkPerformanceSummary, over the last days
NetworkSummary(days) ==
    LET onTime(lines) == LET n == SumOf(days, lines, "tracked")
                         IN  Tenths(n - SumOf(days, lines, "delayed"), n)
        perLine == UNION {onTime({l}) : l \in Badges}
    IN  [onTime |-> onTime(Badges), worst |-> IF perLine = {} THEN {} ELSE {Min(perLine)}]

\* aggregatePeriod, of one line
AggregatePeriod(l, days) ==
    LET n == SumOf(days, {l}, "tracked")
    IN  [onTime |-> Tenths(n - SumOf(days, {l}, "delayed"), n),
         avgDelay |-> Mean(SumOf(days, {l}, "delaySum"), n)]

\* compareLinePerformance: none when either period has none.
CompareLines(l, a, b) ==
    LET before == AggregatePeriod(l, a)
        after  == AggregatePeriod(l, b)
    IN  [onTime |-> {y - x : x \in before.onTime, y \in after.onTime},
         avgDelay |-> {y - x : x \in before.avgDelay, y \in after.avgDelay}]

-----------------------------------------------------------------------------
(* Properties. *)

\* A row that was added up sample by sample is what a backfill would make of the
\* day's snapshots, in every column that a snapshot can tell (persist's
\* upsert and backfillFromSnapshots repeat the formulas); and however often it
\* is rebuilt, its peak and off-peak halves add up to the whole.
RollupsAgree ==
    \A d \in Period, l \in Badges :
      /\ \A f \in Counters \ (PeakFields \cup Approximated) : rowOf[d][l][f] = RowFromSnapshots(d, l)[f]
      /\ rowOf[d][l]["peakTracked"] + rowOf[d][l]["offPeakTracked"] = rowOf[d][l]["tracked"]
      /\ rowOf[d][l]["peakDelayed"] + rowOf[d][l]["offPeakDelayed"] = rowOf[d][l]["delayed"]

\* However samples of trips that come and go, rebuilds and averages of rounded
\* averages follow each other: every percentage lies within 0 .. 100 and every
\* score within its scale, the averages do not pass the maximum, the
\* median not the 90th percentile, the network is not worse than its worst line, and
\* what improved from one day to the next did not get worse over the two.
MeasuresAreSound ==
    /\ \A d \in Period, l \in Badges :
         LET row == rowOf[d][l]
             day == MapDailyRow(row)
         IN  /\ row["early"] + row["delayed"] + row["cancelled"] <= row["tracked"]
             /\ day.onTime \cup day.peakOnTime \cup day.offPeakOnTime \cup day.reliability \subseteq 0 .. 1000
             /\ day.occupancy \subseteq 0 .. 4
             /\ \A x \in day.avgDelay \cup day.p90 : x <= row["max"]
             /\ \A x \in day.p50, y \in day.p90 : x <= y
    /\ \A days \in SUBSET Period :
         \A x \in NetworkSummary(days).onTime, y \in NetworkSummary(days).worst : y <= x
    /\ \A l \in Badges :
         \A x \in CompareLines(l, {1}, {2}).onTime, y \in CompareLines(l, {1}, Period).onTime :
           x > 0 => y >= 0
=============================================================================
