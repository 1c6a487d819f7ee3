--------------------------- MODULE HistorySampler ---------------------------
(***************************************************************************)
(* The history of the network (src/history): the five-minute sampler, the  *)
(* daily rollups it adds to, the rebuild of the rollups from the retained  *)
(* snapshots, and the administrator's purge.                               *)
(*                                                                         *)
(* A trip that is cancelled, or skips a stop, stays in the realtime feed   *)
(* for hours and is to be counted once a day.  The sampler keeps the trips *)
(* it has counted in two Redis keys per Sydney day: it reads them, counts  *)
(* what is new, commits the snapshot and the daily row in one transaction, *)
(* and then writes the two keys back.                                      *)
(*                                                                         *)
(* One (mode, line) stands for all: the rows of different lines are        *)
(* independent.  A snapshot keeps the instant it was captured and the      *)
(* trips it counted; a daily row its number of samples and of trips        *)
(* counted, every other counter going the same way as one of these.        *)
(* A Sydney day has three slots: its first hour, the time until UTC        *)
(* midnight (10:00, or 11:00 in summer), and the rest.                     *)
(***************************************************************************)
EXTENDS Integers, FiniteSets, FiniteSetsExt, Functions

CONSTANTS
    Cancelled,    \* trips that may be cancelled
    Skipped,      \* trips that may skip a stop
    Sampler,      \* runs of sample(), on this replica or another
    Days,         \* bound: the Sydney days 0 .. Days-1
    Retention,    \* SNAPSHOT_RETENTION_DAYS, in slots
    MaxSamples,   \* bound: snapshots taken
    MaxAdmin,     \* bound: backfills and purges
    MaxFaults     \* bound: failures, crashes, flushes and overlapping runs

ASSUME SamplerAssumption ==
    /\ IsFiniteSet(Cancelled) /\ IsFiniteSet(Skipped)
    /\ Cancelled \cap Skipped = {}
    /\ Days \in Nat \ {0} /\ Retention \in Nat
    /\ MaxSamples \in Nat /\ MaxAdmin \in Nat /\ MaxFaults \in Nat

VARIABLES
    now,        \* the current slot
    summer,     \* 1 while Sydney is at UTC+11, 0 while it is at UTC+10
    lock,       \* history:sampler:lock is set
    noted,      \* per day, the trips in history:dedup:cancelled / skipped
    run,        \* the progress of each run
    snapshots,  \* network_snapshots
    daily,      \* line_performance_daily
    rebuild,    \* a backfill between its SELECT and its last upsert
    taken,      \* how many snapshots were ever committed
    counted,    \* per day and trip, how many committed snapshots counted it
    admin,      \* backfills and purges so far
    faults

samplerVars == <<now, summer, lock, noted, run, snapshots, daily, rebuild,
                 taken, counted, admin, faults>>

clock  == <<now, summer>>
redis  == <<lock, noted>>
tables == <<snapshots, daily>>
ghosts == <<taken, counted>>

Incident == Cancelled \cup Skipped
Day      == 0 .. Days - 1
Slot     == 0 .. 3 * Days - 1
DayOf(t) == t \div 3
EmptyRow == [samples |-> 0, incidents |-> 0]

NotRunning == [pc |-> "idle", at |-> 0, known |-> {}, new |-> {}]
Running    == {r \in Sampler : run[r].pc # "idle"}
Goto(r, pc) == run' = [run EXCEPT ![r].pc = pc]
Done(r)     == run' = [run EXCEPT ![r] = NotRunning]

NoRebuild == [todo |-> {}, rows |-> [d \in Day |-> EmptyRow], read |-> {}, window |-> FALSE]

SamplerTypeOK ==
    /\ now \in Slot /\ summer \in {0, 1} /\ lock \in BOOLEAN
    /\ noted \in [Day -> SUBSET Incident]
    /\ \A r \in Sampler :
         /\ run[r].pc \in {"idle", "collect", "known", "persist", "noteC", "noteS"}
         /\ run[r].at \in Slot
         /\ run[r].known \subseteq Incident /\ run[r].new \subseteq Incident
    /\ \A s \in snapshots : s.at \in Slot /\ s.new \subseteq Incident
    /\ daily \in [Day -> [samples : Nat, incidents : Nat]]
    /\ rebuild.todo \subseteq Day
    /\ taken \in 0 .. MaxSamples /\ admin \in 0 .. MaxAdmin
    /\ counted \in [Day -> [Incident -> Nat]]
    /\ faults \in 0 .. MaxFaults

SamplerInit ==
    /\ now \in Slot /\ summer \in {0, 1} /\ lock = FALSE
    /\ noted = [d \in Day |-> {}]
    /\ run = [r \in Sampler |-> NotRunning]
    /\ snapshots = {} /\ daily = [d \in Day |-> EmptyRow]
    /\ rebuild = NoRebuild /\ taken = 0 /\ admin = 0
    /\ counted = [d \in Day |-> [i \in Incident |-> 0]]
    /\ faults = 0

Fault == faults < MaxFaults /\ faults' = faults + 1
Admin == admin < MaxAdmin /\ admin' = admin + 1

-----------------------------------------------------------------------------
(* sample() *)

\* The cron job fires and takes the lock, which nobody releases: it expires.
\* Starting while an earlier run is still busy is one of the faults.
Tick(r) ==
    /\ run[r].pc = "idle" /\ ~lock /\ taken < MaxSamples
    /\ lock' = TRUE
    /\ run' = [run EXCEPT ![r] = [NotRunning EXCEPT !.pc = "collect", !.at = now]]
    /\ IF Running = {} THEN UNCHANGED faults ELSE Fault
    /\ UNCHANGED <<clock, noted, tables, rebuild, ghosts, admin>>

\* SAMPLER_LOCK_TTL_SECONDS, less than the interval of the cron job.
LockExpires ==
    /\ lock /\ lock' = FALSE
    /\ UNCHANGED <<clock, noted, run, tables, rebuild, ghosts, admin, faults>>

KeyOf(kind) == IF kind = "known" THEN Skipped ELSE Cancelled

\* Mutant: what the feed shows is noted before it is counted.
ReadAndNote(r, feed) ==
    LET Kind == KeyOf(run[r].pc)
        seen == noted[DayOf(run[r].at)] \cap Kind
    IN  /\ run[r].pc \in {"collect", "known"} /\ feed \subseteq Kind
        /\ run' = [run EXCEPT ![r].known = @ \cup seen,
                              ![r].new = @ \cup (feed \ seen),
                              ![r].pc = IF @ = "collect" THEN "known" ELSE "persist"]
        /\ noted' = [noted EXCEPT ![DayOf(run[r].at)] = @ \cup feed]
        /\ UNCHANGED <<clock, lock, tables, rebuild, ghosts, admin, faults>>

\* The two sets of the day are read, cancelled first; feed is what the
\* trip-update feed reports of the kind.
ReadNoted(r, feed) ==
    LET Kind == KeyOf(run[r].pc)
        seen == noted[DayOf(run[r].at)] \cap Kind
    IN  /\ run[r].pc \in {"collect", "known"} /\ feed \subseteq Kind
        /\ run' = [run EXCEPT ![r].known = @ \cup seen,
                              ![r].new = @ \cup (feed \ seen),
                              ![r].pc = IF @ = "collect" THEN "known" ELSE "persist"]
        /\ UNCHANGED <<clock, redis, tables, rebuild, ghosts, admin, faults>>

\* A stale feed, or one without any line, is not written.
SkipSample(r) ==
    /\ run[r].pc = "persist" /\ Done(r)
    /\ UNCHANGED <<clock, redis, tables, rebuild, ghosts, admin, faults>>

Recent(S) == {s \in S : s.at + Retention >= now}

AddTo(row, n) == [samples |-> row.samples + 1, incidents |-> row.incidents + n]

\* The transaction of persist(); answered is FALSE when it commits and the
\* answer is lost, which the catch block takes for a failure.
Commit(r, answered) ==
    LET d == DayOf(run[r].at)
    IN  /\ snapshots' = Recent(snapshots \cup
                          {[id |-> taken + 1, at |-> run[r].at, new |-> run[r].new]})
        /\ daily' = [daily EXCEPT ![d] = AddTo(@, Cardinality(run[r].new))]
        /\ counted' = [counted EXCEPT ![d] =
                         [i \in Incident |-> IF i \in run[r].new THEN @[i] + 1 ELSE @[i]]]
        /\ taken' = taken + 1
        /\ IF answered THEN Goto(r, "noteC") ELSE Done(r)

Persist(r) ==
    /\ run[r].pc = "persist" /\ taken < MaxSamples
    /\ \/ Commit(r, TRUE) /\ UNCHANGED faults
       \/ Commit(r, FALSE) /\ Fault
    /\ UNCHANGED <<clock, redis, rebuild, admin>>

\* Mutant: both writes go to the key of the cancelled trips.
NoteOneKey(r) ==
    LET Kind == Cancelled
        d == DayOf(run[r].at)
    IN  /\ run[r].pc \in {"noteC", "noteS"}
        /\ noted' = [noted EXCEPT ![d] =
              IF run[r].new \cap Kind = {} THEN @
              ELSE (@ \ Kind) \cup ((run[r].known \cup run[r].new) \cap Kind)]
        /\ IF run[r].pc = "noteC" THEN Goto(r, "noteS") ELSE Done(r)
        /\ UNCHANGED <<clock, lock, tables, rebuild, ghosts, admin, faults>>

\* The day's set of one kind is written back, extended by what is new; with
\* nothing new it is left alone.
Note(r) ==
    LET Kind == IF run[r].pc = "noteC" THEN Cancelled ELSE Skipped
        d == DayOf(run[r].at)
    IN  /\ run[r].pc \in {"noteC", "noteS"}
        /\ noted' = [noted EXCEPT ![d] =
              IF run[r].new \cap Kind = {} THEN @
              ELSE (@ \ Kind) \cup ((run[r].known \cup run[r].new) \cap Kind)]
        /\ IF run[r].pc = "noteC" THEN Goto(r, "noteS") ELSE Done(r)
        /\ UNCHANGED <<clock, lock, tables, rebuild, ghosts, admin, faults>>

\* A feed, a cache call or the transaction fails: the catch block.
SampleFails(r) ==
    /\ run[r].pc \in {"collect", "known", "persist", "noteC", "noteS"}
    /\ Fault /\ Done(r)
    /\ UNCHANGED <<clock, redis, tables, rebuild, ghosts, admin>>

\* The process of the run dies.
SamplerCrash(r) ==
    /\ run[r].pc # "idle" /\ Fault /\ Done(r)
    /\ UNCHANGED <<clock, redis, tables, rebuild, ghosts, admin>>

-----------------------------------------------------------------------------
(* The cache and the clock. *)

\* DEDUP_TTL_SECONDS, 26 hours after the last note of the day; no sample of
\* that day is still running two hours after its end.
NotesExpire(d) ==
    /\ DayOf(now) > d /\ noted[d] # {}
    /\ \A r \in Running : run[r].at > 3 * d + 2
    /\ noted' = [noted EXCEPT ![d] = {}]
    /\ UNCHANGED <<clock, lock, run, tables, rebuild, ghosts, admin, faults>>

\* The administrator flushes the cache: every key but the audit stream.
FlushCache ==
    /\ Fault
    /\ lock' = FALSE /\ noted' = [d \in Day |-> {}]
    /\ UNCHANGED <<clock, run, tables, rebuild, ghosts, admin>>

Pass ==
    /\ now + 1 \in Slot /\ now' = now + 1
    /\ UNCHANGED <<summer, redis, run, tables, rebuild, ghosts, admin, faults>>

-----------------------------------------------------------------------------
(* backfillFromSnapshots: days from .. to at a fixed offset of +10:00. *)

\* Mutant: the window lacks the last part of its last day.
WindowWithoutEvening(from, to) == {t \in Slot : 3 * from + summer <= t /\ t < 3 * to + 2 + summer}

Window(from, to) == {t \in Slot : 3 * from + summer <= t /\ t < 3 * (to + 1) + summer}

SnapsOf(S, d)  == {s \in S : DayOf(s.at) = d}
Rollup(S)      == [samples   |-> Cardinality(S),
                   incidents |-> FoldSet(LAMBDA s, n : n + Cardinality(s.new), 0, S)]

\* The snapshots of the window, or all of them, are read and grouped by
\* Sydney day.
BackfillRead(window, from, to) ==
    LET S == {s \in snapshots : ~window \/ s.at \in Window(from, to)}
    IN  /\ rebuild.todo = {} /\ from <= to /\ S # {} /\ Admin
        /\ rebuild' = [todo |-> {DayOf(s.at) : s \in S},
                       rows |-> [d \in Day |-> Rollup(SnapsOf(S, d))],
                       read |-> snapshots, window |-> window]
        /\ UNCHANGED <<clock, redis, run, tables, ghosts, faults>>

\* One statement per day and line: the row is overwritten.
BackfillUpsert(d) ==
    /\ d \in rebuild.todo
    /\ daily' = [daily EXCEPT ![d] = rebuild.rows[d]]
    /\ rebuild' = IF rebuild.todo = {d} THEN NoRebuild ELSE [rebuild EXCEPT !.todo = @ \ {d}]
    /\ UNCHANGED <<clock, redis, run, snapshots, ghosts, admin, faults>>

\* A statement fails, or the process dies: the remaining days stay.
BackfillFails ==
    /\ rebuild.todo # {} /\ Fault /\ rebuild' = NoRebuild
    /\ UNCHANGED <<clock, redis, run, tables, ghosts, admin>>

-----------------------------------------------------------------------------
(* purgeHistory: one transaction; the dates bound the days of the rollups  *)
(* in Sydney time, and the snapshots at their UTC midnights.               *)
Purge(from, to) ==
    /\ from <= to /\ Admin
    /\ snapshots' = {s \in snapshots : ~(3 * from + 2 <= s.at /\ s.at < 3 * to + 2)}
    /\ daily' = [d \in Day |-> IF d \in from .. to THEN EmptyRow ELSE daily[d]]
    /\ UNCHANGED <<clock, redis, run, rebuild, ghosts, faults>>

\* confirmFullWipe without dates.
PurgeAll ==
    /\ Admin
    /\ snapshots' = {} /\ daily' = [d \in Day |-> EmptyRow]
    /\ UNCHANGED <<clock, redis, run, rebuild, ghosts, faults>>

SampleStep(r) ==
    \/ Tick(r)
    \/ \E feed \in (SUBSET Cancelled) \cup (SUBSET Skipped) : ReadNoted(r, feed)
    \/ SkipSample(r) \/ Persist(r) \/ Note(r) \/ SampleFails(r)
    \/ SamplerCrash(r)

SamplerNext ==
    \/ \E r \in Sampler : SampleStep(r)
    \/ LockExpires \/ FlushCache \/ Pass
    \/ \E d \in Day : NotesExpire(d)
    \/ \E window \in BOOLEAN, from, to \in Day : BackfillRead(window, from, to)
    \/ \E d \in Day : BackfillUpsert(d)
    \/ BackfillFails
    \/ \E from, to \in Day : Purge(from, to)
    \/ PurgeAll

SamplerSpec == SamplerInit /\ [][SamplerNext]_samplerVars

-----------------------------------------------------------------------------
(* Properties. *)

\* However runs overlap, fail, crash, and whatever is flushed: a trip is
\* counted at most once a day more than there were such faults (sampler.sample:
\* the notes are written after the transaction, and read before it).
CountedOnce == \A d \in Day, i \in Incident : counted[d][i] <= 1 + faults

\* A trip noted for a day was counted that day: no failure, lost answer or
\* overlap makes the sampler skip a cancellation it never stored.
NotedIsCounted == \A d \in Day : \A i \in noted[d] : counted[d][i] > 0

\* A rebuild of a day whose snapshots did not change since they were read makes
\* its rollup exactly their sum, whatever the row was before; except that in
\* summer a window given in dates is shifted by an hour.
RebuildRestores ==
    [][\A d \in Day :
         /\ BackfillUpsert(d)
         /\ SnapsOf(rebuild.read, d) = SnapsOf(snapshots, d)
         /\ rebuild.window => summer = 0
         => daily'[d] = Rollup(SnapsOf(snapshots, d))]_samplerVars
=============================================================================
