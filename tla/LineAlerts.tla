----------------------------- MODULE LineAlerts -----------------------------
(***************************************************************************)
(* The health of the lines as riders see it: the scan that runs every five *)
(* minutes, two minutes after the sampler (push/commute-alert.service.ts), *)
(* and the table of alerts it keeps (history/line-health-alerts.service).  *)
(*                                                                         *)
(* A scan reads the latest snapshot of every line, opens or refreshes the  *)
(* alert of each degraded line, pushes one notification a line and         *)
(* cooldown, and resolves the alerts of the other lines.  Nothing locks:   *)
(* the cron job does not wait for a scan that is still busy, and every     *)
(* replica scans.                                                          *)
(*                                                                         *)
(* Time passes in ticks of five minutes.  An alert keeps the ticks until   *)
(* it expires, a cooldown those until it is over.                          *)
(***************************************************************************)
EXTENDS Integers, FiniteSets, FiniteSetsExt

CONSTANTS
    Line,         \* RAIL_LINES, the others are never looked at
    Scan,         \* evaluations that may be busy at one time
    Replica,      \* server processes
    Owner,        \* the process of each scan
    Snapshot,     \* what the latest snapshot of a line may say
    AlertTtl,     \* ALERT_TTL_MS, in ticks
    Cooldown,     \* COOLDOWN_MS, in ticks
    MaxAlertFaults \* bound: failures, crashes, overlaps and manual resolutions

ASSUME AlertAssumption ==
    /\ IsFiniteSet(Replica) /\ IsFiniteSet(Scan) /\ Owner \in [Scan -> Replica]
    /\ AlertTtl \in Nat \ {0} /\ Cooldown \in Nat \ {0} /\ MaxAlertFaults \in Nat

VARIABLES
    latest,     \* the latest snapshot of each line
    open,       \* the rows of line_health_alerts that are not resolved
    cooling,    \* lastAlertAt of each process, as the ticks left to wait
    scan,       \* the progress of each scan
    due,        \* processes whose cron job is about to fire
    quiet,      \* it is between 22:00 and 5:00 in Sydney
    pushed,     \* pushes of each process for each line within its cooldown
    mishaps

alertVars == <<latest, open, cooling, scan, due, quiet, pushed, mishaps>>

-----------------------------------------------------------------------------
(* What a snapshot says of its line. *)

MinTracked == 5
NoSnapshot == [tracked |-> 0, delayed |-> 0, cancelled |-> 0, disruptions |-> 0]

Widespread(s)    == 10 * s.delayed >= 3 * s.tracked
Disrupted(s)     == s.disruptions > 0 /\ 20 * s.delayed > 3 * s.tracked
Cancellations(s) == s.cancelled >= 3

Degraded(s) ==
    /\ s.tracked >= MinTracked
    /\ Widespread(s) \/ Disrupted(s) \/ Cancellations(s)

Severity(s) == IF Cancellations(s) THEN "cancellations"
               ELSE IF Disrupted(s) THEN "disruption" ELSE "delays"

-----------------------------------------------------------------------------
Resting == [pc |-> "idle", read |-> [l \in Line |-> NoSnapshot], todo |-> {},
            at |-> CHOOSE l \in Line : TRUE, found |-> 0]

OpenOf(l)  == {a \in open : a.line = l}
Shown(l)   == \E a \in OpenOf(l) : a.left > 0        \* activeByLine()
BusyScan   == {s \in Scan : scan[s].pc # "idle"}
Mishap     == mishaps < MaxAlertFaults /\ mishaps' = mishaps + 1
\* The next id of the table, numbered anew once nobody refers to the number.
NewId ==
    LET used == {a.id : a \in open} \cup {scan[s].found : s \in Scan}
    IN  CHOOSE n \in 1 .. Cardinality(used) + 1 : n \notin used
EndScan(s) == scan' = [scan EXCEPT ![s] = Resting]

AlertTypeOK ==
    /\ latest \in [Line -> Snapshot \cup {NoSnapshot}]
    /\ \A a \in open : a.line \in Line /\ a.left \in 0 .. AlertTtl /\ a.id \in Nat
    /\ cooling \in [Replica -> [Line -> 0 .. Cooldown]]
    /\ \A s \in Scan : scan[s].todo \subseteq Line /\ scan[s].at \in Line
    /\ due \subseteq Replica /\ quiet \in BOOLEAN
    /\ mishaps \in 0 .. MaxAlertFaults

AlertInit ==
    /\ latest = [l \in Line |-> NoSnapshot] /\ open = {}
    /\ cooling = [p \in Replica |-> [l \in Line |-> 0]]
    /\ scan = [s \in Scan |-> Resting] /\ due = {} /\ quiet \in BOOLEAN
    /\ pushed = [p \in Replica |-> [l \in Line |-> 0]] /\ mishaps = 0

\* The sampler committed a new snapshot of the line.
Sampled(l, snap) ==
    /\ latest[l] # snap
    /\ latest' = [latest EXCEPT ![l] = snap]
    /\ UNCHANGED <<open, cooling, scan, due, quiet, pushed, mishaps>>

\* Five minutes pass.  A scan that is still busy then overlaps the next one.
FiveMinutes ==
    /\ due = {}
    /\ IF BusyScan = {} THEN UNCHANGED mishaps ELSE Mishap
    /\ due' = Replica
    /\ open' = {[a EXCEPT !.left = Max({@ - 1, 0})] : a \in open}
    /\ cooling' = [p \in Replica |-> [l \in Line |-> Max({cooling[p][l] - 1, 0})]]
    /\ pushed' = [p \in Replica |-> [l \in Line |->
                    IF cooling'[p][l] = 0 THEN 0 ELSE pushed[p][l]]]
    /\ quiet' \in BOOLEAN
    /\ UNCHANGED <<latest, scan>>

\* The cron job fires: evaluate() reads the snapshots, and the active alerts,
\* which it does not use.
Evaluate(s) ==
    /\ scan[s].pc = "idle" /\ Owner[s] \in due
    /\ scan' = [scan EXCEPT ![s] = [Resting EXCEPT
                  !.pc = "lines", !.read = latest,
                  !.todo = {l \in Line : Degraded(latest[l])}]]
    /\ due' = due \ {Owner[s]}
    /\ UNCHANGED <<latest, open, cooling, quiet, pushed, mishaps>>

\* ... or fails to, and waits for the next round.
EvaluateFails(p) ==
    /\ p \in due /\ Mishap /\ due' = due \ {p}
    /\ UNCHANGED <<latest, open, cooling, scan, quiet, pushed>>

\* upsertActive, its SELECT ... LIMIT 1: any open row of the line, or none.
SelectOpen(s, l) ==
    /\ scan[s].pc = "lines" /\ l \in scan[s].todo
    /\ \E id \in IF OpenOf(l) = {} THEN {0} ELSE {a.id : a \in OpenOf(l)} :
         scan' = [scan EXCEPT ![s].pc = "upsert", ![s].at = l, ![s].found = id,
                              ![s].todo = @ \ {l}]
    /\ UNCHANGED <<latest, open, cooling, due, quiet, pushed, mishaps>>

\* Mutant: every scan inserts.
UpsertInsert(s) ==
    LET l == scan[s].at
    IN  /\ scan[s].pc = "upsert"
        /\ open' = open \cup {[id |-> NewId, line |-> l, left |-> AlertTtl,
                               severity |-> Severity(scan[s].read[l])]}
        /\ scan' = [scan EXCEPT ![s].pc = "push"]
        /\ UNCHANGED <<latest, cooling, due, quiet, pushed, mishaps>>

\* Mutant: a row found open is not refreshed.
UpsertNew(s) ==
    LET l == scan[s].at
    IN  /\ scan[s].pc = "upsert"
        /\ open' = IF scan[s].found = 0
                   THEN open \cup {[id |-> NewId, line |-> l, left |-> AlertTtl,
                                    severity |-> Severity(scan[s].read[l])]}
                   ELSE open
        /\ scan' = [scan EXCEPT ![s].pc = "push"]
        /\ UNCHANGED <<latest, cooling, due, quiet, pushed, mishaps>>

\* ... and its UPDATE by id or its INSERT.  A row resolved since it was found
\* is updated without effect on what is open: resolvedAt stays set.
Upsert(s) ==
    LET l   == scan[s].at
        sev == Severity(scan[s].read[l])
    IN  /\ scan[s].pc = "upsert"
        /\ open' = IF scan[s].found = 0
                   THEN open \cup {[id |-> NewId, line |-> l, left |-> AlertTtl, severity |-> sev]}
                   ELSE {IF a.id = scan[s].found /\ a.line = l
                         THEN [a EXCEPT !.severity = sev, !.left = AlertTtl] ELSE a : a \in open}
        /\ scan' = [scan EXCEPT ![s].pc = "push"]
        /\ UNCHANGED <<latest, cooling, due, quiet, pushed, mishaps>>

\* Mutant: the cooldown is set and never looked at.
PushEveryTime(s) ==
    LET p == Owner[s]
        l == scan[s].at
    IN  /\ scan[s].pc = "push"
        /\ pushed' = [pushed EXCEPT ![p][l] = @ + 1]
        /\ cooling' = [cooling EXCEPT ![p][l] = Cooldown]
        /\ scan' = [scan EXCEPT ![s].pc = "lines"]
        /\ UNCHANGED <<latest, open, due, quiet, mishaps>>

\* sendToLine, unless the night or the line's cooldown forbids it; its errors
\* are logged and swallowed.
PushLine(s) ==
    LET p == Owner[s]
        l == scan[s].at
        may == ~quiet /\ cooling[p][l] = 0
    IN  /\ scan[s].pc = "push"
        /\ pushed' = [pushed EXCEPT ![p][l] = IF may THEN @ + 1 ELSE @]
        /\ cooling' = [cooling EXCEPT ![p][l] = IF may THEN Cooldown ELSE @]
        /\ scan' = [scan EXCEPT ![s].pc = "lines"]
        /\ UNCHANGED <<latest, open, due, quiet, mishaps>>

\* resolveStale: the lines this scan did not find degraded.
ResolveCleared(s) ==
    /\ scan[s].pc = "lines" /\ scan[s].todo = {}
    /\ open' = {a \in open : Degraded(scan[s].read[a.line])}
    /\ scan' = [scan EXCEPT ![s].pc = "expire"]
    /\ UNCHANGED <<latest, cooling, due, quiet, pushed, mishaps>>

\* ... and the rows past their expiry, whatever their line.
ResolveExpired(s) ==
    /\ scan[s].pc = "expire"
    /\ open' = {a \in open : a.left > 0}
    /\ EndScan(s)
    /\ UNCHANGED <<latest, cooling, due, quiet, pushed, mishaps>>

\* A statement of the scan fails: upsertActive ends the scan before it
\* resolves anything, resolveStale catches its own errors.
ScanFails(s) ==
    /\ scan[s].pc \in {"lines", "upsert", "expire"} /\ Mishap /\ EndScan(s)
    /\ UNCHANGED <<latest, open, cooling, due, quiet, pushed>>

\* resolveManually, by an administrator.
ResolveManually(l) ==
    /\ OpenOf(l) # {} /\ Mishap
    /\ open' = open \ OpenOf(l)
    /\ UNCHANGED <<latest, cooling, scan, due, quiet, pushed>>

\* A process restarts: its scans are gone and so are its cooldowns.
RestartReplica(p) ==
    /\ Mishap
    /\ scan' = [s \in Scan |-> IF Owner[s] = p THEN Resting ELSE scan[s]]
    /\ cooling' = [cooling EXCEPT ![p] = [l \in Line |-> 0]]
    /\ due' = due \ {p}
    /\ UNCHANGED <<latest, open, quiet, pushed>>

ScanStep(s) ==
    \/ Evaluate(s)
    \/ \E l \in Line : SelectOpen(s, l)
    \/ Upsert(s) \/ PushLine(s) \/ ResolveCleared(s) \/ ResolveExpired(s)

AlertNext ==
    \/ \E l \in Line, snap \in Snapshot : Sampled(l, snap)
    \/ FiveMinutes
    \/ \E s \in Scan : ScanStep(s) \/ ScanFails(s)
    \/ \E p \in Replica : EvaluateFails(p) \/ RestartReplica(p)
    \/ \E l \in Line : ResolveManually(l)

AlertSpec == AlertInit /\ [][AlertNext]_alertVars

\* The scheduler fires every five minutes and what it starts goes on.
AlertFairness ==
    /\ WF_alertVars(FiveMinutes)
    /\ \A s \in Scan : WF_alertVars(ScanStep(s))

-----------------------------------------------------------------------------
(* Properties. *)

\* A line has more than one open alert only if scans overlapped: one for each
\* replica that scans at the same time, and as many again for each time that
\* scans outlast their five minutes (upsertActive selects and then inserts,
\* without a unique index).
FewOpenAlerts ==
    \A l \in Line : Cardinality(OpenOf(l)) <= Cardinality(Replica) * (1 + mishaps)

\* A process pushes a line's notification at most once within a cooldown, or
\* once more for each restart that made it forget (lastAlertAt is kept in memory).
OnePushPerCooldown == \A p \in Replica, l \in Line : pushed[p][l] <= 1 + mishaps

\* Once a line is no longer degraded, riders are in the end not shown an alert
\* for it any more, and while it stays degraded its alert is in the end always
\* shown, although scans fail and overlap, alerts expire and administrators
\* resolve them (upsertActive, resolveStale, activeByLine).
AlertFollowsLine ==
    \A l \in Line :
      /\ <>[]~Degraded(latest[l]) => <>[]~Shown(l)
      /\ <>[]Degraded(latest[l]) => <>[]Shown(l)
=============================================================================
