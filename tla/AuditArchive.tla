---------------------------- MODULE AuditArchive ----------------------------
(***************************************************************************)
(* Archiving and purging of audit events (audit.archive.service.ts,        *)
(* audit.storage.ts, the function audit_purge_verified_events).            *)
(*                                                                         *)
(* Every night the daily job archives the UTC day that has just ended:     *)
(* its events go into a data object, a manifest that names the manifest    *)
(* of the day before goes into a second object, both are read back, and    *)
(* the day's row in audit_archive becomes verified.  An hourly job tries   *)
(* the days again whose row is failed.  A Redis key with a TTL and no      *)
(* owner keeps the jobs apart.  Once a month the events of verified days   *)
(* older than the online retention are deleted.                            *)
(***************************************************************************)
EXTENDS Integers, FiniteSets

CONSTANTS
    Event,
    Worker,       \* runs of the two jobs that may go on at the same time
    Verifier,     \* administrators' verify requests going on at the same time
    Overrun,      \* whether a run may outlast the TTL of its lock
    MaxDay,       \* bound: days
    Retention,    \* days that events stay online (12 months)
    Keep,         \* days that objects are locked (7 years)
    RetryLimit,   \* failed days that one hourly run takes (3)
    PurgeLimit,   \* events that one purge deletes (10000)
    MaxFaults     \* bound: failing calls and crashes

ASSUME ArchiveAssumption ==
    /\ MaxDay \in Nat \ {0}
    /\ Retention \in Nat \ {0}
    /\ Keep \in Nat /\ Keep > Retention
    /\ {RetryLimit, PurgeLimit} \subseteq Nat \ {0}
    /\ Overrun \in BOOLEAN
    /\ MaxFaults \in Nat

VARIABLES
    today,
    due,       \* today's 02:15 is still to come
    occurred,  \* the day each event occurred, None before
    online,    \* the events in the table audit_event
    row,       \* audit_archive: the row of each day
    store,     \* the two objects of each day
    lock,      \* audit:archive:lock is set
    work,      \* the progress of each run
    check,     \* the progress of each verify request
    faults

vars == <<today, due, occurred, online, row, store, lock, work, check, faults>>

Day  == 1 .. MaxDay
None == 0

\* Manifests differ by their time of creation; bound: enough to be distinct.
Manifest == None .. 5 * MaxDay

Status == {"none", "pending", "failed", "verified"}
Row    == [status : Status, sum : SUBSET Event, man : Manifest, prev : Manifest]
NoRow  == [status |-> "none", sum |-> {}, man |-> None, prev |-> None]
Objects == [data : SUBSET Event, man : Manifest]

\* A run that is at pc with day d and has some days left.
RunOf(pc, d, left) == [pc |-> pc, day |-> d, todo |-> left,
                       snap |-> {}, man |-> None, prev |-> None]
NoWork == RunOf("idle", None, {})
Done   == RunOf("release", None, {})

WorkPc == {"idle", "list", "look", "create", "read", "prev", "data", "manifest",
           "readback", "update", "failed", "release"}
\* Inside archiveWindow's try block.
Caught == {"read", "prev", "data", "manifest", "readback", "update"}

Run   == [pc : WorkPc, day : Day \cup {None}, todo : SUBSET Day,
          snap : SUBSET Event, man : Manifest, prev : Manifest]
Check == [pc : {"idle", "objects", "confirm"}, day : Day, row : Row]

TypeOK ==
    /\ today \in Day /\ due \in BOOLEAN
    /\ occurred \in [Event -> Day \cup {None}]
    /\ online \in SUBSET Event
    /\ row \in [Day -> Row]
    /\ store \in [Day -> Objects]
    /\ lock \in BOOLEAN
    /\ work \in [Worker -> Run]
    /\ check \in [Verifier -> Check]
    /\ faults \in 0 .. MaxFaults

Init ==
    /\ today = 1 /\ due = FALSE
    /\ occurred = [e \in Event |-> None]
    /\ online = {}
    /\ row = [d \in Day |-> NoRow]
    /\ store = [d \in Day |-> [data |-> {}, man |-> None]]
    /\ lock = FALSE
    /\ work = [w \in Worker |-> NoWork]
    /\ check = [v \in Verifier |-> [pc |-> "idle", day |-> 1, row |-> NoRow]]
    /\ faults = 0

At(w, pc) == work[w].pc = pc
Goto(w, pc) == work' = [work EXCEPT ![w].pc = pc]
Window(w) == work[w].day
IsFirst(d, S) == d \in S /\ \A x \in S : d <= x
IsLast(d, S)  == d \in S /\ \A x \in S : x <= d

Of(d) == {e \in Event : occurred[e] = d}

-----------------------------------------------------------------------------
(* Time and events. *)

\* Some run works on day d, or the hourly job will.
Unsettled(d) ==
    \/ row[d].status = "failed"
    \/ \E w \in Worker : d = work[w].day \/ d \in work[w].todo

\* Midnight.  It is assumed that no day is still being archived when, a year
\* later, its events grow old enough to be purged.
NewDay ==
    /\ today < MaxDay
    /\ ~due
    /\ \A d \in Day : d + Retention = today => ~Unsettled(d)
    /\ today' = today + 1
    /\ due' = TRUE
    /\ UNCHANGED <<occurred, online, row, store, lock, work, check, faults>>

Record(e) ==
    /\ occurred[e] = None
    /\ occurred' = [occurred EXCEPT ![e] = today]
    /\ online' = online \cup {e}
    /\ UNCHANGED <<today, due, row, store, lock, work, check, faults>>

-----------------------------------------------------------------------------
(* The jobs. *)

\* archivePreviousUtcDay
DailyTick(w) ==
    /\ due /\ ~lock
    /\ At(w, "idle")
    /\ due' = FALSE
    /\ lock' = TRUE
    /\ work' = [work EXCEPT ![w] = RunOf("look", today - 1, {})]
    /\ UNCHANGED <<today, occurred, online, row, store, check, faults>>

\* The lock is taken: the job returns.
DailySkipped ==
    /\ due /\ lock
    /\ due' = FALSE
    /\ UNCHANGED <<today, occurred, online, row, store, lock, work, check, faults>>

\* retryFailedArchives
RetryTick(w) ==
    /\ ~lock
    /\ At(w, "idle")
    /\ lock' = TRUE
    /\ Goto(w, "list")
    /\ UNCHANGED <<today, due, occurred, online, row, store, check, faults>>

\* The run goes on with the oldest of the days left.
GoOn(w, left) ==
    \/ left = {} /\ work' = [work EXCEPT ![w] = Done]
    \/ \E d \in left : /\ IsFirst(d, left)
                       /\ work' = [work EXCEPT ![w] = RunOf("look", d, left \ {d})]

\* The RetryLimit oldest of the days in S.
Oldest(S) == {d \in S : Cardinality({x \in S : x < d}) < RetryLimit}

\* Mutant: the days still pending are tried again instead.
ListPending(w) ==
    /\ At(w, "list")
    /\ GoOn(w, Oldest({d \in Day : row[d].status = "pending"}))
    /\ UNCHANGED <<today, due, occurred, online, row, store, lock, check, faults>>

\* The failed days, the oldest first.
ListFailed(w) ==
    /\ At(w, "list")
    /\ GoOn(w, Oldest({d \in Day : row[d].status = "failed"}))
    /\ UNCHANGED <<today, due, occurred, online, row, store, lock, check, faults>>

\* The run is done with its day.
NextWindow(w) == GoOn(w, work[w].todo)

\* archiveWindow: a verified day is left alone.
Look(w) ==
    LET status == row[Window(w)].status IN
    /\ At(w, "look")
    /\ IF status = "verified" THEN NextWindow(w)
       ELSE Goto(w, IF status = "none" THEN "create" ELSE "read")
    /\ UNCHANGED <<today, due, occurred, online, row, store, lock, check, faults>>

\* The unique index refuses a second row for the day, outside the try block.
Create(w) ==
    LET d == Window(w) IN
    /\ At(w, "create")
    /\ IF row[d].status = "none"
       THEN /\ row' = [row EXCEPT ![d].status = "pending"]
            /\ Goto(w, "read")
       ELSE /\ work' = [work EXCEPT ![w] = Done]
            /\ UNCHANGED row
    /\ UNCHANGED <<today, due, occurred, online, store, lock, check, faults>>

\* Mutant: the window ends at the present time.
ReadRowsUntilNow(w) ==
    /\ At(w, "read")
    /\ work' = [work EXCEPT ![w].snap = {e \in online : occurred[e] >= Window(w)},
                            ![w].pc = "prev"]
    /\ UNCHANGED <<today, due, occurred, online, row, store, lock, check, faults>>

\* The rows of the window that are in the table.
ReadRows(w) ==
    /\ At(w, "read")
    /\ work' = [work EXCEPT ![w].snap = online \cap Of(Window(w)), ![w].pc = "prev"]
    /\ UNCHANGED <<today, due, occurred, online, row, store, lock, check, faults>>

\* The days before d that have a row, in whatever state.
Earlier(d) == {x \in 1 .. d - 1 : row[x].status # "none"}

Mentioned ==
    (UNION {{row[d].man, row[d].prev, store[d].man} : d \in Day})
      \cup (UNION {{work[w].man, work[w].prev} : w \in Worker})
      \cup {check[v].row.man : v \in Verifier} \cup {None}

\* A manifest is made that names the one with checksum prev.
MakeManifest(w, prev) ==
    \E m \in Manifest \ Mentioned :
        /\ IsFirst(m, Manifest \ Mentioned)
        /\ work' = [work EXCEPT ![w].prev = prev, ![w].man = m, ![w].pc = "data"]

\* The manifest checksum of the latest earlier row; then this manifest is made.
ReadPrevious(w) ==
    LET earlier == Earlier(Window(w)) IN
    /\ At(w, "prev")
    /\ \/ earlier = {} /\ MakeManifest(w, None)
       \/ \E d \in earlier : IsLast(d, earlier) /\ MakeManifest(w, row[d].man)
    /\ UNCHANGED <<today, due, occurred, online, row, store, lock, check, faults>>

\* putImmutable: the object under a key is the one that was put last.
PutData(w) ==
    /\ At(w, "data")
    /\ store' = [store EXCEPT ![Window(w)].data = work[w].snap]
    /\ Goto(w, "manifest")
    /\ UNCHANGED <<today, due, occurred, online, row, lock, check, faults>>

PutManifest(w) ==
    /\ At(w, "manifest")
    /\ store' = [store EXCEPT ![Window(w)].man = work[w].man]
    /\ Goto(w, "readback")
    /\ UNCHANGED <<today, due, occurred, online, row, lock, check, faults>>

\* What is read back must be what was put.
ReadBack(w) ==
    /\ At(w, "readback")
    /\ Goto(w, IF store[Window(w)] = [data |-> work[w].snap, man |-> work[w].man]
               THEN "update" ELSE "failed")
    /\ UNCHANGED <<today, due, occurred, online, row, store, lock, check, faults>>

Verified(w) == [status |-> "verified", sum |-> work[w].snap,
                man |-> work[w].man, prev |-> work[w].prev]

\* Mutant: the row keeps the checksums of the attempt before.
UpdateStatusOnly(w) ==
    /\ At(w, "update")
    /\ row' = [row EXCEPT ![Window(w)].status = "verified", ![Window(w)].sum = work[w].snap]
    /\ NextWindow(w)
    /\ UNCHANGED <<today, due, occurred, online, store, lock, check, faults>>

Update(w) ==
    /\ At(w, "update")
    /\ row' = [row EXCEPT ![Window(w)] = Verified(w)]
    /\ NextWindow(w)
    /\ UNCHANGED <<today, due, occurred, online, store, lock, check, faults>>

\* Mutant: the status written is one that nothing looks for.
MarkError(w) ==
    /\ At(w, "failed")
    /\ row' = [row EXCEPT ![Window(w)].status = "error"]
    /\ work' = [work EXCEPT ![w] = Done]
    /\ UNCHANGED <<today, due, occurred, online, store, lock, check, faults>>

\* The catch block; the error is thrown on and ends the run.
MarkFailed(w) ==
    /\ At(w, "failed")
    /\ row' = [row EXCEPT ![Window(w)].status = "failed"]
    /\ work' = [work EXCEPT ![w] = Done]
    /\ UNCHANGED <<today, due, occurred, online, store, lock, check, faults>>

\* releaseLock deletes the key, whoever set it.
Release(w) ==
    /\ At(w, "release")
    /\ lock' = FALSE
    /\ work' = [work EXCEPT ![w] = NoWork]
    /\ UNCHANGED <<today, due, occurred, online, row, store, check, faults>>

\* The TTL of the lock is over, with its run gone or, if it overruns, not.
ExpireLock ==
    /\ lock
    /\ Overrun \/ \A w \in Worker : At(w, "idle")
    /\ lock' = FALSE
    /\ UNCHANGED <<today, due, occurred, online, row, store, work, check, faults>>

-----------------------------------------------------------------------------
(* verify, by an administrator, without the lock. *)

VerifyRow(v, d) ==
    /\ check[v].pc = "idle"
    /\ row[d].status # "none"
    /\ check' = [check EXCEPT ![v] = [pc |-> "objects", day |-> d, row |-> row[d]]]
    /\ UNCHANGED <<today, due, occurred, online, row, store, lock, work, faults>>

VerifyObjects(v) ==
    LET c == check[v] IN
    /\ c.pc = "objects"
    /\ check' = [check EXCEPT ![v].pc =
                   IF c.row.man # None /\ store[c.day] = [data |-> c.row.sum, man |-> c.row.man]
                   THEN "confirm" ELSE "idle"]
    /\ UNCHANGED <<today, due, occurred, online, row, store, lock, work, faults>>

VerifyConfirm(v) ==
    /\ check[v].pc = "confirm"
    /\ row' = [row EXCEPT ![check[v].day].status = "verified"]
    /\ check' = [check EXCEPT ![v].pc = "idle"]
    /\ UNCHANGED <<today, due, occurred, online, store, lock, work, faults>>

-----------------------------------------------------------------------------
(* purgeExpiredOnlineEvents: one DELETE, the oldest events first. *)

\* Mutant: any day that has an archive row counts.
OldOfAnyRow ==
    {e \in online : /\ occurred[e] + Retention < today
                    /\ row[occurred[e]].status # "none"}

\* The events the function may delete.
Eligible ==
    {e \in online : /\ occurred[e] + Retention < today
                    /\ row[occurred[e]].status = "verified"
                    /\ today <= occurred[e] + Keep}

Purge ==
    LET oldest == {e \in Eligible : \A x \in Eligible : occurred[e] <= occurred[x]} IN
    /\ Eligible # {}
    /\ \E S \in SUBSET Eligible :
         /\ Cardinality(S) <= PurgeLimit
         /\ Cardinality(S) = PurgeLimit \/ S = Eligible
         /\ S \subseteq oldest \/ oldest \subseteq S
         /\ online' = online \ S
    /\ UNCHANGED <<today, due, occurred, row, store, lock, work, check, faults>>

-----------------------------------------------------------------------------
(* Failures. *)

Fault == faults < MaxFaults /\ faults' = faults + 1

\* A call inside the try block throws; it may have taken effect all the same.
Fail(w) ==
    LET d == Window(w) IN
    /\ work[w].pc \in Caught
    /\ Fault
    /\ Goto(w, "failed")
    /\ store' \in {store} \cup (IF At(w, "data") THEN {[store EXCEPT ![d].data = work[w].snap]}
                                ELSE {})
                          \cup (IF At(w, "manifest") THEN {[store EXCEPT ![d].man = work[w].man]}
                                ELSE {})
    /\ row' \in {row} \cup (IF At(w, "update") THEN {[row EXCEPT ![d] = Verified(w)]} ELSE {})
    /\ UNCHANGED <<today, due, occurred, online, lock, check>>

\* A call outside it throws: the run is over.
Abort(w) ==
    /\ work[w].pc \in {"list", "look", "create", "failed"}
    /\ Fault
    /\ work' = [work EXCEPT ![w] = Done]
    /\ UNCHANGED <<today, due, occurred, online, row, store, lock, check>>

\* The process dies; it may be down at 02:15.
Crash ==
    /\ Fault
    /\ work' = [w \in Worker |-> NoWork]
    /\ check' = [v \in Verifier |-> [check[v] EXCEPT !.pc = "idle"]]
    /\ due' \in {due, FALSE}
    /\ UNCHANGED <<today, occurred, online, row, store, lock>>

-----------------------------------------------------------------------------

Step(w) ==
    \/ ListFailed(w) \/ Look(w) \/ Create(w) \/ ReadRows(w) \/ ReadPrevious(w)
    \/ PutData(w) \/ PutManifest(w) \/ ReadBack(w) \/ Update(w)
    \/ MarkFailed(w) \/ Release(w)

Next ==
    \/ NewDay \/ DailySkipped \/ ExpireLock \/ Purge \/ Crash
    \/ \E e \in Event : Record(e)
    \/ \E w \in Worker : DailyTick(w) \/ RetryTick(w) \/ Step(w) \/ Fail(w) \/ Abort(w)
    \/ \E v \in Verifier : \/ VerifyObjects(v) \/ VerifyConfirm(v)
                           \/ \E d \in Day : VerifyRow(v, d)

Spec == Init /\ [][Next]_vars

\* The days go by and the crons fire, the hourly one whenever the lock is free
\* again; calls return or throw; keys expire.
FairSpec ==
    /\ Spec
    /\ WF_vars(NewDay)
    /\ WF_vars(ExpireLock)
    /\ WF_vars(DailySkipped \/ \E w \in Worker : DailyTick(w))
    /\ \A w \in Worker : WF_vars(Step(w)) /\ SF_vars(RetryTick(w))

-----------------------------------------------------------------------------
(* Properties. *)

\* An event is deleted only when the data object of its day holds it and the
\* row that says so is verified: it can be restored.
PurgedIsRestorable ==
    [][\A e \in online \ online' :
         /\ row[occurred[e]].status = "verified"
         /\ e \in store[occurred[e]].data]_vars

\* A verified row stands for the whole day: its checksum is that of all the
\* day's events, those purged since included.
VerifiedIsWhole ==
    \A d \in Day : row[d].status = "verified" => row[d].sum = Of(d)

\* A verified row describes the objects that a restore would find.
VerifiedMatchesObjects ==
    \A d \in Day : row[d].status = "verified" =>
        store[d] = [data |-> row[d].sum, man |-> row[d].man]

\* A failed day does not stay failed once the calls succeed again, whatever
\* crashed in between and whichever other days failed too.
FailedIsRetried == \A d \in Day : row[d].status = "failed" ~> row[d].status = "verified"

\* Every day that ends is archived some time.
EveryDayArchived == \A d \in Day : today > d ~> row[d].status = "verified"
=============================================================================
