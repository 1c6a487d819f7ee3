----------------------------- MODULE GtfsIngest -----------------------------
(***************************************************************************)
(* Static GTFS ingestion (gtfs-static.service.ts) together with the cached *)
(* catalogue pages it invalidates.                                         *)
(*                                                                         *)
(* One long-running process serves requests and runs ingest jobs.  A job   *)
(* walks a list of feeds; for each it asks TfNSW for the feed's version,   *)
(* finds or downloads the ZIP, stores the ZIP in S3 and in memory,         *)
(* replaces the feed's rows in a transaction, rebuilds the stop-route      *)
(* mapping, marks the run row and drops the cached pages.  While the       *)
(* transaction inserts, the service's only database handle, this.db, is    *)
(* swapped to the transaction: every statement that any request or other   *)
(* job issues through the service meanwhile goes where the handle points.  *)
(*                                                                         *)
(* A feed's rows are abstracted to three cells, each holding the version   *)
(* of the ZIP it was loaded from (None when there are no rows):            *)
(*   "base"  stops, routes, trips, calendars                               *)
(*   "times" stop_times                                                    *)
(*   "map"   the stop-route mapping                                        *)
(***************************************************************************)
EXTENDS Integers, Sequences, FiniteSets

CONSTANTS
    Feed,          \* the schedule feeds of the catalogue
    Catalog,       \* GTFS_SCHEDULE_FEEDS: the feeds, in ingestion order
    Job,           \* callers of ingestAll and ingestMode (cron, admin)
    Reader,        \* requests that may fill a cached page
    Conn,          \* connections of the pg pool
    Pool,          \* the handle the service is constructed with
    S3Enabled,     \* s3.isEnabled()
    ForceOptions,  \* the values of options.force the callers pass
    MaxVersion,    \* bound: how many versions TfNSW publishes of a feed
    MaxActive,     \* bound: how many jobs run at the same time
    MaxFaults      \* bound: failing statements and calls, crashes included

ASSUME BoundsAssumption ==
    /\ MaxVersion \in Nat \ {0}
    /\ MaxActive \in Nat \ {0}
    /\ MaxFaults \in Nat
    /\ S3Enabled \in BOOLEAN
    /\ ForceOptions \subseteq BOOLEAN
    /\ Catalog \in Seq(Feed) \ {<<>>}
    /\ Pool \notin Conn

VARIABLES
    remote,     \* the version TfNSW serves for each feed
    s3,         \* the version stored as latest.zip in S3
    local,      \* localZipCache: the version kept in memory
    committed,  \* what other database sessions see
    conn,       \* the pool's connections and their open transactions
    db,         \* this.db: Pool, or the connection of a transaction
    job,        \* the progress of each job
    page,       \* the version each feed's cached page was read from
    fill,       \* getOrSet factories between their query and their cache.set
    faults

vars == <<remote, s3, local, committed, conn, db, job, page, fill, faults>>

None   == 0
NoPage == -1
Part   == {"base", "times", "map"}
Cell   == Feed \X Part
Version == None .. MaxVersion
RowState == {"absent", "open", "success", "failed"}

PcIdle == {"idle"}
PcActive == {"open", "resolve", "download", "store", "begin", "delete", "base",
             "times", "restore", "commit", "mapping", "mark", "drop", "failed"}
\* Where an error is caught by ingestFeed's own try block.
PcCaught == PcActive \ {"open", "restore", "failed"}

-----------------------------------------------------------------------------
(* The database. *)

\* d's cells and rows written over b's; a delta is a partial function.
Over(d, b) == [x \in DOMAIN d \cup DOMAIN b |-> IF x \in DOMAIN d THEN d[x] ELSE b[x]]
Merge(d, b) == [data |-> Over(d.data, b.data), rows |-> Over(d.rows, b.rows)]

NoDelta == [data |-> <<>>, rows |-> <<>>]
Idle    == [open |-> FALSE, delta |-> NoDelta, saves |-> <<>>]

DataDelta(S, v)  == [data |-> [c \in S |-> v], rows |-> <<>>]
RowDelta(j, st)  == [data |-> <<>>, rows |-> [i \in {j} |-> st]]

\* Statements through a handle belong to a transaction only while one is open.
InTx(h) == h # Pool /\ conn[h].open

\* What a SELECT through handle h sees (READ COMMITTED).
View(h) == IF InTx(h) THEN Merge(conn[h].delta, committed) ELSE committed

\* One statement with effect d through handle h.
Execute(h, d) ==
    IF InTx(h)
    THEN /\ conn' = [conn EXCEPT ![h].delta = Merge(d, @)]
         /\ UNCHANGED committed
    ELSE /\ committed' = Merge(d, committed)
         /\ UNCHANGED conn

\* The feeds of which connection c holds row locks.
Locked(c) ==
    {f \in Feed : conn[c].open /\ \E p \in Part :
        /\ <<f, p>> \in DOMAIN conn[c].delta.data
        /\ \/ conn[c].delta.data[<<f, p>>] # None
           \/ committed.data[<<f, p>>] # None}

\* A write of f's rows through h does not wait for another transaction.
Writable(h, f) == \A c \in Conn \ {h} : f \notin Locked(c)

-----------------------------------------------------------------------------
(* Jobs. *)

NoJob == [pc |-> "idle", todo |-> <<>>, force |-> FALSE, zip |-> None,
          fromCache |-> FALSE, conn |-> Pool, level |-> 0, prev |-> Pool]

FeedOf(j) == Head(job[j].todo)
At(j, pc) == job[j].pc = pc
Active    == {j \in Job : ~At(j, "idle")}

Goto(j, pc) == job' = [job EXCEPT ![j].pc = pc]

\* The feed is finished: ingestAll and ingestMode go on with the next one.
NextFeed(j) ==
    job' = [job EXCEPT ![j] =
              IF Len(@.todo) <= 1 THEN NoJob
              ELSE [NoJob EXCEPT !.pc = "open", !.todo = Tail(job[j].todo),
                                 !.force = job[j].force]]

TypeOK ==
    /\ remote \in [Feed -> 1 .. MaxVersion]
    /\ s3 \in [Feed -> Version]
    /\ local \in [Feed -> Version]
    /\ committed.data \in [Cell -> Version]
    /\ committed.rows \in [Job -> RowState]
    /\ \A c \in Conn : conn[c].open \in BOOLEAN
    /\ db \in Conn \cup {Pool}
    /\ \A j \in Job :
         /\ job[j].pc \in PcIdle \cup PcActive
         /\ job[j].todo \in Seq(Feed)
         /\ job[j].force \in BOOLEAN
         /\ job[j].zip \in Version
         /\ job[j].fromCache \in BOOLEAN
         /\ {job[j].conn, job[j].prev} \subseteq Conn \cup {Pool}
    /\ page \in [Feed -> Version \cup {NoPage}]
    /\ fill \in [Reader -> [busy : BOOLEAN, feed : Feed, val : Version]]
    /\ faults \in 0 .. MaxFaults

Init ==
    /\ remote = [f \in Feed |-> 1]
    /\ s3 = [f \in Feed |-> None]
    /\ local = [f \in Feed |-> None]
    /\ committed = [data |-> [c \in Cell |-> None], rows |-> [j \in Job |-> "absent"]]
    /\ conn = [c \in Conn |-> Idle]
    /\ db = Pool
    /\ job = [j \in Job |-> NoJob]
    /\ page = [f \in Feed |-> NoPage]
    /\ fill = [r \in Reader |-> [busy |-> FALSE, feed |-> CHOOSE f \in Feed : TRUE,
                                 val |-> None]]
    /\ faults = 0

\* TfNSW publishes a new version of feed f.
Publish(f) ==
    /\ remote[f] < MaxVersion
    /\ remote' = [remote EXCEPT ![f] = @ + 1]
    /\ UNCHANGED <<s3, local, committed, conn, db, job, page, fill, faults>>

Start(j, feeds, force) ==
    /\ At(j, "idle")
    /\ Cardinality(Active) < MaxActive
    /\ job' = [job EXCEPT ![j] = [NoJob EXCEPT !.pc = "open", !.todo = feeds,
                                               !.force = force]]
    /\ UNCHANGED <<remote, s3, local, committed, conn, db, page, fill, faults>>

\* ingestAll: the nightly job (never forced) and the whole-catalogue request.
IngestAll(j, force) == Start(j, Catalog, force)

\* ingestMode with a feed key: that feed only.
IngestMode(j, f, force) == Start(j, <<f>>, force)

\* ingestFeed's first statement: insert the run row, outside its try block.
OpenRun(j) ==
    /\ At(j, "open")
    /\ Execute(db, RowDelta(j, "open"))
    /\ Goto(j, "resolve")
    /\ UNCHANGED <<remote, s3, local, db, page, fill, faults>>

\* resolveZipBuffer: the HEAD answer names a version that S3 or the process
\* already holds.
Matches(j, lastModified) ==
    /\ ~job[j].force
    /\ \/ S3Enabled /\ s3[FeedOf(j)] = lastModified
       \/ local[FeedOf(j)] = lastModified

\* Mutant: an unchanged Last-Modified skips the feed.
SkipUnchanged(j) ==
    /\ At(j, "resolve")
    /\ Matches(j, remote[FeedOf(j)])
    /\ NextFeed(j)
    /\ UNCHANGED <<remote, s3, local, committed, conn, db, page, fill, faults>>

\* The ZIP that S3 or the process holds is loaded again.
ReuseZip(j) ==
    /\ At(j, "resolve")
    /\ Matches(j, remote[FeedOf(j)])
    /\ job' = [job EXCEPT ![j].zip = remote[FeedOf(j)], ![j].fromCache = TRUE,
                          ![j].pc = "begin"]
    /\ UNCHANGED <<remote, s3, local, committed, conn, db, page, fill, faults>>

MustDownload(j) ==
    /\ At(j, "resolve")
    /\ ~Matches(j, remote[FeedOf(j)])
    /\ Goto(j, "download")
    /\ UNCHANGED <<remote, s3, local, committed, conn, db, page, fill, faults>>

\* The GET may return a newer version than the HEAD announced.
Download(j) ==
    /\ At(j, "download")
    /\ job' = [job EXCEPT ![j].zip = remote[FeedOf(j)], ![j].fromCache = FALSE,
                          ![j].pc = "store"]
    /\ UNCHANGED <<remote, s3, local, committed, conn, db, page, fill, faults>>

\* putGtfsZip, then localZipCache.set: both before the database is touched.
StoreZip(j) ==
    /\ At(j, "store")
    /\ s3' = IF S3Enabled THEN [s3 EXCEPT ![FeedOf(j)] = job[j].zip] ELSE s3
    /\ local' = [local EXCEPT ![FeedOf(j)] = job[j].zip]
    /\ Goto(j, "begin")
    /\ UNCHANGED <<remote, committed, conn, db, page, fill, faults>>

\* this.db.transaction(...): BEGIN on a pool connection, or a savepoint when
\* the handle is itself a transaction.
BeginTx(j) ==
    /\ At(j, "begin")
    /\ \/ /\ db = Pool
          /\ \E c \in Conn :
               /\ ~conn[c].open
               /\ conn' = [conn EXCEPT ![c] = [Idle EXCEPT !.open = TRUE]]
               /\ job' = [job EXCEPT ![j].pc = "delete", ![j].conn = c, ![j].level = 0]
       \/ /\ InTx(db)
          /\ conn' = [conn EXCEPT ![db].saves = Append(@, conn[db].delta)]
          /\ job' = [job EXCEPT ![j].pc = "delete", ![j].conn = db,
                                ![j].level = Len(conn[db].saves) + 1]
       \/ \* SAVEPOINT outside a transaction block is an error
          /\ db # Pool /\ ~InTx(db)
          /\ Goto(j, "failed")
          /\ UNCHANGED conn
    /\ UNCHANGED <<remote, s3, local, committed, db, page, fill, faults>>

\* Mutant: the rows are deleted on the pool, before the transaction's inserts.
DeleteRowsOnPool(j) ==
    /\ At(j, "delete")
    /\ Execute(Pool, DataDelta({FeedOf(j)} \X Part, None))
    /\ db' = job[j].conn
    /\ job' = [job EXCEPT ![j].prev = db, ![j].pc = "times"]
    /\ UNCHANGED <<remote, s3, local, page, fill, faults>>

\* replaceFeedData: delete the feed's rows on the transaction, then point the
\* service's handle at the transaction.
DeleteRows(j) ==
    LET c == job[j].conn IN
    /\ At(j, "delete")
    /\ Writable(c, FeedOf(j))
    /\ Execute(c, DataDelta({FeedOf(j)} \X Part, None))
    /\ db' = c
    /\ job' = [job EXCEPT ![j].prev = db, ![j].pc = "base"]
    /\ UNCHANGED <<remote, s3, local, page, fill, faults>>

\* ingestStops, ingestRoutes, ingestTrips, ingestCalendar, ingestCalendarDates.
InsertBase(j) ==
    /\ At(j, "base")
    /\ Writable(db, FeedOf(j))
    /\ Execute(db, DataDelta({<<FeedOf(j), "base">>}, job[j].zip))
    /\ Goto(j, "times")
    /\ UNCHANGED <<remote, s3, local, db, page, fill, faults>>

\* ingestStopTimes.
InsertTimes(j) ==
    /\ At(j, "times")
    /\ Writable(db, FeedOf(j))
    /\ Execute(db, DataDelta({<<FeedOf(j), "times">>}, job[j].zip))
    /\ Goto(j, "restore")
    /\ UNCHANGED <<remote, s3, local, db, page, fill, faults>>

\* The finally block puts the previous handle back.
RestoreHandle(j) ==
    /\ At(j, "restore")
    /\ db' = job[j].prev
    /\ Goto(j, "commit")
    /\ UNCHANGED <<remote, s3, local, committed, conn, page, fill, faults>>

\* The end of the transaction of job j: COMMIT, or RELEASE SAVEPOINT, which
\* fails when the enclosing transaction is gone.
CommitTx(j) ==
    LET c == job[j].conn IN
    /\ At(j, "commit")
    /\ \/ /\ job[j].level = 0
          /\ committed' = Merge(conn[c].delta, committed)
          /\ conn' = [conn EXCEPT ![c] = Idle]
          /\ Goto(j, "mapping")
       \/ /\ job[j].level > 0
          /\ conn[c].open /\ Len(conn[c].saves) >= job[j].level
          /\ conn' = [conn EXCEPT ![c].saves = SubSeq(@, 1, job[j].level - 1)]
          /\ Goto(j, "mapping")
          /\ UNCHANGED committed
       \/ /\ job[j].level > 0
          /\ ~(conn[c].open /\ Len(conn[c].saves) >= job[j].level)
          /\ Goto(j, "failed")
          /\ UNCHANGED <<committed, conn>>
    /\ UNCHANGED <<remote, s3, local, db, page, fill, faults>>

\* refreshStopRoutesMapping: delete and rebuild, after the transaction and
\* through whatever the handle is by then.
RefreshMapping(j) ==
    LET f == FeedOf(j) IN
    /\ At(j, "mapping")
    /\ Writable(db, f)
    /\ Execute(db, DataDelta({<<f, "map">>}, View(db).data[<<f, "times">>]))
    /\ Goto(j, "mark")
    /\ UNCHANGED <<remote, s3, local, db, page, fill, faults>>

\* An UPDATE of the run row changes nothing when the row is not visible.
UpdateRow(j, st) ==
    IF View(db).rows[j] = "absent" THEN UNCHANGED <<committed, conn>>
                                   ELSE Execute(db, RowDelta(j, st))

\* The run row becomes success; with the ZIP taken from a cache there is
\* nothing more to do.
MarkSuccess(j) ==
    /\ At(j, "mark")
    /\ UpdateRow(j, "success")
    /\ IF job[j].fromCache THEN NextFeed(j) ELSE Goto(j, "drop")
    /\ UNCHANGED <<remote, s3, local, db, page, fill, faults>>

\* delByPrefix on the four page prefixes: the pages of every feed.
DropPages(j) ==
    /\ At(j, "drop")
    /\ page' = [f \in Feed |-> NoPage]
    /\ NextFeed(j)
    /\ UNCHANGED <<remote, s3, local, committed, conn, db, fill, faults>>

\* ingestFeed's catch block, and the next feed.
MarkFailed(j) ==
    /\ At(j, "failed")
    /\ UpdateRow(j, "failed")
    /\ NextFeed(j)
    /\ UNCHANGED <<remote, s3, local, db, page, fill, faults>>

-----------------------------------------------------------------------------
(* Failures. *)

\* Mutant: a failed replacement leaves its savepoint or transaction open.
RollbackNestedOnly(j) ==
    LET c == job[j].conn
        n == job[j].level IN
    conn' = IF n > 0 /\ conn[c].open /\ Len(conn[c].saves) >= n
            THEN [conn EXCEPT ![c].delta = conn[c].saves[n]] ELSE conn

\* ROLLBACK, or ROLLBACK TO SAVEPOINT, of job j's transaction.
Rollback(j) ==
    LET c == job[j].conn
        n == job[j].level IN
    conn' = IF n = 0 THEN [conn EXCEPT ![c] = Idle]
            ELSE IF conn[c].open /\ Len(conn[c].saves) >= n
                 THEN [conn EXCEPT ![c].delta = conn[c].saves[n],
                                   ![c].saves = SubSeq(@, 1, n - 1)]
                 ELSE conn

\* Mutant: the handle is put back after the inserts instead of in a finally.
FailWithoutRestore(j) ==
    /\ job[j].pc \in PcCaught
    /\ faults < MaxFaults
    /\ faults' = faults + 1
    /\ IF job[j].pc \in {"delete", "base", "times", "commit"}
       THEN Rollback(j) ELSE UNCHANGED conn
    /\ job' = [job EXCEPT ![j].pc = "failed"]
    /\ UNCHANGED <<remote, s3, local, committed, db, page, fill>>

\* A call or statement of ingestFeed throws: the finally block restores the
\* handle, the transaction is rolled back, and the catch block is next.
Fail(j) ==
    /\ job[j].pc \in PcCaught
    /\ faults < MaxFaults
    /\ faults' = faults + 1
    /\ db' = IF job[j].pc \in {"base", "times"} THEN job[j].prev ELSE db
    /\ IF job[j].pc \in {"delete", "base", "times", "commit"}
       THEN Rollback(j) ELSE UNCHANGED conn
    \* the last put may have reached S3 although the call failed
    /\ s3' \in IF At(j, "store") /\ S3Enabled
               THEN {s3, [s3 EXCEPT ![FeedOf(j)] = job[j].zip]} ELSE {s3}
    /\ job' = [job EXCEPT ![j].pc = "failed"]
    /\ UNCHANGED <<remote, local, committed, page, fill>>

\* The insert of the run row, or the update in the catch block, throws:
\* nothing catches it before the caller, and the remaining feeds are skipped.
Abort(j) ==
    /\ job[j].pc \in {"open", "failed"}
    /\ faults < MaxFaults
    /\ faults' = faults + 1
    /\ job' = [job EXCEPT ![j] = NoJob]
    /\ UNCHANGED <<remote, s3, local, committed, conn, db, page, fill>>

\* The process dies and starts again: memory is lost, transactions are
\* rolled back, S3, the database and Redis keep what they had.
Crash ==
    /\ faults < MaxFaults
    /\ faults' = faults + 1
    /\ local' = [f \in Feed |-> None]
    /\ conn' = [c \in Conn |-> Idle]
    /\ db' = Pool
    /\ job' = [j \in Job |-> NoJob]
    /\ fill' = [r \in Reader |-> [fill[r] EXCEPT !.busy = FALSE]]
    /\ UNCHANGED <<remote, s3, committed, page>>

-----------------------------------------------------------------------------
(* Readers of the cached catalogue pages (getRoutes, getStops, ...). *)

\* A page is not cached and no fetch of it is in flight: the factory queries
\* the database through the service's handle.
FillRead(r, f) ==
    /\ ~fill[r].busy
    /\ page[f] = NoPage
    /\ \A q \in Reader : ~(fill[q].busy /\ fill[q].feed = f)
    /\ fill' = [fill EXCEPT ![r] = [busy |-> TRUE, feed |-> f,
                                    val |-> View(db).data[<<f, "base">>]]]
    /\ UNCHANGED <<remote, s3, local, committed, conn, db, job, page, faults>>

\* ... and its result is cached for CacheTTL.GTFS_STATIC.
FillStore(r) ==
    /\ fill[r].busy
    /\ page' = [page EXCEPT ![fill[r].feed] = fill[r].val]
    /\ fill' = [fill EXCEPT ![r].busy = FALSE]
    /\ UNCHANGED <<remote, s3, local, committed, conn, db, job, faults>>

\* Mutant: pages are cached without a TTL.
ExpireNever(f) == FALSE /\ UNCHANGED <<vars, f>>

\* The day is over for a cached page.
Expire(f) ==
    /\ page[f] # NoPage
    /\ page' = [page EXCEPT ![f] = NoPage]
    /\ UNCHANGED <<remote, s3, local, committed, conn, db, job, fill, faults>>

-----------------------------------------------------------------------------

Step(j) ==
    \/ OpenRun(j) \/ ReuseZip(j) \/ MustDownload(j) \/ Download(j)
    \/ StoreZip(j) \/ BeginTx(j) \/ DeleteRows(j) \/ InsertBase(j)
    \/ InsertTimes(j) \/ RestoreHandle(j) \/ CommitTx(j) \/ RefreshMapping(j)
    \/ MarkSuccess(j) \/ DropPages(j) \/ MarkFailed(j)

Nightly == \E j \in Job : IngestAll(j, FALSE)

Next ==
    \/ \E f \in Feed : Publish(f) \/ Expire(f)
    \/ \E j \in Job, force \in ForceOptions :
          IngestAll(j, force) \/ \E f \in Feed : IngestMode(j, f, force)
    \/ \E j \in Job : Step(j) \/ Fail(j) \/ Abort(j)
    \/ \E r \in Reader : FillStore(r) \/ \E f \in Feed : FillRead(r, f)
    \/ Crash

Spec == Init /\ [][Next]_vars

\* The event loop runs every ready continuation; the cron fires every night
\* whatever else was requested; Redis expires keys.
Fairness ==
    /\ \A j \in Job : WF_vars(Step(j))
    /\ SF_vars(Nightly)
    /\ \A r \in Reader : WF_vars(FillStore(r))
    /\ \A f \in Feed : WF_vars(Expire(f))

FairSpec == Spec /\ Fairness

-----------------------------------------------------------------------------
(* Properties. *)

\* What other sessions see of a feed is one whole version: its stops, routes
\* and trips are never committed without the stop times of the same ZIP,
\* whatever fails or crashes during replaceFeedData.
CommittedWhole ==
    \A f \in Feed : committed.data[<<f, "base">>] = committed.data[<<f, "times">>]

\* The swap of this.db is temporary: with no job running the service is back
\* on the pool.
HandleAtRest == Active = {} => db = Pool

\* However jobs overlap and fail, a transaction that is open belongs to a job
\* that will end it: no pool connection is left inside a transaction.
NoOrphanTx ==
    \A c \in Conn : conn[c].open =>
        \E j \in Job : /\ job[j].conn = c /\ job[j].level = 0
                       /\ job[j].pc \in {"delete", "base", "times", "restore", "commit"}

\* A run that took its ZIP from S3 or from memory, and will therefore be
\* recorded as skippedUnchanged and drop no page, commits no other version of
\* the feed than the one already there.
CachedZipMeansUnchanged ==
    [][\A j \in Job : At(j, "commit") /\ job'[j].pc = "mapping" /\ job[j].fromCache
         => committed'.data[<<FeedOf(j), "base">>]
              = committed.data[<<FeedOf(j), "base">>]]_vars

\* A page that shows another version than the database: filled from a
\* replacement under way, or read before it and stored after.
Stale(f) == page[f] \notin {NoPage, committed.data[<<f, "base">>]}

\* However a page became stale, it does not stay so.
StalePageLeaves == \A f \in Feed : Stale(f) ~> ~Stale(f)

\* Once TfNSW publishes no more, the nightly job brings every feed to the
\* published version for good, and its stop-route mapping again and again,
\* whatever failed or crashed before: a failed replacement is repaired although
\* its ZIP is already in the caches.
Converges ==
    \A f \in Feed :
        /\ <>[](\A p \in {"base", "times"} : committed.data[<<f, p>>] = remote[f])
        /\ []<>(committed.data[<<f, "map">>] = remote[f])
=============================================================================
