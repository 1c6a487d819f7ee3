-------------------------- MODULE GtfsIngestProofs --------------------------
(***************************************************************************)
(* For any feeds, jobs and connections: no connection is left inside a     *)
(* transaction, however jobs overlap; and as long as jobs do not overlap,  *)
(* what others see of a feed is one whole version, and the service's       *)
(* handle goes back to the pool.                                           *)
(***************************************************************************)
EXTENDS MCGtfsIngest, SequenceTheorems, FiniteSetTheorems, TLAPS

-----------------------------------------------------------------------------
(* The shapes of the state. *)

TxPc    == {"delete", "base", "times", "restore", "commit"}
Swapped == {"base", "times", "restore"}
Handle  == Conn \cup {Pool}

Partial(S, V) == UNION {[T -> V] : T \in SUBSET S}

Delta     == [data : Partial(Cell, Version), rows : Partial(Job, RowState)]
Tables    == [data : [Cell -> Version], rows : [Job -> RowState]]
ConnState == [open : BOOLEAN, delta : Delta, saves : Seq(Delta)]
JobState  == [pc : PcIdle \cup PcActive, todo : Seq(Feed), force : BOOLEAN, zip : Version,
              fromCache : BOOLEAN, conn : Handle, level : Nat, prev : Handle]

StoresOK ==
    /\ remote \in [Feed -> 1 .. MaxVersion]
    /\ s3 \in [Feed -> Version] /\ local \in [Feed -> Version]

DatabaseOK ==
    /\ committed \in Tables /\ conn \in [Conn -> ConnState] /\ db \in Handle

\* A busy job has feeds to do, and inside its transaction it has a connection.
WellFormed(k) ==
    /\ k \in JobState
    /\ k.pc # "idle" => k.todo # <<>>
    /\ k.pc \in TxPc => k.conn \in Conn

JobsOK == job \in [Job -> JobState] /\ \A j \in Job : WellFormed(job[j])

PagesOK ==
    /\ page \in [Feed -> Version \cup {NoPage}]
    /\ fill \in [Reader -> [busy : BOOLEAN, feed : Feed, val : Version]]
    /\ faults \in 0 .. MaxFaults

Shapes == StoresOK /\ DatabaseOK /\ JobsOK /\ PagesOK

IngestInv == Shapes /\ NoOrphanTx

-----------------------------------------------------------------------------
(* Jobs that do not overlap. *)

OneJob == \A i, j \in Job : job[i].pc # "idle" /\ job[j].pc # "idle" => i = j

\* Of every feed but those of S, the data has both or neither of base and times,
\* of one version.
WholeBut(S, data) ==
    \A f \in Feed \ S :
      /\ <<f, "base">> \in DOMAIN data <=> <<f, "times">> \in DOMAIN data
      /\ <<f, "base">> \in DOMAIN data => data[<<f, "base">>] = data[<<f, "times">>]

\* The handle points at the transaction of the job that inserts, which is no
\* savepoint, and else at the pool.
HandleOK ==
    /\ (\A j \in Job : job[j].pc \notin Swapped) => db = Pool
    /\ \A j \in Job :
         /\ job[j].pc \in Swapped => db = job[j].conn /\ job[j].prev = Pool
         /\ job[j].pc \in TxPc => job[j].level = 0 /\ conn[job[j].conn].open

\* What a transaction would commit is whole, but between its two inserts.
DeltaOK ==
    \A j \in Job : job[j].pc \in TxPc =>
      LET data == conn[job[j].conn].delta.data
          f    == FeedOf(j)
      IN  /\ WholeBut(IF job[j].pc = "times" THEN {f} ELSE {}, data)
          /\ job[j].pc = "times" =>
               <<f, "base">> \in DOMAIN data /\ data[<<f, "base">>] = job[j].zip

SerialInv == IngestInv /\ OneJob /\ HandleOK /\ DeltaOK /\ CommittedWhole

-----------------------------------------------------------------------------
(* Partial functions and deltas. *)

LEMMA PartialFacts ==
    ASSUME NEW S, NEW V, NEW f
    PROVE  f \in Partial(S, V) <=>
             f = [x \in DOMAIN f |-> f[x]] /\ DOMAIN f \subseteq S /\ \A x \in DOMAIN f : f[x] \in V
  BY DEF Partial

LEMMA OverPartial ==
    ASSUME NEW S, NEW V, NEW d \in Partial(S, V), NEW b \in Partial(S, V)
    PROVE  Over(d, b) \in Partial(S, V)
  <1>1. DOMAIN d \subseteq S /\ DOMAIN b \subseteq S
    BY PartialFacts
  <1>2. \A x \in DOMAIN d \cup DOMAIN b : (IF x \in DOMAIN d THEN d[x] ELSE b[x]) \in V
    BY PartialFacts
  <1>3. Over(d, b) \in [DOMAIN d \cup DOMAIN b -> V]
    BY <1>2 DEF Over
  <1> QED BY <1>1, <1>3 DEF Partial

LEMMA OverTotal ==
    ASSUME NEW S, NEW V, NEW d \in Partial(S, V), NEW b \in [S -> V]
    PROVE  Over(d, b) \in [S -> V]
  <1>1. DOMAIN d \cup DOMAIN b = S
    BY PartialFacts
  <1>2. \A x \in S : (IF x \in DOMAIN d THEN d[x] ELSE b[x]) \in V
    BY PartialFacts
  <1> QED BY <1>1, <1>2 DEF Over

LEMMA OverAt ==
    ASSUME NEW d, NEW b, NEW x
    PROVE  /\ DOMAIN Over(d, b) = DOMAIN d \cup DOMAIN b
           /\ x \in DOMAIN d => Over(d, b)[x] = d[x]
           /\ x \in DOMAIN b \ DOMAIN d => Over(d, b)[x] = b[x]
  BY DEF Over

LEMMA MergeDelta ==
    ASSUME NEW d \in Delta, NEW b \in Delta
    PROVE  Merge(d, b) \in Delta
  BY OverPartial DEF Merge, Delta

LEMMA MergeTables ==
    ASSUME NEW d \in Delta, NEW b \in Tables
    PROVE  Merge(d, b) \in Tables
  BY OverTotal DEF Merge, Delta, Tables

LEMMA NoDeltaType == NoDelta \in Delta /\ NoDelta.data = <<>> /\ Idle \in ConnState
  <1>1. ASSUME NEW S, NEW V PROVE <<>> \in Partial(S, V)
    <2>1. <<>> \in [{} -> V]
      OBVIOUS
    <2> QED BY <2>1 DEF Partial
  <1>2. NoDelta \in Delta /\ NoDelta.data = <<>>
    BY <1>1 DEF NoDelta, Delta
  <1>3. <<>> \in Seq(Delta)
    OBVIOUS
  <1> QED BY <1>2, <1>3 DEF Idle, ConnState

LEMMA DataDeltaType ==
    ASSUME NEW S \in SUBSET Cell, NEW v \in Version
    PROVE  DataDelta(S, v) \in Delta
  <1>1. [c \in S |-> v] \in Partial(Cell, Version)
    BY DEF Partial
  <1>2. <<>> \in Partial(Job, RowState)
    BY NoDeltaType DEF NoDelta, Delta
  <1> QED BY <1>1, <1>2 DEF DataDelta, Delta

LEMMA RowDeltaType ==
    ASSUME NEW j \in Job, NEW st \in RowState
    PROVE  RowDelta(j, st) \in Delta
  <1>1. [i \in {j} |-> st] \in Partial(Job, RowState)
    <2>1. {j} \in SUBSET Job /\ [i \in {j} |-> st] \in [{j} -> RowState]
      OBVIOUS
    <2> QED BY <2>1 DEF Partial
  <1>2. <<>> \in Partial(Cell, Version)
    BY NoDeltaType DEF NoDelta, Delta
  <1> QED BY <1>1, <1>2 DEF RowDelta, Delta

LEMMA ConstantFacts ==
    /\ None \in Version /\ 1 .. MaxVersion \subseteq Version
    /\ Catalog \in Seq(Feed) /\ Catalog # <<>> /\ Feed # {} /\ Pool \notin Conn
    /\ NoJob \in JobState /\ NoJob.pc = "idle"
  <1>1. Catalog \in Seq(Feed) /\ Catalog # <<>> /\ Pool \notin Conn /\ MaxVersion \in Nat
    BY BoundsAssumption
  <1>2. Catalog[1] \in Feed
    BY <1>1
  <1>3. None \in Version /\ 1 .. MaxVersion \subseteq Version
    BY <1>1 DEF None, Version
  <1>4. <<>> \in Seq(Feed)
    OBVIOUS
  <1>5. NoJob \in JobState /\ NoJob.pc = "idle"
    BY <1>3, <1>4 DEF NoJob, JobState, PcIdle, Handle
  <1> QED BY <1>1, <1>2, <1>3, <1>5

-----------------------------------------------------------------------------
(* What one statement, one job and one rollback may change. *)

LEMMA ExecuteKeeps ==
    ASSUME DatabaseOK, NEW h \in Handle, NEW d \in Delta, Execute(h, d)
    PROVE  /\ committed' \in Tables /\ conn' \in [Conn -> ConnState]
           /\ \A c \in Conn : conn'[c].open = conn[c].open
  <1>1. CASE InTx(h)
    <2>1. h \in Conn /\ conn[h] \in ConnState
      BY <1>1 DEF DatabaseOK, InTx, Handle
    <2>2. Merge(d, conn[h].delta) \in Delta
      BY <2>1, MergeDelta DEF ConnState
    <2>3. conn' = [conn EXCEPT ![h] = [conn[h] EXCEPT !.delta = Merge(d, conn[h].delta)]]
             /\ committed' = committed
      BY <1>1 DEF Execute
    <2>4. [conn[h] EXCEPT !.delta = Merge(d, conn[h].delta)] \in ConnState
      BY <2>1, <2>2 DEF ConnState
    <2> QED BY <2>1, <2>3, <2>4 DEF DatabaseOK
  <1>2. CASE ~InTx(h)
    BY <1>2, MergeTables DEF Execute, DatabaseOK
  <1> QED BY <1>1, <1>2

LEMMA ViewType ==
    ASSUME DatabaseOK, NEW h \in Handle
    PROVE  View(h) \in Tables
  BY MergeTables DEF View, DatabaseOK, InTx, Handle, ConnState

\* One job goes on.
LEMMA JobKeeps ==
    ASSUME JobsOK, NEW j \in Job, NEW new, job' = [job EXCEPT ![j] = new], WellFormed(new)
    PROVE  JobsOK' /\ job'[j] = new /\ \A i \in Job : i # j => job'[i] = job[i]
  BY DEF JobsOK, WellFormed

LEMMA GotoKeeps ==
    ASSUME JobsOK, NEW j \in Job, NEW pc \in PcIdle \cup PcActive, Goto(j, pc),
           job[j].pc # "idle", pc \in TxPc => job[j].conn \in Conn
    PROVE  /\ JobsOK' /\ job'[j] = [job[j] EXCEPT !.pc = pc]
           /\ \A i \in Job : i # j => job'[i] = job[i]
  <1> DEFINE new == [job[j] EXCEPT !.pc = pc]
  <1>1. job' = [job EXCEPT ![j] = new]
    BY DEF Goto
  <1>2. /\ new \in JobState /\ new.pc = pc
        /\ new.todo = job[j].todo /\ new.conn = job[j].conn /\ new.level = job[j].level
    BY DEF JobsOK, JobState
  <1>3. job[j].todo # <<>>
    BY DEF JobsOK, WellFormed
  <1> HIDE DEF new
  <1>4. WellFormed(new)
    BY <1>2, <1>3 DEF WellFormed
  <1> QED BY <1>1, <1>4, JobKeeps DEF new

LEMMA NextFeedKeeps ==
    ASSUME JobsOK, NEW j \in Job, NextFeed(j), job[j].pc # "idle"
    PROVE  /\ JobsOK' /\ job'[j].pc \in {"idle", "open"}
           /\ \A i \in Job : i # j => job'[i] = job[i]
  <1> DEFINE tail == Tail(job[j].todo)
             next == [NoJob EXCEPT !.pc = "open", !.todo = tail, !.force = job[j].force]
             new  == IF Len(job[j].todo) <= 1 THEN NoJob ELSE next
  <1>1. job' = [job EXCEPT ![j] = new]
    BY DEF NextFeed
  <1>2. job[j].todo \in Seq(Feed) /\ job[j].todo # <<>> /\ job[j].force \in BOOLEAN
    BY DEF JobsOK, WellFormed, JobState
  <1>3. Len(job[j].todo) > 1 => tail \in Seq(Feed) /\ tail # <<>>
    BY <1>2
  <1> HIDE DEF tail
  <1>4. Len(job[j].todo) > 1 => next \in JobState /\ next.pc = "open" /\ next.todo = tail
    BY <1>2, <1>3, ConstantFacts DEF JobState, NoJob, PcActive
  <1>5. WellFormed(NoJob)
    BY ConstantFacts DEF WellFormed, TxPc
  <1>6. Len(job[j].todo) > 1 => WellFormed(next)
    BY <1>3, <1>4 DEF WellFormed, TxPc
  <1> HIDE DEF next
  <1>7. WellFormed(new) /\ new.pc \in {"idle", "open"}
    BY <1>2, <1>4, <1>5, <1>6, ConstantFacts
  <1> HIDE DEF new
  <1> QED BY <1>1, <1>7, JobKeeps

LEMMA FeedOfType == ASSUME JobsOK, NEW j \in Job, job[j].pc # "idle" PROVE FeedOf(j) \in Feed
  <1>1. job[j].todo \in Seq(Feed) /\ job[j].todo # <<>>
    BY DEF JobsOK, WellFormed, JobState
  <1> QED BY <1>1 DEF FeedOf

\* A transaction stays with its job until the job leaves it and closes it.
LEMMA OwnerKept ==
    ASSUME NoOrphanTx, NEW j \in Job, \A i \in Job : i # j => job'[i] = job[i],
           \A c \in Conn : conn'[c].open => conn[c].open,
           job[j].pc \in TxPc /\ job[j].level = 0 =>
             \/ job'[j].pc \in TxPc /\ job'[j].conn = job[j].conn /\ job'[j].level = 0
             \/ job[j].conn \in Conn => ~conn'[job[j].conn].open
    PROVE  NoOrphanTx'
  <1> SUFFICES ASSUME NEW c \in Conn, conn'[c].open
               PROVE  \E i \in Job : job'[i].conn = c /\ job'[i].level = 0 /\ job'[i].pc \in TxPc
    BY DEF NoOrphanTx, TxPc
  <1>1. PICK i \in Job : job[i].conn = c /\ job[i].level = 0 /\ job[i].pc \in TxPc
    BY DEF NoOrphanTx, TxPc
  <1> QED BY <1>1

-----------------------------------------------------------------------------
(* IngestInv is inductive. *)

LEMMA InitIngest == Init => IngestInv
  <1> SUFFICES ASSUME Init PROVE IngestInv
    OBVIOUS
  <1>1. StoresOK
    <2>1. 1 \in 1 .. MaxVersion
      BY BoundsAssumption
    <2> QED BY <2>1, ConstantFacts DEF Init, StoresOK
  <1>2. DatabaseOK
    <2>1. committed \in Tables
      BY ConstantFacts DEF Init, Tables, RowState
    <2> QED BY <2>1, NoDeltaType DEF Init, DatabaseOK, Handle
  <1>3. JobsOK
    BY ConstantFacts DEF Init, JobsOK, WellFormed, TxPc
  <1>4. PagesOK
    <2>1. (CHOOSE f \in Feed : TRUE) \in Feed /\ 0 \in 0 .. MaxFaults
      BY ConstantFacts, BoundsAssumption
    <2> QED BY <2>1, ConstantFacts DEF Init, PagesOK
  <1>5. NoOrphanTx
    BY DEF Init, NoOrphanTx, Idle
  <1> QED BY <1>1, <1>2, <1>3, <1>4, <1>5 DEF IngestInv, Shapes

\* A job goes on without the database, outside its transaction or after its inserts.
LEMMA OnwardPreserves ==
    ASSUME IngestInv, NEW j \in Job, job[j].pc # "idle", UNCHANGED <<committed, conn>>, db' \in Handle,
           JobsOK', \A i \in Job : i # j => job'[i] = job[i], StoresOK', PagesOK',
           job[j].pc \in TxPc =>
             job'[j].pc \in TxPc /\ job'[j].conn = job[j].conn /\ job'[j].level = job[j].level
    PROVE  IngestInv'
  <1>1. NoOrphanTx'
    BY OwnerKept DEF IngestInv
  <1> QED BY <1>1 DEF IngestInv, Shapes, DatabaseOK

\* A statement of a job.
LEMMA StatementPreserves ==
    ASSUME IngestInv, NEW j \in Job, job[j].pc # "idle", NEW h \in Handle, NEW d \in Delta,
           Execute(h, d), db' \in Handle, JobsOK', \A i \in Job : i # j => job'[i] = job[i],
           UNCHANGED <<remote, s3, local, page, fill, faults>>,
           job[j].pc \in TxPc =>
             job'[j].pc \in TxPc /\ job'[j].conn = job[j].conn /\ job'[j].level = job[j].level
    PROVE  IngestInv'
  <1>1. /\ committed' \in Tables /\ conn' \in [Conn -> ConnState]
        /\ \A c \in Conn : conn'[c].open = conn[c].open
    BY ExecuteKeeps DEF IngestInv, Shapes
  <1>2. NoOrphanTx'
    BY <1>1, OwnerKept DEF IngestInv
  <1> QED BY <1>1, <1>2 DEF IngestInv, Shapes, DatabaseOK, StoresOK, PagesOK

LEMMA UpdateRowPreserves ==
    ASSUME IngestInv, NEW j \in Job, job[j].pc \in {"mark", "failed"}, NEW st \in RowState,
           UpdateRow(j, st), UNCHANGED db, JobsOK', \A i \in Job : i # j => job'[i] = job[i],
           UNCHANGED <<remote, s3, local, page, fill, faults>>
    PROVE  IngestInv'
  <1>1. RowDelta(j, st) \in Delta /\ db \in Handle
    BY RowDeltaType DEF IngestInv, Shapes, DatabaseOK
  <1>2. CASE UNCHANGED <<committed, conn>>
    BY <1>1, <1>2, OnwardPreserves DEF TxPc, IngestInv, Shapes, StoresOK, PagesOK
  <1>3. CASE Execute(db, RowDelta(j, st))
    BY <1>1, <1>3, StatementPreserves DEF TxPc
  <1> QED BY <1>2, <1>3 DEF UpdateRow

LEMMA ZipPreserves ==
    ASSUME IngestInv, NEW j \in Job,
           ReuseZip(j) \/ MustDownload(j) \/ Download(j) \/ StoreZip(j) \/ RestoreHandle(j)
    PROVE  IngestInv'
  <1>1. JobsOK /\ job[j] \in JobState
    BY DEF IngestInv, Shapes, JobsOK
  <1>2. job[j].pc # "idle" => FeedOf(j) \in Feed
    BY <1>1, FeedOfType
  <1>3. PcActive \subseteq PcIdle \cup PcActive
    OBVIOUS
  <1>4. CASE ReuseZip(j) \/ Download(j)
    <2> DEFINE z    == remote[FeedOf(j)]
               pc   == IF At(j, "resolve") THEN "begin" ELSE "store"
               new  == [job[j] EXCEPT !.zip = z, !.fromCache = At(j, "resolve"), !.pc = pc]
    <2>1. /\ At(j, "resolve") \/ At(j, "download")
          /\ UNCHANGED <<remote, s3, local, committed, conn, db, page, fill, faults>>
          /\ job' = [job EXCEPT ![j] = new]
      BY <1>4 DEF ReuseZip, Download, At
    <2>2. z \in Version
      BY <1>2, <2>1, ConstantFacts DEF IngestInv, Shapes, StoresOK, At
    <2>3. pc \in {"begin", "store"} /\ At(j, "resolve") \in BOOLEAN
      BY DEF At
    <2> HIDE DEF z, pc
    <2>4. new \in JobState /\ new.pc = pc /\ new.todo = job[j].todo
      BY <1>1, <2>2, <2>3 DEF JobState, PcActive
    <2>5. WellFormed(new)
      BY <1>1, <2>1, <2>3, <2>4 DEF WellFormed, JobsOK, TxPc, At
    <2> HIDE DEF new
    <2>6. JobsOK' /\ \A i \in Job : i # j => job'[i] = job[i]
      BY <1>1, <2>1, <2>5, JobKeeps
    <2> QED BY <2>1, <2>6, OnwardPreserves
            DEF At, TxPc, IngestInv, Shapes, StoresOK, PagesOK, DatabaseOK
  <1>5. CASE MustDownload(j)
    <2>1. JobsOK' /\ \A i \in Job : i # j => job'[i] = job[i]
      BY <1>1, <1>5, GotoKeeps DEF MustDownload, At, PcActive, TxPc
    <2> QED BY <1>5, <2>1, OnwardPreserves
            DEF MustDownload, At, TxPc, IngestInv, Shapes, StoresOK, PagesOK, DatabaseOK
  <1>6. CASE StoreZip(j)
    <2>1. JobsOK' /\ \A i \in Job : i # j => job'[i] = job[i]
      BY <1>1, <1>6, GotoKeeps DEF StoreZip, At, PcActive, TxPc
    <2>2. StoresOK'
      BY <1>1, <1>2, <1>6 DEF StoreZip, At, IngestInv, Shapes, StoresOK, JobState
    <2> QED BY <1>6, <2>1, <2>2, OnwardPreserves
            DEF StoreZip, At, TxPc, IngestInv, Shapes, PagesOK, DatabaseOK
  <1>7. CASE RestoreHandle(j)
    <2>1. job[j].conn \in Conn /\ job[j].prev \in Handle
      BY <1>1, <1>7 DEF RestoreHandle, At, JobsOK, WellFormed, TxPc, JobState
    <2>2. /\ JobsOK' /\ job'[j] = [job[j] EXCEPT !.pc = "commit"]
          /\ \A i \in Job : i # j => job'[i] = job[i]
      BY <1>1, <1>7, <2>1, GotoKeeps DEF RestoreHandle, At, PcActive
    <2>3. job'[j].pc = "commit" /\ job'[j].conn = job[j].conn /\ job'[j].level = job[j].level
      BY <1>1, <2>2 DEF JobState
    <2> QED BY <1>7, <2>1, <2>2, <2>3, OnwardPreserves
            DEF RestoreHandle, At, TxPc, IngestInv, Shapes, StoresOK, PagesOK, DatabaseOK
  <1> QED BY <1>4, <1>5, <1>6, <1>7

LEMMA BeginTxPreserves ==
    ASSUME IngestInv, NEW j \in Job, BeginTx(j)
    PROVE  IngestInv'
  <1>1. /\ At(j, "begin") /\ job[j].pc # "idle" /\ job[j].pc \notin TxPc
        /\ UNCHANGED <<remote, s3, local, committed, db, page, fill, faults>>
    BY DEF BeginTx, At, TxPc
  <1>2. JobsOK /\ job[j] \in JobState /\ job[j].todo # <<>>
    BY <1>1 DEF IngestInv, Shapes, JobsOK, WellFormed
  <1>3. StoresOK' /\ PagesOK'
    BY <1>1 DEF IngestInv, Shapes, StoresOK, PagesOK
  <1>4. CASE \E c \in Conn :
               /\ ~conn[c].open
               /\ conn' = [conn EXCEPT ![c] = [Idle EXCEPT !.open = TRUE]]
               /\ job' = [job EXCEPT ![j].pc = "delete", ![j].conn = c, ![j].level = 0]
    <2>1. PICK c \in Conn :
               /\ ~conn[c].open
               /\ conn' = [conn EXCEPT ![c] = [Idle EXCEPT !.open = TRUE]]
               /\ job' = [job EXCEPT ![j].pc = "delete", ![j].conn = c, ![j].level = 0]
      BY <1>4
    <2> DEFINE new == [job[j] EXCEPT !.pc = "delete", !.conn = c, !.level = 0]
    <2>2. WellFormed(new) /\ new.conn = c /\ new.level = 0 /\ new.pc = "delete"
      <3>1. new \in JobState /\ new.pc = "delete" /\ new.conn = c /\ new.level = 0 /\ new.todo = job[j].todo
        BY <1>2 DEF JobState, PcActive, Handle
      <3> QED BY <1>2, <3>1 DEF WellFormed
    <2>3. job' = [job EXCEPT ![j] = new]
      BY <2>1
    <2> HIDE DEF new
    <2>4. JobsOK' /\ job'[j] = new /\ \A i \in Job : i # j => job'[i] = job[i]
      BY <1>2, <2>2, <2>3, JobKeeps
    <2>5. [Idle EXCEPT !.open = TRUE] \in ConnState
      BY NoDeltaType DEF ConnState
    <2>6. DatabaseOK' /\ \A b \in Conn : b # c => conn'[b] = conn[b]
      BY <1>1, <2>1, <2>5 DEF IngestInv, Shapes, DatabaseOK
    <2>7. NoOrphanTx'
      <3> SUFFICES ASSUME NEW b \in Conn, conn'[b].open
                   PROVE  \E i \in Job : job'[i].conn = b /\ job'[i].level = 0 /\ job'[i].pc \in TxPc
        BY DEF NoOrphanTx, TxPc
      <3>1. CASE b = c
        BY <2>2, <2>4, <3>1 DEF TxPc
      <3>2. CASE b # c
        <4>1. PICK i \in Job : job[i].conn = b /\ job[i].level = 0 /\ job[i].pc \in TxPc
          BY <2>6, <3>2 DEF IngestInv, NoOrphanTx, TxPc
        <4> QED BY <1>1, <2>4, <4>1
      <3> QED BY <3>1, <3>2
    <2> QED BY <1>3, <2>4, <2>6, <2>7 DEF IngestInv, Shapes
  <1>5. CASE /\ InTx(db)
             /\ conn' = [conn EXCEPT ![db].saves = Append(@, conn[db].delta)]
             /\ job' = [job EXCEPT ![j].pc = "delete", ![j].conn = db,
                                   ![j].level = Len(conn[db].saves) + 1]
    <2>1. db \in Conn /\ conn[db] \in ConnState
      BY <1>5 DEF InTx, IngestInv, Shapes, DatabaseOK, Handle
    <2> DEFINE level == Len(conn[db].saves) + 1
               new   == [job[j] EXCEPT !.pc = "delete", !.conn = db, !.level = level]
               saved == [conn[db] EXCEPT !.saves = Append(conn[db].saves, conn[db].delta)]
    <2>2. level \in Nat
      BY <2>1 DEF ConnState
    <2>3. saved \in ConnState /\ saved.open = conn[db].open
      BY <2>1, SMTT(120) DEF ConnState
    <2>4. job' = [job EXCEPT ![j] = new] /\ conn' = [conn EXCEPT ![db] = saved]
      BY <1>5
    <2> HIDE DEF level, saved
    <2>5. WellFormed(new)
      <3>1. new \in JobState /\ new.pc = "delete" /\ new.conn = db /\ new.todo = job[j].todo
        BY <1>2, <2>1, <2>2 DEF JobState, PcActive, Handle
      <3> QED BY <1>2, <2>1, <3>1 DEF WellFormed
    <2> HIDE DEF new
    <2>6. JobsOK' /\ \A i \in Job : i # j => job'[i] = job[i]
      BY <1>2, <2>4, <2>5, JobKeeps
    <2>7. DatabaseOK' /\ \A c \in Conn : conn'[c].open = conn[c].open
      BY <1>1, <2>1, <2>3, <2>4 DEF IngestInv, Shapes, DatabaseOK
    <2>8. NoOrphanTx'
      BY <1>1, <2>6, <2>7, OwnerKept DEF IngestInv
    <2> QED BY <1>3, <2>6, <2>7, <2>8 DEF IngestInv, Shapes
  <1>6. CASE Goto(j, "failed") /\ UNCHANGED conn
    <2>1. JobsOK' /\ \A i \in Job : i # j => job'[i] = job[i]
      BY <1>1, <1>2, <1>6, GotoKeeps DEF PcActive, TxPc
    <2> QED BY <1>1, <1>3, <1>6, <2>1, OnwardPreserves DEF IngestInv, Shapes, DatabaseOK
  <1> QED BY <1>4, <1>5, <1>6 DEF BeginTx

\* The statements inside the transaction.
LEMMA InsertPreserves ==
    ASSUME IngestInv, NEW j \in Job, DeleteRows(j) \/ InsertBase(j) \/ InsertTimes(j)
    PROVE  IngestInv'
  <1>1. /\ job[j].pc \in {"delete", "base", "times"}
        /\ UNCHANGED <<remote, s3, local, page, fill, faults>>
    BY DEF DeleteRows, InsertBase, InsertTimes, At
  <1>2. /\ JobsOK /\ job[j] \in JobState /\ job[j].todo # <<>> /\ job[j].conn \in Conn
        /\ FeedOf(j) \in Feed /\ db \in Handle
    BY <1>1, FeedOfType DEF IngestInv, Shapes, JobsOK, WellFormed, TxPc, DatabaseOK
  <1>3. /\ DataDelta({FeedOf(j)} \X Part, None) \in Delta
        /\ \A p \in Part : DataDelta({<<FeedOf(j), p>>}, job[j].zip) \in Delta
    <2>1. {FeedOf(j)} \X Part \in SUBSET Cell /\ \A p \in Part : {<<FeedOf(j), p>>} \in SUBSET Cell
      BY <1>2 DEF Cell
    <2> QED BY <1>2, <2>1, DataDeltaType, ConstantFacts DEF JobState
  <1>4. CASE DeleteRows(j)
    <2> DEFINE new == [job[j] EXCEPT !.prev = db, !.pc = "base"]
    <2>1. /\ Execute(job[j].conn, DataDelta({FeedOf(j)} \X Part, None))
          /\ db' = job[j].conn /\ job' = [job EXCEPT ![j] = new]
      BY <1>4 DEF DeleteRows
    <2>2. /\ new \in JobState /\ new.pc = "base" /\ new.conn = job[j].conn
          /\ new.level = job[j].level /\ new.todo = job[j].todo
      BY <1>2 DEF JobState, PcActive
    <2> HIDE DEF new
    <2>3. WellFormed(new)
      BY <1>2, <2>2 DEF WellFormed
    <2>4. JobsOK' /\ job'[j] = new /\ \A i \in Job : i # j => job'[i] = job[i]
      BY <1>2, <2>1, <2>3, JobKeeps
    <2>5. job[j].conn \in Handle
      BY <1>2 DEF Handle
    <2> QED BY <1>1, <1>3, <2>1, <2>2, <2>4, <2>5, StatementPreserves DEF TxPc
  <1>5. CASE InsertBase(j) \/ InsertTimes(j)
    <2> DEFINE next == IF At(j, "base") THEN "times" ELSE "restore"
    <2>1. PICK p \in Part : Execute(db, DataDelta({<<FeedOf(j), p>>}, job[j].zip))
      BY <1>5 DEF InsertBase, InsertTimes, Part
    <2>2. Goto(j, next) /\ UNCHANGED db
      BY <1>5 DEF InsertBase, InsertTimes, At
    <2>3. next \in {"times", "restore"}
      OBVIOUS
    <2> HIDE DEF next
    <2>4. /\ JobsOK' /\ job'[j] = [job[j] EXCEPT !.pc = next]
          /\ \A i \in Job : i # j => job'[i] = job[i]
      BY <1>1, <1>2, <2>2, <2>3, GotoKeeps DEF PcActive
    <2>5. job'[j].pc \in TxPc /\ job'[j].conn = job[j].conn /\ job'[j].level = job[j].level
      BY <1>2, <2>3, <2>4 DEF JobState, TxPc
    <2> QED BY <1>1, <1>2, <1>3, <2>1, <2>2, <2>4, <2>5, StatementPreserves
  <1> QED BY <1>4, <1>5

LEMMA CommitPreserves ==
    ASSUME IngestInv, NEW j \in Job, CommitTx(j)
    PROVE  IngestInv'
  <1> DEFINE c == job[j].conn
  <1>1. /\ job[j].pc = "commit" /\ (Goto(j, "mapping") \/ Goto(j, "failed"))
        /\ UNCHANGED <<remote, s3, local, db, page, fill, faults>>
    BY DEF CommitTx, At
  <1>2. JobsOK /\ job[j] \in JobState /\ c \in Conn /\ conn[c] \in ConnState
    BY <1>1 DEF IngestInv, Shapes, JobsOK, WellFormed, TxPc, DatabaseOK
  <1>3. JobsOK' /\ \A i \in Job : i # j => job'[i] = job[i]
    BY <1>1, <1>2, GotoKeeps DEF PcActive, TxPc
  <1> HIDE DEF c
  <1>4. CASE job[j].level = 0 /\ committed' = Merge(conn[c].delta, committed) /\ conn' = [conn EXCEPT ![c] = Idle]
    <2>1. committed' \in Tables
      BY <1>2, <1>4, MergeTables DEF ConnState, IngestInv, Shapes, DatabaseOK
    <2>2. /\ conn' \in [Conn -> ConnState] /\ ~conn'[c].open
          /\ \A b \in Conn : conn'[b].open => conn[b].open
      BY <1>2, <1>4, NoDeltaType DEF IngestInv, Shapes, DatabaseOK, Idle
    <2>3. NoOrphanTx'
      BY <1>3, <2>2, OwnerKept DEF IngestInv, c
    <2> QED BY <1>1, <1>3, <2>1, <2>2, <2>3 DEF IngestInv, Shapes, DatabaseOK, StoresOK, PagesOK
  <1>5. CASE /\ job[j].level > 0 /\ conn[c].open /\ Len(conn[c].saves) >= job[j].level
             /\ conn' = [conn EXCEPT ![c].saves = SubSeq(@, 1, job[j].level - 1)]
             /\ UNCHANGED committed
    <2> DEFINE saves == SubSeq(conn[c].saves, 1, job[j].level - 1)
               new   == [conn[c] EXCEPT !.saves = saves]
    <2>1. saves \in Seq(Delta)
      BY <1>2, <1>5 DEF ConnState, JobState
    <2> HIDE DEF saves
    <2>2. new \in ConnState /\ new.open = conn[c].open
      BY <1>2, <2>1 DEF ConnState
    <2>3. conn' = [conn EXCEPT ![c] = new]
      BY <1>5 DEF saves
    <2> HIDE DEF new
    <2>4. conn' \in [Conn -> ConnState] /\ \A b \in Conn : conn'[b].open = conn[b].open
      BY <1>2, <2>2, <2>3 DEF IngestInv, Shapes, DatabaseOK
    <2>5. NoOrphanTx'
      BY <1>3, <1>5, <2>4, OwnerKept DEF IngestInv
    <2> QED BY <1>1, <1>3, <1>5, <2>4, <2>5 DEF IngestInv, Shapes, DatabaseOK, StoresOK, PagesOK
  <1>6. CASE job[j].level > 0 /\ UNCHANGED <<committed, conn>>
    <2>1. NoOrphanTx'
      BY <1>3, <1>6, OwnerKept DEF IngestInv
    <2> QED BY <1>1, <1>3, <1>6, <2>1 DEF IngestInv, Shapes, DatabaseOK, StoresOK, PagesOK
  <1> QED BY <1>4, <1>5, <1>6 DEF CommitTx, c

LEMMA OutsidePreserves ==
    ASSUME IngestInv, NEW j \in Job,
           OpenRun(j) \/ RefreshMapping(j) \/ MarkSuccess(j) \/ DropPages(j) \/ MarkFailed(j)
    PROVE  IngestInv'
  <1>1. /\ job[j].pc \in {"open", "mapping", "mark", "drop", "failed"}
        /\ UNCHANGED <<remote, s3, local, db, fill, faults>>
    BY DEF OpenRun, RefreshMapping, MarkSuccess, DropPages, MarkFailed, At
  <1>2. JobsOK /\ job[j] \in JobState /\ FeedOf(j) \in Feed /\ db \in Handle /\ DatabaseOK
    BY <1>1, FeedOfType DEF IngestInv, Shapes, JobsOK, DatabaseOK
  <1>3. CASE OpenRun(j)
    <2>1. JobsOK' /\ \A i \in Job : i # j => job'[i] = job[i]
      BY <1>2, <1>3, GotoKeeps DEF OpenRun, At, PcActive, TxPc
    <2>2. RowDelta(j, "open") \in Delta
      BY RowDeltaType DEF RowState
    <2> QED BY <1>1, <1>2, <1>3, <2>1, <2>2, StatementPreserves DEF OpenRun, TxPc
  <1>4. CASE RefreshMapping(j)
    <2>1. JobsOK' /\ \A i \in Job : i # j => job'[i] = job[i]
      BY <1>2, <1>4, GotoKeeps DEF RefreshMapping, At, PcActive, TxPc
    <2>2. View(db).data[<<FeedOf(j), "times">>] \in Version
      BY <1>2, ViewType DEF Tables, Cell, Part
    <2>3. {<<FeedOf(j), "map">>} \in SUBSET Cell
      BY <1>2 DEF Cell, Part
    <2>4. DataDelta({<<FeedOf(j), "map">>}, View(db).data[<<FeedOf(j), "times">>]) \in Delta
      BY <2>2, <2>3, DataDeltaType
    <2> QED BY <1>1, <1>2, <1>4, <2>1, <2>4, StatementPreserves DEF RefreshMapping, TxPc
  <1>5. CASE MarkSuccess(j) \/ MarkFailed(j)
    <2>1. JobsOK' /\ \A i \in Job : i # j => job'[i] = job[i]
      <3>1. CASE NextFeed(j)
        BY <1>1, <1>2, <3>1, NextFeedKeeps
      <3>2. CASE Goto(j, "drop")
        BY <1>1, <1>2, <3>2, GotoKeeps DEF PcActive, TxPc
      <3> QED BY <1>5, <3>1, <3>2 DEF MarkSuccess, MarkFailed
    <2>2. PICK st \in {"success", "failed"} : UpdateRow(j, st)
      BY <1>5 DEF MarkSuccess, MarkFailed
    <2>3. job[j].pc \in {"mark", "failed"} /\ UNCHANGED page
      BY <1>5 DEF MarkSuccess, MarkFailed, At
    <2> QED BY <1>1, <2>1, <2>2, <2>3, UpdateRowPreserves DEF RowState
  <1>6. CASE DropPages(j)
    <2>1. JobsOK' /\ \A i \in Job : i # j => job'[i] = job[i]
      BY <1>1, <1>2, <1>6, NextFeedKeeps DEF DropPages
    <2>2. PagesOK' /\ StoresOK'
      BY <1>1, <1>6 DEF DropPages, IngestInv, Shapes, PagesOK, StoresOK
    <2> QED BY <1>1, <1>2, <1>6, <2>1, <2>2, OnwardPreserves DEF DropPages, TxPc, At
  <1> QED BY <1>3, <1>4, <1>5, <1>6

\* A rollback closes the connection of a job that began it, and no other.
LEMMA RollbackKeeps ==
    ASSUME IngestInv, NEW j \in Job, job[j].pc \in TxPc, Rollback(j)
    PROVE  /\ conn' \in [Conn -> ConnState]
           /\ \A c \in Conn : conn'[c].open => conn[c].open
           /\ \A c \in Conn : c # job[j].conn => conn'[c] = conn[c]
           /\ job[j].level = 0 => conn'[job[j].conn] = Idle
  <1> DEFINE c == job[j].conn
             n == job[j].level
  <1>1. /\ job[j] \in JobState /\ c \in Conn /\ n \in Nat /\ conn[c] \in ConnState
        /\ conn \in [Conn -> ConnState]
    BY DEF IngestInv, Shapes, JobsOK, WellFormed, DatabaseOK, JobState
  <1> HIDE DEF c, n
  <1>2. CASE n = 0
    <2>1. conn' = [conn EXCEPT ![c] = Idle]
      BY <1>2 DEF Rollback, c, n
    <2> QED BY <1>1, <1>2, <2>1, NoDeltaType DEF Idle, c
  <1>3. CASE n # 0 /\ conn[c].open /\ Len(conn[c].saves) >= n
    <2> DEFINE save  == conn[c].saves[n]
               saves == SubSeq(conn[c].saves, 1, n - 1)
               new   == [conn[c] EXCEPT !.delta = save, !.saves = saves]
    <2>1. save \in Delta /\ saves \in Seq(Delta)
      BY <1>1, <1>3 DEF ConnState
    <2>2. conn' = [conn EXCEPT ![c] = new]
      BY <1>3 DEF Rollback, c, n
    <2> HIDE DEF save, saves
    <2>3. new \in ConnState /\ new.open = conn[c].open
      BY <1>1, <2>1 DEF ConnState
    <2> HIDE DEF new
    <2> QED BY <1>1, <1>3, <2>2, <2>3 DEF c, n
  <1>4. CASE n # 0 /\ ~(conn[c].open /\ Len(conn[c].saves) >= n)
    BY <1>1, <1>4 DEF Rollback, c, n
  <1> QED BY <1>2, <1>3, <1>4

LEMMA FailPreserves ==
    ASSUME IngestInv, NEW j \in Job, Fail(j)
    PROVE  IngestInv'
  <1>1. /\ job[j].pc \in PcCaught /\ faults < MaxFaults /\ faults' = faults + 1
        /\ UNCHANGED <<remote, local, committed, page, fill>>
        /\ s3' \in {s3, [s3 EXCEPT ![FeedOf(j)] = job[j].zip]}
        /\ db' \in {db, job[j].prev} /\ Goto(j, "failed")
    BY DEF Fail, Goto
  <1>2. /\ JobsOK /\ job[j] \in JobState /\ job[j].pc # "idle" /\ FeedOf(j) \in Feed
        /\ job[j].pc \in TxPc => job[j].pc \in {"delete", "base", "times", "commit"}
    BY <1>1, FeedOfType DEF IngestInv, Shapes, JobsOK, PcCaught, PcActive, TxPc
  <1>3. JobsOK' /\ \A i \in Job : i # j => job'[i] = job[i]
    BY <1>2, <1>1, GotoKeeps DEF PcActive, TxPc
  <1>4. StoresOK'
    BY <1>1, <1>2 DEF IngestInv, Shapes, StoresOK, JobState
  <1>5. PagesOK'
    BY <1>1, BoundsAssumption DEF IngestInv, Shapes, PagesOK
  <1>6. db' \in Handle
    BY <1>1, <1>2 DEF IngestInv, Shapes, DatabaseOK, JobState
  <1>7. DatabaseOK' /\ NoOrphanTx'
    <2>1. CASE job[j].pc \in {"delete", "base", "times", "commit"}
      <3>1. Rollback(j) /\ job[j].pc \in TxPc
        BY <2>1 DEF Fail, TxPc
      <3>2. NoOrphanTx'
        BY <1>3, <3>1, RollbackKeeps, OwnerKept DEF IngestInv, Idle
      <3> QED BY <1>1, <1>6, <3>1, <3>2, RollbackKeeps DEF IngestInv, Shapes, DatabaseOK
    <2>2. CASE job[j].pc \notin {"delete", "base", "times", "commit"}
      <3>1. UNCHANGED conn /\ job[j].pc \notin TxPc
        BY <1>2, <2>2 DEF Fail
      <3>2. NoOrphanTx'
        BY <1>3, <3>1, OwnerKept DEF IngestInv
      <3> QED BY <1>1, <1>6, <3>1, <3>2 DEF IngestInv, Shapes, DatabaseOK
    <2> QED BY <2>1, <2>2
  <1> QED BY <1>3, <1>4, <1>5, <1>7 DEF IngestInv, Shapes

LEMMA CallersPreserve ==
    ASSUME IngestInv, NEW j \in Job, NEW force \in BOOLEAN, NEW f \in Feed,
           IngestAll(j, force) \/ IngestMode(j, f, force) \/ Abort(j)
    PROVE  IngestInv'
  <1>1. JobsOK /\ job[j] \in JobState
    BY DEF IngestInv, Shapes, JobsOK
  <1>2. CASE Abort(j)
    <2>1. WellFormed(NoJob)
      BY ConstantFacts DEF WellFormed, TxPc
    <2>2. JobsOK' /\ \A i \in Job : i # j => job'[i] = job[i]
      BY <1>1, <1>2, <2>1, JobKeeps DEF Abort
    <2>3. PagesOK' /\ StoresOK' /\ job[j].pc \in {"open", "failed"}
      BY <1>2, BoundsAssumption DEF Abort, IngestInv, Shapes, PagesOK, StoresOK
    <2> QED BY <1>2, <2>2, <2>3, OnwardPreserves DEF Abort, TxPc, IngestInv, Shapes, DatabaseOK
  <1>3. CASE IngestAll(j, force) \/ IngestMode(j, f, force)
    <2>1. PICK feeds \in {Catalog, <<f>>} : Start(j, feeds, force)
      BY <1>3 DEF IngestAll, IngestMode
    <2>a. <<f>> \in Seq(Feed) /\ <<f>> # <<>>
      OBVIOUS
    <2>2. feeds \in Seq(Feed) /\ feeds # <<>>
      BY <2>1, <2>a, ConstantFacts
    <2> DEFINE new == [NoJob EXCEPT !.pc = "open", !.todo = feeds, !.force = force]
    <2>3. job' = [job EXCEPT ![j] = new] /\ At(j, "idle")
      BY <2>1 DEF Start
    <2>4. new \in JobState /\ new.pc = "open" /\ new.todo = feeds
      BY <2>2, ConstantFacts DEF JobState, PcActive
    <2> HIDE DEF new
    <2>5. WellFormed(new)
      BY <2>2, <2>4 DEF WellFormed, TxPc
    <2>6. JobsOK' /\ \A i \in Job : i # j => job'[i] = job[i]
      BY <1>1, <2>3, <2>5, JobKeeps
    <2>7. NoOrphanTx'
      BY <2>1, <2>3, <2>6, OwnerKept DEF Start, IngestInv, At, TxPc
    <2> QED BY <2>1, <2>6, <2>7 DEF Start, IngestInv, Shapes, StoresOK, DatabaseOK, PagesOK
  <1> QED BY <1>2, <1>3

LEMMA CrashPreserves ==
    ASSUME IngestInv, Crash
    PROVE  IngestInv'
  <1>1. StoresOK'
    BY ConstantFacts DEF Crash, IngestInv, Shapes, StoresOK
  <1>2. DatabaseOK' /\ NoOrphanTx'
    BY NoDeltaType DEF Crash, IngestInv, Shapes, DatabaseOK, Handle, NoOrphanTx, Idle
  <1>3. JobsOK'
    BY ConstantFacts DEF Crash, JobsOK, WellFormed, TxPc
  <1>4. PagesOK'
    <2>1. \A r \in Reader : [fill[r] EXCEPT !.busy = FALSE] \in [busy : BOOLEAN, feed : Feed, val : Version]
      BY DEF IngestInv, Shapes, PagesOK
    <2>2. faults' \in 0 .. MaxFaults
      BY BoundsAssumption DEF Crash, IngestInv, Shapes, PagesOK
    <2> QED BY <2>1, <2>2 DEF Crash, IngestInv, Shapes, PagesOK
  <1> QED BY <1>1, <1>2, <1>3, <1>4 DEF IngestInv, Shapes

LEMMA ReadersPreserve ==
    ASSUME IngestInv, NEW f \in Feed,
           \/ Publish(f) \/ Expire(f)
           \/ \E r \in Reader : FillStore(r) \/ FillRead(r, f)
    PROVE  IngestInv'
  <1>1. /\ UNCHANGED <<s3, local, committed, conn, db, job, faults>>
        /\ remote' = remote \/ UNCHANGED <<page, fill>>
    BY DEF Publish, Expire, FillStore, FillRead
  <1>2. StoresOK'
    <2>1. CASE Publish(f)
      BY <2>1, BoundsAssumption DEF Publish, IngestInv, Shapes, StoresOK
    <2>2. CASE UNCHANGED remote
      BY <1>1, <2>2 DEF IngestInv, Shapes, StoresOK
    <2> QED BY <2>1, <2>2 DEF Expire, FillStore, FillRead
  <1>3. PagesOK'
    <2>1. CASE Publish(f)
      BY <2>1 DEF Publish, IngestInv, Shapes, PagesOK
    <2>2. CASE Expire(f)
      BY <2>2 DEF Expire, IngestInv, Shapes, PagesOK
    <2>3. CASE \E r \in Reader : FillStore(r) \/ FillRead(r, f)
      <3>1. PICK r \in Reader : FillStore(r) \/ FillRead(r, f)
        BY <2>3
      <3>2. fill[r] \in [busy : BOOLEAN, feed : Feed, val : Version]
        BY DEF IngestInv, Shapes, PagesOK
      <3>3. CASE FillStore(r)
        <4>1. [fill[r] EXCEPT !.busy = FALSE] \in [busy : BOOLEAN, feed : Feed, val : Version]
          BY <3>2
        <4> QED BY <3>2, <3>3, <4>1 DEF FillStore, IngestInv, Shapes, PagesOK
      <3>4. CASE FillRead(r, f)
        <4>1. View(db).data[<<f, "base">>] \in Version
          BY ViewType DEF IngestInv, Shapes, DatabaseOK, Tables, Cell, Part
        <4> QED BY <3>4, <4>1 DEF FillRead, IngestInv, Shapes, PagesOK
      <3> QED BY <3>1, <3>3, <3>4
    <2> QED BY <2>1, <2>2, <2>3
  <1> QED BY <1>1, <1>2, <1>3 DEF IngestInv, Shapes, DatabaseOK, JobsOK, NoOrphanTx

LEMMA StepPreserves ==
    ASSUME IngestInv, NEW j \in Job, Step(j) \/ Fail(j) \/ Abort(j)
    PROVE  IngestInv'
  <1>1. CASE Step(j)
    BY <1>1, ZipPreserves, BeginTxPreserves, InsertPreserves, CommitPreserves, OutsidePreserves DEF Step
  <1>2. CASE Abort(j)
    <2>1. \E f \in Feed : TRUE
      BY ConstantFacts
    <2> QED BY <1>2, <2>1, CallersPreserve
  <1> QED BY <1>1, <1>2, FailPreserves

LEMMA NextIngest == IngestInv /\ [Next]_vars => IngestInv'
  <1> SUFFICES ASSUME IngestInv, [Next]_vars PROVE IngestInv'
    OBVIOUS
  <1>1. CASE UNCHANGED vars
    BY <1>1 DEF vars, IngestInv, Shapes, StoresOK, DatabaseOK, JobsOK, PagesOK, NoOrphanTx
  <1>2. CASE \E f \in Feed : Publish(f) \/ Expire(f)
    BY <1>2, ReadersPreserve
  <1>3. CASE \E j \in Job, force \in ForceOptions :
               IngestAll(j, force) \/ \E f \in Feed : IngestMode(j, f, force)
    <2>1. ForceOptions \subseteq BOOLEAN /\ Feed # {}
      BY BoundsAssumption, ConstantFacts
    <2> QED BY <1>3, <2>1, CallersPreserve
  <1>4. CASE \E j \in Job : Step(j) \/ Fail(j) \/ Abort(j)
    BY <1>4, StepPreserves
  <1>5. CASE \E r \in Reader : FillStore(r) \/ \E f \in Feed : FillRead(r, f)
    BY <1>5, ReadersPreserve, ConstantFacts
  <1>6. CASE Crash
    BY <1>6, CrashPreserves
  <1> QED BY <1>1, <1>2, <1>3, <1>4, <1>5, <1>6 DEF Next

LEMMA IngestInductive == Spec => []IngestInv
  BY InitIngest, NextIngest, PTL DEF Spec

\* Type correctness of the ingestion.
THEOREM TypeCorrect == Spec => []TypeOK
  <1>1. IngestInv => TypeOK
    <2> SUFFICES ASSUME IngestInv PROVE TypeOK
      OBVIOUS
    <2>1. \A c \in Conn : conn[c].open \in BOOLEAN
      BY DEF IngestInv, Shapes, DatabaseOK, ConnState
    <2>2. \A j \in Job :
           /\ job[j].pc \in PcIdle \cup PcActive /\ job[j].todo \in Seq(Feed)
           /\ job[j].force \in BOOLEAN /\ job[j].zip \in Version /\ job[j].fromCache \in BOOLEAN
           /\ {job[j].conn, job[j].prev} \subseteq Conn \cup {Pool}
      BY DEF IngestInv, Shapes, JobsOK, JobState, Handle
    <2> QED BY <2>1, <2>2 DEF IngestInv, Shapes, StoresOK, DatabaseOK, PagesOK, Tables, Handle, TypeOK
  <1> QED BY <1>1, IngestInductive, PTL

\* However jobs overlap and fail, an open transaction belongs to a job that will end
\* it: replaceFeedData leaves no connection of the pool inside one.
THEOREM NoTransactionOrphaned == Spec => []NoOrphanTx
  <1>1. IngestInv => NoOrphanTx
    BY DEF IngestInv
  <1> QED BY <1>1, IngestInductive, PTL

-----------------------------------------------------------------------------
(* Jobs that do not overlap: SerialInv is inductive when jobs start one by one. *)

\* Only job j is busy after a step.
LEMMA SerialFrom ==
    ASSUME IngestInv', CommittedWhole', NEW j \in Job,
           \A i \in Job : i # j => job'[i].pc = "idle",
           IF job'[j].pc \in Swapped THEN db' = job'[j].conn /\ job'[j].prev = Pool ELSE db' = Pool,
           job'[j].pc \in TxPc =>
             LET data == conn'[job'[j].conn].delta.data
                 f    == Head(job'[j].todo)
             IN  /\ job'[j].level = 0 /\ conn'[job'[j].conn].open
                 /\ WholeBut(IF job'[j].pc = "times" THEN {f} ELSE {}, data)
                 /\ job'[j].pc = "times" =>
                      <<f, "base">> \in DOMAIN data /\ data[<<f, "base">>] = job'[j].zip
    PROVE  SerialInv'
  <1>1. \A i \in Job : i # j => job'[i].pc \notin TxPc /\ job'[i].pc \notin Swapped
    BY DEF TxPc, Swapped
  <1>2. OneJob'
    BY DEF OneJob
  <1>3. HandleOK'
    BY <1>1 DEF HandleOK
  <1>4. DeltaOK'
    BY <1>1 DEF DeltaOK, FeedOf
  <1> QED BY <1>2, <1>3, <1>4 DEF SerialInv

\* Job j is the only one, and inside of its transaction, though not between its inserts.
LEMMA SerialInside ==
    ASSUME IngestInv', CommittedWhole', NEW j \in Job,
           \A i \in Job : i # j => job'[i] = job[i] /\ job[i].pc = "idle",
           job'[j].pc \in TxPc \ {"times"}, job'[j].level = 0,
           db' = IF job'[j].pc \in Swapped THEN job'[j].conn ELSE Pool,
           job'[j].pc \in Swapped => job'[j].prev = Pool,
           conn'[job'[j].conn].open, WholeBut({}, conn'[job'[j].conn].delta.data)
    PROVE  SerialInv'
  BY SerialFrom

\* Job j is the only one, and outside of a transaction.
LEMMA SerialOutside ==
    ASSUME IngestInv', CommittedWhole', NEW j \in Job,
           \A i \in Job : i # j => job'[i] = job[i] /\ job[i].pc = "idle",
           job'[j].pc \notin TxPc, db' = Pool
    PROVE  SerialInv'
  <1>1. job'[j].pc \notin Swapped
    BY DEF TxPc, Swapped
  <1> QED BY <1>1, SerialFrom

\* A busy job is the only one, and outside of its inserts the handle is the pool.
LEMMA Alone ==
    ASSUME SerialInv, NEW j \in Job, job[j].pc # "idle"
    PROVE  /\ \A i \in Job : i # j => job[i].pc = "idle"
           /\ job[j].pc \notin Swapped => db = Pool
  <1>1. \A i \in Job : i # j => job[i].pc = "idle"
    BY DEF SerialInv, OneJob
  <1>2. job[j].pc \notin Swapped => \A i \in Job : job[i].pc \notin Swapped
    BY <1>1 DEF Swapped
  <1> QED BY <1>1, <1>2 DEF SerialInv, HandleOK

\* A job goes on outside of its transaction.
LEMMA OutsideSerial ==
    ASSUME SerialInv, IngestInv', NEW j \in Job, \A i \in Job : i # j => job'[i] = job[i] /\ job[i].pc = "idle",
           job[j].pc \notin Swapped, job'[j].pc \notin TxPc, UNCHANGED db, CommittedWhole'
    PROVE  SerialInv'
  <1>1. \A i \in Job : job[i].pc \notin Swapped
    BY DEF Swapped
  <1>2. db' = Pool /\ job'[j].pc \notin Swapped
    BY <1>1 DEF SerialInv, HandleOK, TxPc, Swapped
  <1> QED BY <1>2, SerialFrom

LEMMA PoolStatement ==
    ASSUME SerialInv, NEW d, Execute(Pool, d),
           \A x \in DOMAIN d.data : \E f \in Feed : x = <<f, "map">>
    PROVE  CommittedWhole' /\ UNCHANGED conn
  <1>1. committed' = Merge(d, committed) /\ UNCHANGED conn
    BY DEF Execute, InTx
  <1>2. ASSUME NEW f \in Feed, NEW p \in {"base", "times"}
        PROVE  committed'.data[<<f, p>>] = committed.data[<<f, p>>]
    <2> DEFINE x == <<f, p>>
    <2>1. x \notin DOMAIN d.data
      OBVIOUS
    <2>2. x \in DOMAIN committed.data
      BY DEF SerialInv, IngestInv, Shapes, DatabaseOK, Tables, Cell, Part
    <2>3. committed'.data = Over(d.data, committed.data)
      BY <1>1 DEF Merge
    <2>4. committed'.data[x] = committed.data[x]
      <3> HIDE DEF x
      <3> QED BY <2>1, <2>2, <2>3, OverAt DEF Over
    <2> QED BY <2>4
  <1> QED BY <1>1, <1>2 DEF CommittedWhole, SerialInv

LEMMA RowDeltaData == ASSUME NEW j, NEW st PROVE DOMAIN RowDelta(j, st).data = {}
  BY DEF RowDelta

LEMMA OutsideStepSerial ==
    ASSUME SerialInv, IngestInv', NEW j \in Job,
           \/ OpenRun(j) \/ ReuseZip(j) \/ MustDownload(j) \/ Download(j) \/ StoreZip(j)
           \/ RefreshMapping(j) \/ MarkSuccess(j) \/ DropPages(j) \/ MarkFailed(j) \/ Abort(j)
    PROVE  SerialInv'
  <1>1. /\ job[j].pc \in PcActive \ TxPc /\ UNCHANGED db
    BY DEF OpenRun, ReuseZip, MustDownload, Download, StoreZip, RefreshMapping, MarkSuccess,
           DropPages, MarkFailed, Abort, At, PcActive, TxPc
  <1>2. job[j].pc # "idle" /\ job[j].pc \notin Swapped /\ JobsOK /\ job[j] \in JobState
    BY <1>1 DEF PcActive, TxPc, Swapped, SerialInv, IngestInv, Shapes, JobsOK
  <1>3. db = Pool /\ \A i \in Job : i # j => job[i].pc = "idle"
    BY <1>2, Alone
  <1>4. job'[j].pc \notin TxPc /\ \A i \in Job : i # j => job'[i] = job[i]
    <2>1. ASSUME NEW pc \in {"resolve", "download", "begin", "mark", "drop"}, Goto(j, pc)
          PROVE  job'[j].pc \notin TxPc /\ \A i \in Job : i # j => job'[i] = job[i]
      <3>1. pc \in PcIdle \cup PcActive /\ pc \notin TxPc
        BY DEF PcActive, TxPc
      <3>2. /\ job'[j] = [job[j] EXCEPT !.pc = pc]
            /\ \A i \in Job : i # j => job'[i] = job[i]
        BY <1>2, <2>1, <3>1, GotoKeeps
      <3>3. job'[j].pc = pc
        BY <1>2, <3>2 DEF JobState
      <3> QED BY <3>1, <3>2, <3>3
    <2>2. CASE NextFeed(j)
      BY <1>2, <2>2, NextFeedKeeps DEF TxPc
    <2>3. CASE ReuseZip(j) \/ Download(j)
      <3> DEFINE next == IF At(j, "resolve") THEN "begin" ELSE "store"
                 new  == [job[j] EXCEPT !.zip = remote[FeedOf(j)], !.fromCache = At(j, "resolve"),
                                        !.pc = next]
      <3>1. job \in [Job -> JobState]
        BY <1>2 DEF JobsOK
      <3>2. job' = [job EXCEPT ![j] = new]
        BY <2>3 DEF ReuseZip, Download, At
      <3>3. new.pc = next /\ next \in {"begin", "store"}
        BY <1>2 DEF JobState
      <3> HIDE DEF new, next
      <3> QED BY <3>1, <3>2, <3>3 DEF TxPc
    <2>4. CASE Abort(j)
      BY <1>2, <2>4, ConstantFacts DEF Abort, JobsOK, TxPc
    <2>5. CASE OpenRun(j) \/ MustDownload(j) \/ StoreZip(j) \/ RefreshMapping(j)
      BY <2>1, <2>5 DEF OpenRun, MustDownload, StoreZip, RefreshMapping
    <2>6. CASE MarkSuccess(j) \/ DropPages(j) \/ MarkFailed(j)
      BY <2>1, <2>2, <2>6 DEF MarkSuccess, DropPages, MarkFailed
    <2> QED BY <2>3, <2>4, <2>5, <2>6
  <1>5. CommittedWhole'
    <2>1. CASE UNCHANGED committed
      BY <2>1 DEF CommittedWhole, SerialInv
    <2>2. ASSUME NEW st, Execute(db, RowDelta(j, st)) PROVE CommittedWhole'
      BY <1>3, <2>2, PoolStatement, RowDeltaData
    <2>3. CASE RefreshMapping(j)
      <3> DEFINE d == DataDelta({<<FeedOf(j), "map">>}, View(db).data[<<FeedOf(j), "times">>])
      <3>1. Execute(Pool, d) /\ FeedOf(j) \in Feed
        BY <1>2, <1>3, <2>3, FeedOfType DEF RefreshMapping
      <3>2. DOMAIN d.data = {<<FeedOf(j), "map">>}
        BY DEF DataDelta
      <3> HIDE DEF d
      <3> QED BY <3>1, <3>2, PoolStatement
    <2>4. CASE OpenRun(j)
      BY <2>2, <2>4 DEF OpenRun
    <2>5. ASSUME NEW st, UpdateRow(j, st) PROVE CommittedWhole'
      BY <2>1, <2>2, <2>5 DEF UpdateRow
    <2>6. CASE MarkSuccess(j) \/ MarkFailed(j)
      BY <2>5, <2>6 DEF MarkSuccess, MarkFailed
    <2>7. CASE ReuseZip(j) \/ MustDownload(j) \/ Download(j) \/ StoreZip(j) \/ DropPages(j) \/ Abort(j)
      BY <2>1, <2>7 DEF ReuseZip, MustDownload, Download, StoreZip, DropPages, Abort
    <2> QED BY <2>3, <2>4, <2>6, <2>7
  <1> QED BY <1>1, <1>2, <1>3, <1>4, <1>5, OutsideSerial

\* A statement inside a transaction changes that transaction's delta only.
LEMMA TxStatement ==
    ASSUME DatabaseOK, NEW c \in Conn, conn[c].open, NEW d, Execute(c, d)
    PROVE  /\ UNCHANGED committed /\ conn'[c].open
           /\ conn'[c].delta.data = Over(d.data, conn[c].delta.data)
  <1>1. InTx(c)
    BY BoundsAssumption DEF InTx
  <1>2. conn' = [conn EXCEPT ![c] = [conn[c] EXCEPT !.delta = Merge(d, conn[c].delta)]]
           /\ UNCHANGED committed
    BY <1>1 DEF Execute
  <1>3. conn'[c] = [conn[c] EXCEPT !.delta = Merge(d, conn[c].delta)] /\ conn[c] \in ConnState
    BY <1>2 DEF DatabaseOK
  <1>4. conn'[c].delta = Merge(d, conn[c].delta) /\ conn'[c].open
    BY <1>3 DEF ConnState
  <1> QED BY <1>2, <1>4 DEF Merge

\* A whole delta over a whole database is a whole database.
LEMMA WholeOverWhole ==
    ASSUME NEW data, WholeBut({}, data), CommittedWhole, committed \in Tables,
           committed'.data = Over(data, committed.data)
    PROVE  CommittedWhole'
  <1> SUFFICES ASSUME NEW f \in Feed
               PROVE  committed'.data[<<f, "base">>] = committed'.data[<<f, "times">>]
    BY DEF CommittedWhole
  <1> DEFINE b == <<f, "base">>
             t == <<f, "times">>
  <1>1. b \in DOMAIN committed.data /\ t \in DOMAIN committed.data
    BY DEF Tables, Cell, Part
  <1>2. committed.data[b] = committed.data[t]
    BY DEF CommittedWhole
  <1>3. (b \in DOMAIN data <=> t \in DOMAIN data) /\ (b \in DOMAIN data => data[b] = data[t])
    BY DEF WholeBut
  <1>4. committed'.data[b] = committed'.data[t]
    <2> HIDE DEF b, t
    <2> QED BY <1>1, <1>2, <1>3, OverAt DEF Over
  <1> QED BY <1>4

\* Rows of one feed written over a delta.
LEMMA OverOneFeed ==
    ASSUME NEW f \in Feed, NEW data, WholeBut({f}, data),
           NEW d, DOMAIN d \in SUBSET ({f} \X Part)
    PROVE  /\ WholeBut({f}, Over(d, data))
           /\ \A x \in DOMAIN d : x \in DOMAIN Over(d, data) /\ Over(d, data)[x] = d[x]
           /\ \A x \in DOMAIN data \ DOMAIN d :
                x \in DOMAIN Over(d, data) /\ Over(d, data)[x] = data[x]
  <1> DEFINE S == DOMAIN d
             after == Over(d, data)
  <1>2. /\ DOMAIN after = S \cup DOMAIN data
        /\ \A x \in S : after[x] = d[x]
        /\ \A x \in DOMAIN data \ S : after[x] = data[x]
    BY DEF Over
  <1>3. ASSUME NEW g \in Feed \ {f}, NEW p PROVE <<g, p>> \notin S
    OBVIOUS
  <1>4. WholeBut({f}, after)
    <2> SUFFICES ASSUME NEW g \in Feed \ {f}
                 PROVE  /\ <<g, "base">> \in DOMAIN after <=> <<g, "times">> \in DOMAIN after
                        /\ <<g, "base">> \in DOMAIN after => after[<<g, "base">>] = after[<<g, "times">>]
      BY DEF WholeBut
    <2> DEFINE b == <<g, "base">>
               t == <<g, "times">>
    <2>1. b \notin S /\ t \notin S
      BY <1>3
    <2> HIDE DEF after, S
    <2>2. (b \in DOMAIN data <=> t \in DOMAIN data) /\ (b \in DOMAIN data => data[b] = data[t])
      BY DEF WholeBut
    <2>3. (b \in DOMAIN after <=> t \in DOMAIN after) /\ (b \in DOMAIN after => after[b] = after[t])
      <3> HIDE DEF b, t
      <3> QED BY <1>2, <2>1, <2>2
    <2> QED BY <2>3
  <1> QED BY <1>2, <1>4

LEMMA BeginSerial ==
    ASSUME SerialInv, IngestInv', NEW j \in Job, BeginTx(j)
    PROVE  SerialInv'
  <1>1. job[j].pc = "begin" /\ UNCHANGED <<committed, db>>
    BY DEF BeginTx, At
  <1>2. db = Pool /\ \A i \in Job : i # j => job[i].pc = "idle"
    BY <1>1, Alone DEF Swapped
  <1>3. PICK c \in Conn :
           /\ conn' = [conn EXCEPT ![c] = [Idle EXCEPT !.open = TRUE]]
           /\ job' = [job EXCEPT ![j].pc = "delete", ![j].conn = c, ![j].level = 0]
    BY <1>2 DEF BeginTx, InTx
  <1>4. job \in [Job -> JobState] /\ conn \in [Conn -> ConnState] /\ job[j] \in JobState
    BY DEF SerialInv, IngestInv, Shapes, JobsOK, DatabaseOK
  <1>5. job'[j] = [job[j] EXCEPT !.pc = "delete", !.conn = c, !.level = 0]
          /\ \A i \in Job : i # j => job'[i] = job[i]
    BY <1>3, <1>4
  <1>6. job'[j].pc = "delete" /\ job'[j].conn = c /\ job'[j].level = 0
    BY <1>4, <1>5 DEF JobState
  <1>7. conn'[c].open /\ conn'[c].delta.data = <<>>
    BY <1>3, <1>4, NoDeltaType DEF Idle
  <1>8. WholeBut({}, <<>>)
    BY DEF WholeBut
  <1>9. CommittedWhole'
    BY <1>1 DEF SerialInv, CommittedWhole
  <1>10. job'[j].pc \in TxPc \ {"times"} /\ job'[j].pc \notin Swapped
    BY <1>6 DEF TxPc, Swapped
  <1>11. conn'[job'[j].conn].open /\ WholeBut({}, conn'[job'[j].conn].delta.data)
    BY <1>6, <1>7, <1>8
  <1> QED BY <1>1, <1>2, <1>5, <1>6, <1>9, <1>10, <1>11, SerialInside

LEMMA DeleteSerial ==
    ASSUME SerialInv, IngestInv', NEW j \in Job, DeleteRows(j)
    PROVE  SerialInv'
  <1> DEFINE c == job[j].conn
             f == FeedOf(j)
             S == {f} \X Part
             data == conn[c].delta.data
  <1>1. /\ job[j].pc = "delete" /\ db' = c
        /\ Execute(c, DataDelta(S, None))
        /\ job' = [job EXCEPT ![j].prev = db, ![j].pc = "base"]
    BY DEF DeleteRows, At
  <1>2. db = Pool /\ \A i \in Job : i # j => job[i].pc = "idle"
    BY <1>1, Alone DEF Swapped
  <1>3. /\ job \in [Job -> JobState] /\ job[j] \in JobState /\ c \in Conn /\ f \in Feed
        /\ job[j].level = 0 /\ conn[c].open /\ DatabaseOK /\ WholeBut({}, data)
    BY <1>1, FeedOfType DEF SerialInv, IngestInv, Shapes, JobsOK, WellFormed, TxPc, HandleOK, DeltaOK
  <1>4. job'[j] = [job[j] EXCEPT !.prev = db, !.pc = "base"]
          /\ \A i \in Job : i # j => job'[i] = job[i]
    BY <1>1, <1>3
  <1>5. job'[j].pc = "base" /\ job'[j].conn = c /\ job'[j].level = 0 /\ job'[j].prev = Pool
    BY <1>2, <1>3, <1>4 DEF JobState
  <1>6. /\ UNCHANGED committed /\ conn'[c].open
        /\ conn'[c].delta.data = Over([x \in S |-> None], data)
    <2> HIDE DEF c, S
    <2> QED BY <1>1, <1>3, TxStatement DEF DataDelta
  <1>7. WholeBut({}, conn'[c].delta.data)
    <2> DEFINE after == conn'[c].delta.data
    <2>1. WholeBut({f}, data)
      BY <1>3 DEF WholeBut
    <2>2. WholeBut({f}, after) /\ \A x \in S : x \in DOMAIN after /\ after[x] = None
      <3> DEFINE d == [x \in S |-> None]
      <3>1. DOMAIN d = S /\ (\A x \in S : d[x] = None) /\ S \in SUBSET ({f} \X Part)
        OBVIOUS
      <3> HIDE DEF f, data, after, S
      <3>2. after = Over(d, data)
        BY <1>6 DEF after
      <3> HIDE DEF d
      <3>3. /\ WholeBut({f}, Over(d, data))
            /\ \A x \in DOMAIN d : x \in DOMAIN Over(d, data) /\ Over(d, data)[x] = d[x]
        BY <1>3, <2>1, <3>1, OverOneFeed
      <3> QED BY <3>1, <3>2, <3>3
    <2> DEFINE b == <<f, "base">>
               t == <<f, "times">>
    <2>3. b \in S /\ t \in S
      BY DEF Part
    <2>4. b \in DOMAIN after /\ t \in DOMAIN after /\ after[b] = after[t]
      <3> HIDE DEF b, t, S, after
      <3> QED BY <2>2, <2>3
    <2>5. WholeBut({}, after)
      <3> HIDE DEF after, f
      <3> QED BY <2>2, <2>4 DEF WholeBut
    <2> QED BY <2>5
  <1>8. CommittedWhole'
    BY <1>6 DEF SerialInv, CommittedWhole
  <1>9. job'[j].pc \in TxPc \ {"times"} /\ job'[j].pc \in Swapped
    BY <1>5 DEF TxPc, Swapped
  <1> HIDE DEF c, f, S, data
  <1>10. \A i \in Job : i # j => job'[i] = job[i] /\ job[i].pc = "idle"
    BY <1>2, <1>4
  <1>11. /\ job'[j].level = 0 /\ job'[j].prev = Pool /\ job'[j].conn = c
         /\ db' = IF job'[j].pc \in Swapped THEN job'[j].conn ELSE Pool
    BY <1>1, <1>5, <1>9
  <1>12. conn'[job'[j].conn].open /\ WholeBut({}, conn'[job'[j].conn].delta.data)
    BY <1>6, <1>7, <1>11
  <1> QED BY <1>8, <1>9, <1>10, <1>11, <1>12, SerialInside

\* The two inserts: of base, then of times.
LEMMA InsertSerial ==
    ASSUME SerialInv, IngestInv', NEW j \in Job, InsertBase(j) \/ InsertTimes(j)
    PROVE  SerialInv'
  <1> DEFINE c == job[j].conn
             f == FeedOf(j)
             p == IF At(j, "base") THEN "base" ELSE "times"
             next == IF At(j, "base") THEN "times" ELSE "restore"
             S == {<<f, p>>}
             z == job[j].zip
             data == conn[c].delta.data
             after == conn'[c].delta.data
  <1>1. /\ job[j].pc \in {"base", "times"} /\ UNCHANGED db /\ job[j].pc = p
        /\ Execute(db, DataDelta(S, z)) /\ Goto(j, next)
    BY DEF InsertBase, InsertTimes, At
  <1>2. \A i \in Job : i # j => job[i].pc = "idle"
    BY <1>1, Alone
  <1>3. /\ JobsOK /\ job[j] \in JobState /\ c \in Conn /\ f \in Feed /\ DatabaseOK
        /\ db = c /\ job[j].prev = Pool /\ job[j].level = 0 /\ conn[c].open
    BY <1>1, FeedOfType
       DEF SerialInv, IngestInv, Shapes, JobsOK, WellFormed, TxPc, Swapped, HandleOK
  <1>4. /\ WholeBut(IF p = "times" THEN {f} ELSE {}, data)
        /\ p = "times" => <<f, "base">> \in DOMAIN data /\ data[<<f, "base">>] = z
    BY <1>1 DEF SerialInv, DeltaOK, TxPc
  <1>5. next \in {"times", "restore"} /\ (next = "times" <=> p = "base") /\ p \in {"base", "times"}
    OBVIOUS
  <1>6. job'[j].pc = next /\ job'[j].conn = c /\ job'[j].level = 0 /\ job'[j].prev = Pool
          /\ job'[j].zip = z /\ job'[j].todo = job[j].todo
          /\ \A i \in Job : i # j => job'[i] = job[i]
    <2> HIDE DEF next
    <2>1. next \in PcIdle \cup PcActive
      BY <1>5 DEF PcActive
    <2>2. job'[j] = [job[j] EXCEPT !.pc = next] /\ \A i \in Job : i # j => job'[i] = job[i]
      BY <1>1, <1>3, <2>1, GotoKeeps
    <2> QED BY <1>3, <2>2 DEF JobState
  <1>7. /\ UNCHANGED committed /\ conn'[c].open
        /\ after = Over([x \in S |-> z], data)
    <2> HIDE DEF c, S, z
    <2> QED BY <1>1, <1>3, TxStatement DEF DataDelta
  <1>8. /\ WholeBut({f}, after)
        /\ <<f, p>> \in DOMAIN after /\ after[<<f, p>>] = z
        /\ p = "times" => <<f, "base">> \in DOMAIN after /\ after[<<f, "base">>] = z
    <2>1. WholeBut({f}, data) /\ S \in SUBSET ({f} \X Part)
      <3>1. S \in SUBSET ({f} \X Part)
        <4> HIDE DEF f, p
        <4> QED BY <1>5 DEF Part
      <3>2. WholeBut({f}, data)
        <4> HIDE DEF f, p, data
        <4> QED BY <1>4, <1>5 DEF WholeBut
      <3> QED BY <3>1, <3>2
    <2> DEFINE b == <<f, "base">>
               t == <<f, p>>
    <2>2. /\ WholeBut({f}, after)
          /\ \A x \in S : x \in DOMAIN after /\ after[x] = z
          /\ \A x \in DOMAIN data \ S : x \in DOMAIN after /\ after[x] = data[x]
      <3> DEFINE d == [x \in S |-> z]
      <3>1. DOMAIN d = S /\ \A x \in S : d[x] = z
        OBVIOUS
      <3> HIDE DEF f, data, after, z, S
      <3>2. after = Over(d, data)
        BY <1>7
      <3> HIDE DEF d
      <3>3. /\ WholeBut({f}, Over(d, data))
            /\ \A x \in DOMAIN d : x \in DOMAIN Over(d, data) /\ Over(d, data)[x] = d[x]
            /\ \A x \in DOMAIN data \ DOMAIN d :
                 x \in DOMAIN Over(d, data) /\ Over(d, data)[x] = data[x]
        BY <1>3, <2>1, <3>1, OverOneFeed
      <3> QED BY <3>1, <3>2, <3>3
    <2>3. /\ t \in S
          /\ p = "times" => b \notin S /\ b \in DOMAIN data /\ data[b] = z
      BY <1>4
    <2>4. /\ t \in DOMAIN after /\ after[t] = z
          /\ p = "times" => b \in DOMAIN after /\ after[b] = z
      <3> HIDE DEF b, t, S, after, data, z
      <3> QED BY <2>2, <2>3
    <2> QED BY <2>2, <2>4
  <1>9. CommittedWhole'
    BY <1>7 DEF SerialInv, CommittedWhole
  <1>10. FeedOf(j)' = f
    BY <1>6 DEF FeedOf
  <1>11. p = "times" => WholeBut({}, after)
    <2> HIDE DEF f, z, after
    <2> QED BY <1>8 DEF WholeBut
  <1>12. \A i \in Job : i # j => job'[i].pc = "idle"
    BY <1>2, <1>6
  <1>13. db' = c /\ Head(job'[j].todo) = f
    BY <1>1, <1>3, <1>10 DEF FeedOf
  <1> DEFINE delta2 == conn'[job'[j].conn].delta.data
             feed2    == Head(job'[j].todo)
  <1>14. delta2 = after /\ feed2 = f /\ conn'[job'[j].conn].open /\ job'[j].level = 0
    BY <1>6, <1>7, <1>13
  <1>15. IF job'[j].pc \in Swapped THEN db' = job'[j].conn /\ job'[j].prev = Pool ELSE db' = Pool
    BY <1>5, <1>6, <1>13 DEF Swapped
  <1> HIDE DEF f, z, after, next, p, c
  <1>16. /\ WholeBut(IF next = "times" THEN {f} ELSE {}, after)
         /\ next = "times" => <<f, "base">> \in DOMAIN after /\ after[<<f, "base">>] = z
    <2>1. CASE p = "base"
      BY <1>5, <1>8, <2>1
    <2>2. CASE p = "times"
      BY <1>5, <1>11, <2>2
    <2> QED BY <1>5, <2>1, <2>2
  <1>17. /\ WholeBut(IF job'[j].pc = "times" THEN {feed2} ELSE {}, delta2)
         /\ job'[j].pc = "times" => <<feed2, "base">> \in DOMAIN delta2 /\ delta2[<<feed2, "base">>] = job'[j].zip
    <2> HIDE DEF delta2, feed2
    <2> QED BY <1>6, <1>14, <1>16
  <1> QED BY <1>9, <1>12, <1>14, <1>15, <1>17, SerialFrom

LEMMA RestoreSerial ==
    ASSUME SerialInv, IngestInv', NEW j \in Job, RestoreHandle(j)
    PROVE  SerialInv'
  <1>1. /\ job[j].pc = "restore" /\ db' = job[j].prev /\ Goto(j, "commit")
        /\ UNCHANGED <<committed, conn>>
    BY DEF RestoreHandle, At
  <1>2. \A i \in Job : i # j => job[i].pc = "idle"
    BY <1>1, Alone
  <1>3. /\ JobsOK /\ job[j] \in JobState /\ job[j].conn \in Conn /\ job[j].level = 0
        /\ job[j].prev = Pool /\ conn[job[j].conn].open /\ WholeBut({}, conn[job[j].conn].delta.data)
    BY <1>1 DEF SerialInv, IngestInv, Shapes, JobsOK, WellFormed, TxPc, Swapped, HandleOK, DeltaOK
  <1>4. job'[j] = [job[j] EXCEPT !.pc = "commit"] /\ \A i \in Job : i # j => job'[i] = job[i]
    BY <1>1, <1>3, GotoKeeps DEF PcActive
  <1>5. job'[j].pc = "commit" /\ job'[j].conn = job[j].conn /\ job'[j].level = 0
    BY <1>3, <1>4 DEF JobState
  <1>6. CommittedWhole'
    BY <1>1 DEF SerialInv, CommittedWhole
  <1>7. job'[j].pc \in TxPc \ {"times"} /\ job'[j].pc \notin Swapped
    BY <1>5 DEF TxPc, Swapped
  <1> QED BY <1>1, <1>2, <1>3, <1>4, <1>5, <1>6, <1>7, SerialInside, ZenonT(60)

LEMMA CommitSerial ==
    ASSUME SerialInv, IngestInv', NEW j \in Job, CommitTx(j)
    PROVE  SerialInv'
  <1> DEFINE c == job[j].conn
             data == conn[c].delta.data
  <1>1. job[j].pc = "commit" /\ UNCHANGED db /\ (Goto(j, "mapping") \/ Goto(j, "failed"))
    BY DEF CommitTx, At
  <1>2. db = Pool /\ \A i \in Job : i # j => job[i].pc = "idle"
    BY <1>1, Alone DEF Swapped
  <1>3. /\ JobsOK /\ job[j] \in JobState /\ job[j].level = 0 /\ WholeBut({}, data)
        /\ committed \in Tables /\ CommittedWhole
    BY <1>1 DEF SerialInv, IngestInv, Shapes, JobsOK, TxPc, HandleOK, DeltaOK, DatabaseOK
  <1>4. committed'.data = Over(data, committed.data)
    BY <1>3 DEF CommitTx, Merge
  <1>5. CommittedWhole'
    <2> HIDE DEF data
    <2> QED BY <1>3, <1>4, WholeOverWhole
  <1>6. ASSUME NEW pc \in {"mapping", "failed"}, Goto(j, pc)
        PROVE  job'[j].pc \notin TxPc /\ \A i \in Job : i # j => job'[i] = job[i]
    <2>1. pc \in PcActive /\ pc \notin TxPc
      BY DEF PcActive, TxPc
    <2>2. job'[j] = [job[j] EXCEPT !.pc = pc] /\ \A i \in Job : i # j => job'[i] = job[i]
      BY <1>1, <1>3, <1>6, <2>1, GotoKeeps
    <2>3. job'[j].pc = pc
      BY <1>3, <2>2 DEF JobState
    <2> QED BY <2>1, <2>2, <2>3
  <1>7. job'[j].pc \notin TxPc /\ \A i \in Job : i # j => job'[i] = job[i]
    BY <1>1, <1>6
  <1> QED BY <1>1, <1>2, <1>5, <1>7, OutsideSerial DEF Swapped

LEMMA FailSerial ==
    ASSUME SerialInv, IngestInv', NEW j \in Job, Fail(j)
    PROVE  SerialInv'
  <1>1. /\ job[j].pc \in PcCaught /\ Goto(j, "failed") /\ UNCHANGED committed
        /\ db' = IF job[j].pc \in {"base", "times"} THEN job[j].prev ELSE db
    BY DEF Fail, Goto
  <1>2. job[j].pc # "idle" /\ (job[j].pc \in Swapped => job[j].pc \in {"base", "times"})
    BY <1>1 DEF PcCaught, PcActive, Swapped
  <1>3. /\ \A i \in Job : i # j => job[i].pc = "idle"
        /\ db' = Pool
    BY <1>1, <1>2, Alone DEF SerialInv, HandleOK, Swapped
  <1>4. JobsOK /\ job[j] \in JobState
    BY DEF SerialInv, IngestInv, Shapes, JobsOK
  <1>5. job'[j] = [job[j] EXCEPT !.pc = "failed"] /\ \A i \in Job : i # j => job'[i] = job[i]
    BY <1>1, <1>2, <1>4, GotoKeeps DEF PcActive, TxPc
  <1>6. job'[j].pc = "failed"
    BY <1>4, <1>5 DEF JobState
  <1>7. CommittedWhole'
    BY <1>1 DEF SerialInv, CommittedWhole
  <1>8. job'[j].pc \notin TxPc
    BY <1>6 DEF TxPc
  <1> QED BY <1>3, <1>5, <1>7, <1>8, SerialOutside

LEMMA StartSerial ==
    ASSUME SerialInv, IngestInv', NEW j \in Job, NEW feeds, NEW force, Start(j, feeds, force),
           \A i \in Job : i # j => job[i].pc = "idle"
    PROVE  SerialInv'
  <1>1. /\ job[j].pc = "idle" /\ UNCHANGED <<committed, conn, db>>
        /\ job' = [job EXCEPT ![j] = [NoJob EXCEPT !.pc = "open", !.todo = feeds, !.force = force]]
    BY DEF Start, At
  <1>2. job'[j].pc = "open" /\ \A i \in Job : i # j => job'[i] = job[i]
    BY <1>1 DEF SerialInv, IngestInv, Shapes, JobsOK, NoJob
  <1>3. CommittedWhole'
    BY <1>1 DEF SerialInv, CommittedWhole
  <1> QED BY <1>1, <1>2, <1>3, OutsideSerial DEF Swapped, TxPc

\* A job starts only while no other runs.
StartsAlone ==
    \A j \in Job, feeds \in Seq(Feed), force \in BOOLEAN :
      Start(j, feeds, force) => \A i \in Job : i # j => job[i].pc = "idle"

LEMMA SerialNext == SerialInv /\ StartsAlone /\ [Next]_vars => SerialInv'
  <1> SUFFICES ASSUME SerialInv, StartsAlone, [Next]_vars PROVE SerialInv'
    OBVIOUS
  <1>0. IngestInv'
    BY NextIngest DEF SerialInv
  <1>1. CASE UNCHANGED <<committed, conn, db, job>>
    <2>1. committed' = committed /\ conn' = conn /\ db' = db /\ job' = job
      BY <1>1
    <2>2. OneJob' /\ HandleOK'
      BY <2>1 DEF SerialInv, OneJob, HandleOK
    <2>3. DeltaOK'
      BY <2>1 DEF SerialInv, DeltaOK, FeedOf
    <2>4. CommittedWhole'
      BY <2>1 DEF SerialInv, CommittedWhole
    <2> QED BY <1>0, <2>2, <2>3, <2>4 DEF SerialInv
  <1>2. CASE \E f \in Feed : Publish(f) \/ Expire(f)
    BY <1>1, <1>2 DEF Publish, Expire
  <1>3. CASE \E j \in Job, force \in ForceOptions :
               IngestAll(j, force) \/ \E f \in Feed : IngestMode(j, f, force)
    <2>1. ASSUME NEW f \in Feed PROVE <<f>> \in Seq(Feed)
      OBVIOUS
    <2>2. PICK j \in Job, force \in BOOLEAN, feeds \in Seq(Feed) : Start(j, feeds, force)
      BY <1>3, <2>1, BoundsAssumption DEF IngestAll, IngestMode
    <2>3. \A i \in Job : i # j => job[i].pc = "idle"
      BY <2>2 DEF StartsAlone
    <2> QED BY <1>0, <2>2, <2>3, StartSerial
  <1>4. ASSUME NEW j \in Job, Step(j) \/ Fail(j) \/ Abort(j) PROVE SerialInv'
    BY <1>0, <1>4, OutsideStepSerial, BeginSerial, DeleteSerial, InsertSerial, RestoreSerial, CommitSerial,
       FailSerial DEF Step
  <1>5. CASE \E r \in Reader : FillStore(r) \/ \E f \in Feed : FillRead(r, f)
    BY <1>1, <1>5 DEF FillStore, FillRead
  <1>6. CASE Crash
    BY <1>0, <1>6, ConstantFacts DEF Crash, SerialInv, OneJob, HandleOK, DeltaOK, TxPc, Swapped, CommittedWhole
  <1> QED BY <1>1, <1>2, <1>3, <1>4, <1>5, <1>6 DEF Next, vars

LEMMA SerialInit == Init => SerialInv
  BY InitIngest, ConstantFacts
     DEF Init, SerialInv, OneJob, HandleOK, DeltaOK, TxPc, Swapped, CommittedWhole, Cell, Part

LEMMA AtRest == SerialInv => HandleAtRest
  BY DEF SerialInv, HandleOK, HandleAtRest, Active, At, Swapped

LEMMA SerialModeInductive == MCSpec => [](mode = "serial" => SerialInv)
  <1>1. MCInit => (mode = "serial" => SerialInv)
    BY SerialInit DEF MCInit
  <1>2. (mode = "serial" => SerialInv) /\ [MCNext]_<<vars, mode>> => (mode = "serial" => SerialInv)'
    <2> SUFFICES ASSUME mode = "serial", SerialInv, [MCNext]_<<vars, mode>> PROVE SerialInv'
      BY DEF MCNext
    <2>1. [Next]_vars
      BY DEF MCNext
    <2>2. ASSUME NEW j \in Job, NEW feeds \in Seq(Feed), NEW force \in BOOLEAN, Start(j, feeds, force),
                 NEW i \in Job, i # j
          PROVE  job[i].pc = "idle"
      <3>1. /\ At(j, "idle")
            /\ job' = [job EXCEPT ![j] = [NoJob EXCEPT !.pc = "open", !.todo = feeds, !.force = force]]
        BY <2>2 DEF Start
      <3>2. job'[j].pc = "open" /\ job'[i] = job[i]
        BY <2>2, <3>1 DEF SerialInv, IngestInv, Shapes, JobsOK, NoJob
      <3>3. job' # job /\ NoJob.pc = "idle"
        BY <3>1, <3>2, ConstantFacts DEF At
      <3>4. \A k \in Job \ {j1} : job'[k] = NoJob
        BY <3>3 DEF MCNext, vars, Serial
      <3>5. j = j1
        BY <3>2, <3>3, <3>4
      <3> QED BY <2>2, <3>2, <3>3, <3>4, <3>5
    <2> QED BY <2>1, <2>2, SerialNext DEF StartsAlone
  <1> QED BY <1>1, <1>2, PTL DEF MCSpec

\* As long as jobs do not overlap, other sessions see of every feed one whole
\* version, whatever fails or crashes inside replaceFeedData: its stops, routes and
\* trips are never committed without the stop times of the same ZIP.
THEOREM SerialCommitsAreWhole == MCSpec => []CommittedWholeSerially
  <1>1. (mode = "serial" => SerialInv) => CommittedWholeSerially
    BY DEF SerialInv, CommittedWholeSerially
  <1> QED BY <1>1, SerialModeInductive, PTL

\* As long as jobs do not overlap, the service's handle is back on the pool
\* whenever no job runs: the finally block of replaceFeedData undoes the swap.
THEOREM SerialHandleAtRest == MCSpec => []HandleAtRestSerially
  <1>1. (mode = "serial" => SerialInv) => HandleAtRestSerially
    BY AtRest DEF HandleAtRestSerially
  <1> QED BY <1>1, SerialModeInductive, PTL

\* What a lock around the jobs would give: with at most one job at a time, whoever
\* starts it, both hold of the ingestion itself.
THEOREM OneJobAtATimeIsSafe ==
    ASSUME MaxActive = 1
    PROVE  Spec => [](CommittedWhole /\ HandleAtRest)
  <1>1. SerialInv /\ [Next]_vars => SerialInv'
    <2> SUFFICES ASSUME SerialInv, [Next]_vars PROVE SerialInv'
      OBVIOUS
    <2>1. ASSUME NEW j \in Job, NEW feeds \in Seq(Feed), NEW force \in BOOLEAN, Start(j, feeds, force),
                 NEW i \in Job, i # j
          PROVE  job[i].pc = "idle"
      <3> SUFFICES ASSUME job[i].pc # "idle" PROVE FALSE
        OBVIOUS
      <3>1. Active = {i}
        BY DEF SerialInv, OneJob, Active, At
      <3>2. Cardinality(Active) = 1
        BY <3>1, FS_Singleton
      <3> QED BY <2>1, <3>2 DEF Start
    <2> QED BY <2>1, SerialNext DEF StartsAlone
  <1>2. SerialInv => CommittedWhole /\ HandleAtRest
    BY AtRest DEF SerialInv
  <1> QED BY <1>1, <1>2, SerialInit, PTL DEF Spec
=============================================================================
