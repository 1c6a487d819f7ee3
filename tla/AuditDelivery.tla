--------------------------- MODULE AuditDelivery ---------------------------
(***************************************************************************)
(* Best-effort audit recording (audit.service.ts), its Redis retry stream  *)
(* (cache.service.ts) and the job that drains it (audit.retry.service.ts). *)
(*                                                                         *)
(* A caller inserts its event; on any error it appends the event to the    *)
(* stream audit:pending; if that fails too, the gap is logged.  Every 30   *)
(* seconds each process reads the oldest entries, inserts each again and   *)
(* deletes it from the stream, stopping at the first error.  A call to     *)
(* Postgres or Redis that fails may still have taken effect.               *)
(***************************************************************************)
EXTENDS Integers, FiniteSets

CONSTANTS
    Event,      \* the events, one call of recordBestEffort each
    Process,    \* server processes, each with a retry job
    Home,       \* Home[e]: the process that records event e
    Rejected,   \* events whose insert throws before it reaches the database
    Limit,      \* retryQueued's limit (100)
    MaxLen,     \* the stream's MAXLEN (100000)
    MaxFaults   \* bound: failing calls, crashes and resent commands

ASSUME DeliveryAssumption ==
    /\ Home \in [Event -> Process]
    /\ Rejected \subseteq Event
    /\ Limit \in Nat \ {0}
    /\ MaxLen \in Nat \ {0}
    /\ MaxFaults \in Nat

VARIABLES
    rows,       \* how many rows of audit_event each event has
    stream,     \* the entries of audit:pending
    nextSid,    \* the next stream id
    appKeys,    \* whether Redis holds any application cache key
    call,       \* where each event's recordBestEffort stands
    retry,      \* each process's retry job: what is left of the batch it read,
                \* and the entry it has stored but not acknowledged
    trimmed,    \* history: events of entries that MAXLEN removed
    faults

vars == <<rows, stream, nextSid, appKeys, call, retry, trimmed, faults>>

Entry == [sid : Nat, ev : Event]
CallState == {"new", "insert", "enqueue", "done", "queued", "gap", "died"}
IdleRetry == [batch |-> {}, cur |-> {}]

TypeOK ==
    /\ rows \in [Event -> Nat]
    /\ stream \in SUBSET Entry
    /\ nextSid \in Nat
    /\ appKeys \in BOOLEAN
    /\ call \in [Event -> CallState]
    /\ retry \in [Process -> [batch : SUBSET Entry, cur : SUBSET Entry]]
    /\ trimmed \in SUBSET Event
    /\ faults \in 0 .. MaxFaults

Init ==
    /\ rows = [e \in Event |-> 0]
    /\ stream = {}
    /\ nextSid = 0
    /\ appKeys = FALSE
    /\ call = [e \in Event |-> "new"]
    /\ retry = [p \in Process |-> IdleRetry]
    /\ trimmed = {}
    /\ faults = 0

-----------------------------------------------------------------------------
(* The stream and the table. *)

Queued(e) == \E x \in stream : x.ev = e

\* XRANGE - + COUNT n.
OldestOf(S, n) == {x \in S : Cardinality({y \in S : y.sid < x.sid}) < n}
IsFirst(x, S) == x \in S /\ \A y \in S : x.sid <= y.sid

\* Mutant: entries are inserted again without their event's id.
InsertAgain(e) == rows' = [rows EXCEPT ![e] = @ + 1]

\* INSERT ... ON CONFLICT (id) DO NOTHING.
Insert(e) == rows' = [rows EXCEPT ![e] = IF @ = 0 THEN 1 ELSE @]

\* XADD with MAXLEN ~: n copies of the entry (a resent command runs twice);
\* once the stream is longer than MAXLEN, Redis may or may not drop the oldest.
Append(e, n) ==
    LET full   == stream \cup {[sid |-> nextSid + i, ev |-> e] : i \in 0 .. n - 1}
        excess == Cardinality(full) - MaxLen IN
    \E gone \in {{}, IF excess > 0 THEN OldestOf(full, excess) ELSE {}} :
        /\ stream' = full \ gone
        /\ trimmed' = trimmed \cup {x.ev : x \in gone}
        /\ nextSid' = nextSid + n

Fault == faults < MaxFaults /\ faults' = faults + 1

-----------------------------------------------------------------------------
(* recordBestEffort *)

SetCall(e, st) == call' = [call EXCEPT ![e] = st]

\* The event gets its id.
RecordBestEffort(e) ==
    /\ call[e] = "new"
    /\ SetCall(e, "insert")
    /\ UNCHANGED <<rows, stream, nextSid, appKeys, retry, trimmed, faults>>

Record(e) ==
    /\ call[e] = "insert"
    /\ e \notin Rejected
    /\ Insert(e)
    /\ SetCall(e, "done")
    /\ UNCHANGED <<stream, nextSid, appKeys, retry, trimmed, faults>>

\* insert() throws by itself ...
RecordRejected(e) ==
    /\ call[e] = "insert"
    /\ e \in Rejected
    /\ SetCall(e, "enqueue")
    /\ UNCHANGED <<rows, stream, nextSid, appKeys, retry, trimmed, faults>>

\* ... or the database call fails, possibly after the row was stored.
RecordFails(e) ==
    /\ call[e] = "insert"
    /\ e \notin Rejected
    /\ Fault
    /\ UNCHANGED rows \/ Insert(e)
    /\ SetCall(e, "enqueue")
    /\ UNCHANGED <<stream, nextSid, appKeys, retry, trimmed>>

Enqueue(e) ==
    /\ call[e] = "enqueue"
    /\ \/ Append(e, 1) /\ UNCHANGED faults
       \/ Append(e, 2) /\ Fault
    /\ SetCall(e, "queued")
    /\ UNCHANGED <<rows, appKeys, retry>>

\* Mutant: the call ends in a state of its own that nobody counts.
EnqueueFailsQuietly(e) ==
    /\ call[e] = "enqueue"
    /\ Fault
    /\ SetCall(e, "lost")
    /\ UNCHANGED <<rows, stream, nextSid, appKeys, retry, trimmed>>

\* The gap is logged; the XADD may have been executed.
EnqueueFails(e) ==
    /\ call[e] = "enqueue"
    /\ Fault
    /\ Append(e, 1) \/ UNCHANGED <<stream, nextSid, trimmed>>
    /\ SetCall(e, "gap")
    /\ UNCHANGED <<rows, appKeys, retry>>

-----------------------------------------------------------------------------
(* AuditRetryService.retry and AuditService.retryQueued *)

Stop(p) == retry' = [retry EXCEPT ![p] = IdleRetry]

\* The interval fires and no earlier run of this process is still going.
RetryTick(p) ==
    /\ retry[p] = IdleRetry
    /\ stream # {}
    /\ retry' = [retry EXCEPT ![p].batch = OldestOf(stream, Limit)]
    /\ UNCHANGED <<rows, stream, nextSid, appKeys, call, trimmed, faults>>

\* The next entry of the batch is recorded again ...
RetryInsert(p) ==
    /\ retry[p].cur = {}
    /\ \E x \in retry[p].batch :
         /\ IsFirst(x, retry[p].batch)
         /\ x.ev \notin Rejected
         /\ Insert(x.ev)
         /\ retry' = [retry EXCEPT ![p] = [batch |-> @.batch \ {x}, cur |-> {x}]]
    /\ UNCHANGED <<stream, nextSid, appKeys, call, trimmed, faults>>

\* ... or throws: the loop stops at the first error, and the rest of the batch
\* waits for the next run.
RetryRejected(p) ==
    /\ retry[p].cur = {}
    /\ \E x \in retry[p].batch : IsFirst(x, retry[p].batch) /\ x.ev \in Rejected
    /\ Stop(p)
    /\ UNCHANGED <<rows, stream, nextSid, appKeys, call, trimmed, faults>>

RetryInsertFails(p) ==
    /\ retry[p].cur = {}
    /\ Fault
    /\ \E x \in retry[p].batch :
         /\ IsFirst(x, retry[p].batch)
         /\ x.ev \notin Rejected
         /\ UNCHANGED rows \/ Insert(x.ev)
    /\ Stop(p)
    /\ UNCHANGED <<stream, nextSid, appKeys, call, trimmed>>

\* Mutant: the whole batch is acknowledged with its first entry.
AckBatch(p) ==
    /\ retry[p].cur # {}
    /\ stream' = stream \ (retry[p].cur \cup retry[p].batch)
    /\ Stop(p)
    /\ UNCHANGED <<rows, nextSid, appKeys, call, trimmed, faults>>

\* XDEL, and on to the next entry.
Ack(p) ==
    /\ retry[p].cur # {}
    /\ stream' = stream \ retry[p].cur
    /\ retry' = [retry EXCEPT ![p].cur = {}]
    /\ UNCHANGED <<rows, nextSid, appKeys, call, trimmed, faults>>

AckFails(p) ==
    /\ retry[p].cur # {}
    /\ Fault
    /\ stream' \in {stream, stream \ retry[p].cur}
    /\ Stop(p)
    /\ UNCHANGED <<rows, nextSid, appKeys, call, trimmed>>

-----------------------------------------------------------------------------
(* The environment. *)

\* Process p dies: its calls in progress and its batch are gone.
Crash(p) ==
    /\ Fault
    /\ call' = [e \in Event |->
                  IF Home[e] = p /\ call[e] \in {"insert", "enqueue"} THEN "died"
                                                                     ELSE call[e]]
    /\ retry' = [retry EXCEPT ![p] = IdleRetry]
    /\ UNCHANGED <<rows, stream, nextSid, appKeys, trimmed>>

\* Mutant: every key is deleted, the retry stream too.
FlushEverything ==
    /\ appKeys' = FALSE
    /\ stream' = {}
    /\ UNCHANGED <<rows, nextSid, call, retry, trimmed, faults>>

\* CacheService.flush, the administrator's cache purge: every key except those
\* that start with audit:.
Flush ==
    /\ appKeys
    /\ appKeys' = FALSE
    /\ UNCHANGED <<rows, stream, nextSid, call, retry, trimmed, faults>>

\* Any other component caches something.
CacheKey ==
    /\ ~appKeys
    /\ appKeys' = TRUE
    /\ UNCHANGED <<rows, stream, nextSid, call, retry, trimmed, faults>>

-----------------------------------------------------------------------------

CallStep(e) == Record(e) \/ RecordRejected(e) \/ Enqueue(e)

\* Mutant: a run that meets a rejected event waits for it forever.
RetryStepStuck(p) == RetryTick(p) \/ RetryInsert(p)

RetryStep(p) == RetryTick(p) \/ RetryInsert(p) \/ RetryRejected(p) \/ Ack(p)

Next ==
    \/ \E e \in Event : \/ RecordBestEffort(e) \/ CallStep(e)
                        \/ RecordFails(e) \/ EnqueueFails(e)
    \/ \E p \in Process : \/ RetryStep(p)
                          \/ RetryInsertFails(p) \/ AckFails(p) \/ Crash(p)
    \/ Flush \/ CacheKey

Spec == Init /\ [][Next]_vars

\* Calls return or throw, and the interval keeps firing in every process.
FairSpec == /\ Spec
            /\ \A e \in Event : WF_vars(CallStep(e))
            /\ \A p \in Process : WF_vars(RetryStep(p))

-----------------------------------------------------------------------------
(* Properties. *)

\* An event is stored at most once, although its insert may have succeeded
\* before it was queued, its entry may be in the stream twice, and several
\* processes may replay it at the same time.
StoredAtMostOnce == \A e \in Event : rows[e] <= 1

\* A call that ended by queueing its event lost nothing: the event is in the
\* table or in the stream, unless MAXLEN pushed it out.
NoSilentLoss ==
    \A e \in Event : call[e] = "queued" => rows[e] > 0 \/ Queued(e) \/ e \in trimmed

\* An entry is acknowledged only after its event is stored.
AckFollowsInsert ==
    [][\A x \in stream \ stream' : rows'[x.ev] > 0 \/ x.ev \in trimmed']_vars

\* A queued event with no rejected event before it in the stream gets stored,
\* across failures and crashes, unless an overflow pushes it out; a rejected one
\* holds up only what is behind it.
InFront(e) == \E x \in stream : /\ x.ev = e
                                /\ \A y \in stream : y.sid <= x.sid => y.ev \notin Rejected
FrontIsStored == \A e \in Event : InFront(e) ~> rows[e] > 0 \/ e \in trimmed

\* The abstract log.
Fate(e) ==
    IF rows[e] > 0          THEN "stored"
    ELSE IF Queued(e)       THEN "waiting"
    ELSE IF e \in trimmed   THEN "trimmed"
    ELSE IF call[e] = "gap"  THEN "reported"
    ELSE IF call[e] = "died" THEN "died"
    ELSE "new"

fates == [e \in Event |-> Fate(e)]

Log == INSTANCE AuditLog WITH status <- fates

\* Delivery implements the log: no event leaves the table, none leaves the
\* queue unstored, none is lost without a report or a crash.
ImplementsLog == Log!Spec
=============================================================================
