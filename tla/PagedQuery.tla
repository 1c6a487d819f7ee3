----------------------------- MODULE PagedQuery -----------------------------
(***************************************************************************)
(* Reading a growing table page by page, newest first, while rows come and *)
(* old ones are purged: the audit trail (AuditService.query, ordered by    *)
(* occurredAt and sequence) and the request log (AdminService.queryLogs,   *)
(* ordered by createdAt and id).  The cursor is the last row of a page.    *)
(*                                                                         *)
(* Time is counted in the ticks of Postgres, Tick of them to a millisecond.*)
(* The time of an audit event is a Date of the program, that of a logged   *)
(* request the default of its column; a cursor holds milliseconds.         *)
(***************************************************************************)
EXTENDS Integers, Sequences, SequencesExt, FiniteSets, FiniteSetsExt, Functions

CONSTANTS
    Tick,        \* ticks of Postgres in a millisecond
    LastInstant, \* bound: the clock
    RowKey,      \* ids of logged requests, or sequence numbers of events
    PageSize     \* limit of the query

ASSUME PagedAssumption ==
    Tick \in Nat \ {0} /\ LastInstant \in Nat /\ RowKey \subseteq Nat /\ PageSize \in Nat \ {0}

VARIABLES
    kind,     \* the table that is read
    instant,  \* the clock
    rows,     \* the table
    reader    \* the next cursor, the rows returned, and those there all the time

pagedVars == <<kind, instant, rows, reader>>

Row     == [time : 0 .. LastInstant, key : RowKey]
Start   == [time |-> LastInstant + 1, key |-> 0]
Before(r, c) == r.time < c.time \/ (r.time = c.time /\ r.key < c.key)
Millisecond(t) == t - (t % Tick)

\* auditEvent.occurredAt and sequence; requestLog.createdAt and id
Stored(k) == {r \in Row : k = "audit_event" => r.time % Tick = 0}

PagedTypeOK ==
    /\ kind \in {"audit_event", "request_log"} /\ instant \in 0 .. LastInstant
    /\ rows \subseteq Stored(kind)
    /\ reader.pc \in {"reading", "done"} /\ reader.stayed \subseteq rows

PagedInit ==
    /\ kind \in {"audit_event", "request_log"} /\ instant = 0 /\ rows = {}
    /\ reader = [pc |-> "done", cursor |-> Start, shown |-> <<>>, cursors |-> {}, stayed |-> {}]

PassInstant ==
    /\ instant < LastInstant /\ instant' = instant + 1
    /\ UNCHANGED <<kind, rows, reader>>

\* insert, persistLog.  A row may be stored after its time; sequence numbers grow.
InsertRow(r) ==
    /\ r \in Stored(kind) /\ r.time <= instant
    /\ \A other \in rows : other.key # r.key
    /\ kind = "audit_event" => \A other \in rows : other.key < r.key
    /\ rows' = rows \cup {r}
    /\ UNCHANGED <<kind, instant, reader>>

\* purgeExpiredRequestLogs takes a batch of the oldest rows; so does, with all
\* the events of a month, the purge of AuditArchive.
PurgeOldest(r) ==
    /\ r \in rows /\ \A other \in rows : r.time <= other.time
    /\ rows' = rows \ {r} /\ reader' = [reader EXCEPT !.stayed = @ \ {r}]
    /\ UNCHANGED <<kind, instant>>

\* A request without cursor.
FirstPage ==
    /\ reader.pc = "done"
    /\ reader' = [pc |-> "reading", cursor |-> Start, shown |-> <<>>, cursors |-> {},
                  stayed |-> rows]
    /\ UNCHANGED <<kind, instant, rows>>

\* Mutant: the condition on the key is left out.
PageByTime(c) == {r \in rows : r.time < c.time}

\* queryConditions: rows that come after the cursor, ...
Page(c) == {r \in rows : Before(r, c)}

\* ... and the one sequence of them that is newest first.
NewestFirst(S) == {s \in SetToSeqs(S) : \A i, k \in DOMAIN s : i < k => Before(s[k], s[i])}

\* encodeCursor, encodeRequestLogCursor: Date.toISOString.
CursorOf(r) == [r EXCEPT !.time = Millisecond(@)]

\* A page, and the cursor of the next one if a row more than asked for was there.
NextPage(page) ==
    LET data == SubSeq(page, 1, Min({PageSize, Len(page)}))
        more == Len(page) > PageSize
        next == CursorOf(Last(data))
    IN  /\ reader.pc = "reading"
        /\ reader' = [reader EXCEPT !.shown = @ \o data,
                        !.pc = IF more THEN @ ELSE "done",
                        !.cursor = IF more THEN next ELSE @,
                        !.cursors = IF more THEN @ \cup {next} ELSE @]
        /\ UNCHANGED <<kind, instant, rows>>

PagedNext ==
    \/ PassInstant
    \/ \E r \in Row : InsertRow(r) \/ PurgeOldest(r)
    \/ FirstPage
    \/ \E page \in NewestFirst(Page(reader.cursor)) : NextPage(page)

PagedSpec == PagedInit /\ [][PagedNext]_pagedVars

-----------------------------------------------------------------------------
(* Properties. *)

\* Rows that share their millisecond with the last row of a page of the request
\* log, and come after it, are those the next page misses.
Skipped == {r \in rows : kind = "request_log" /\
              \E c \in reader.cursors : Millisecond(r.time) = c.time}

\* Whatever is stored or purged between two pages, no row is returned twice, and
\* when the last page has come every row that was there from the first page on
\* was returned, except for the request log those of Skipped.
PagesComplete ==
    /\ \A i \in 1 .. Len(reader.shown) - 1 : Before(reader.shown[i + 1], reader.shown[i])
    /\ reader.pc = "done" => reader.stayed \subseteq Range(reader.shown) \cup Skipped
=============================================================================
