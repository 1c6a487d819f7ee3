---------------------------- MODULE AuditExport ----------------------------
(***************************************************************************)
(* Exports of the audit trail (src/audit/audit.export.service.ts): created *)
(* by a request, processed by the same process without anyone waiting, and *)
(* downloaded until they expire.                                           *)
(*                                                                         *)
(* Events come in three kinds: those an export asks for ("asked"), those   *)
(* that meet only the conditions process() applies, which leave out        *)
(* actorType, severity, source and the ids ("near"), and the others.       *)
(***************************************************************************)
EXTENDS Naturals, Sequences, FiniteSets

CONSTANTS
    Export,
    RowLimit,       \* of the query
    MaxEvents,      \* bound: events
    MaxExportFaults \* bound: failures and crashes

ASSUME ExportAssumption == RowLimit \in Nat /\ MaxEvents \in Nat /\ MaxExportFaults \in Nat

VARIABLES
    events,    \* audit_event by sequence: the kind of each
    export,    \* audit_export
    job,       \* process(): where it is and what it has read
    object,    \* the bucket: the positions each object holds
    exportFaults

exportVars == <<events, export, job, object, exportFaults>>

Position == 1 .. MaxEvents
Absent   == {0}
NoExport == [status |-> "none", rowCount |-> 0, hasKey |-> FALSE, fresh |-> FALSE, since |-> 0]
NoJob    == [pc |-> "idle", read |-> {}]

ExportTypeOK ==
    /\ events \in Seq({"asked", "near", "other"}) /\ Len(events) <= MaxEvents
    /\ export \in [Export -> [status : {"none", "attempted", "pending", "completed", "failed"},
                              rowCount : 0 .. RowLimit, hasKey : BOOLEAN, fresh : BOOLEAN,
                              since : 0 .. MaxEvents]]
    /\ job \in [Export -> [pc : {"idle", "select", "put", "update", "catch"},
                           read : SUBSET Position]]
    /\ object \in [Export -> (SUBSET Position) \cup {Absent}]
    /\ exportFaults \in 0 .. MaxExportFaults

ExportInit ==
    /\ events = <<>>
    /\ export = [x \in Export |-> NoExport] /\ job = [x \in Export |-> NoJob]
    /\ object = [x \in Export |-> Absent] /\ exportFaults = 0

ExportFault == exportFaults < MaxExportFaults /\ exportFaults' = exportFaults + 1

StoreEvent(k) ==
    /\ Len(events) < MaxEvents /\ events' = Append(events, k)
    /\ UNCHANGED <<export, job, object, exportFaults>>

\* create: the attempt is recorded, then the row inserted and the job started.
\* A call that fails in between leaves an attempt without an export.
RequestExport(x) ==
    /\ export[x].status = "none"
    /\ export' = [export EXCEPT ![x].status = "attempted"]
    /\ UNCHANGED <<events, job, object, exportFaults>>

CreateExport(x) ==
    /\ export[x].status = "attempted"
    /\ export' = [export EXCEPT ![x] = [@ EXCEPT !.status = "pending", !.since = Len(events)]]
    /\ job' = [job EXCEPT ![x].pc = "select"]
    /\ UNCHANGED <<events, object, exportFaults>>

\* The conditions of process.
Meets(i) == events[i] \in {"asked", "near"}

\* The first RowLimit (100 000) of the events that meet them, by sequence.
SelectEvents(x) ==
    LET met == {i \in DOMAIN events : Meets(i)}
    IN  /\ job[x].pc = "select"
        /\ job' = [job EXCEPT ![x] =
              [pc |-> "put", read |-> {i \in met : Cardinality({k \in met : k <= i}) <= RowLimit}]]
        /\ UNCHANGED <<events, export, object, exportFaults>>

PutObject(x) ==
    /\ job[x].pc = "put"
    /\ object' = [object EXCEPT ![x] = job[x].read]
    /\ job' = [job EXCEPT ![x].pc = "update"]
    /\ UNCHANGED <<events, export, exportFaults>>

\* Mutant: the row is completed before the object is there.
CompleteEarly(x) ==
    /\ job[x].pc \in {"put", "update"}
    /\ export' = [export EXCEPT ![x] = [@ EXCEPT !.status = "completed", !.hasKey = TRUE,
                                         !.fresh = TRUE, !.rowCount = Cardinality(job[x].read)]]
    /\ job' = [job EXCEPT ![x].pc = IF @ = "put" THEN "put" ELSE "idle"]
    /\ UNCHANGED <<events, object, exportFaults>>

\* It expires a day later.
Complete(x) ==
    /\ job[x].pc = "update"
    /\ export' = [export EXCEPT ![x] = [@ EXCEPT !.status = "completed", !.hasKey = TRUE,
                                         !.fresh = TRUE, !.rowCount = Cardinality(job[x].read)]]
    /\ job' = [job EXCEPT ![x] = NoJob]
    /\ UNCHANGED <<events, object, exportFaults>>

\* A statement or the upload fails, after it took effect or before.
ProcessFails(x) ==
    /\ job[x].pc \in {"select", "put", "update"} /\ ExportFault
    /\ \/ UNCHANGED <<export, object>>
       \/ job[x].pc = "put" /\ object' = [object EXCEPT ![x] = job[x].read] /\ UNCHANGED export
       \/ /\ job[x].pc = "update" /\ UNCHANGED object
          /\ export' = [export EXCEPT ![x] = [@ EXCEPT !.status = "completed", !.hasKey = TRUE,
                                               !.fresh = TRUE, !.rowCount = Cardinality(job[x].read)]]
    /\ job' = [job EXCEPT ![x].pc = "catch"]
    /\ UNCHANGED events

\* The catch block: what an update set before stays, apart from the status.
MarkExportFailed(x) ==
    /\ job[x].pc = "catch"
    /\ export' = [export EXCEPT ![x].status = "failed"]
    /\ job' = [job EXCEPT ![x] = NoJob]
    /\ UNCHANGED <<events, object, exportFaults>>

\* The process dies, or the update of the catch block fails: nothing takes the
\* export up again.
ExportDies(x) ==
    /\ job[x].pc # "idle" /\ ExportFault
    /\ job' = [job EXCEPT ![x] = NoJob]
    /\ UNCHANGED <<events, export, object>>

ExportExpires(x) ==
    /\ export[x].fresh /\ export' = [export EXCEPT ![x].fresh = FALSE]
    /\ UNCHANGED <<events, job, object, exportFaults>>

\* get answers with a link, and download with the object, only under these.
Downloadable(x) == export[x].status = "completed" /\ export[x].hasKey /\ export[x].fresh

ExportNext ==
    \/ \E k \in {"asked", "near", "other"} : StoreEvent(k)
    \/ \E x \in Export :
         \/ RequestExport(x) \/ CreateExport(x) \/ SelectEvents(x) \/ PutObject(x) \/ Complete(x)
         \/ ProcessFails(x) \/ MarkExportFailed(x) \/ ExportDies(x) \/ ExportExpires(x)

ExportSpec == ExportInit /\ [][ExportNext]_exportVars

-----------------------------------------------------------------------------
(* Properties. *)

\* What can be downloaded is there, has as many rows as its row says, and holds
\* every event asked for that was stored when the export was, unless the limit
\* was reached, whatever failed and whatever was stored meanwhile
\* (AuditExportService.get, download and process).
DownloadIsWhole ==
    \A x \in Export :
      Downloadable(x) =>
        /\ object[x] # Absent /\ Cardinality(object[x]) = export[x].rowCount
        /\ export[x].rowCount < RowLimit =>
             {i \in 1 .. export[x].since : events[i] = "asked"} \subseteq object[x]
=============================================================================
