------------------------------ MODULE AuditLog ------------------------------
(***************************************************************************)
(* What best-effort audit recording promises of one event                  *)
(* (audit.service.ts, recordBestEffort and retryQueued): it is stored      *)
(* once and for good, or it waits to be stored, or it is lost in one of    *)
(* three ways that are told apart.  An event that waits is only ever lost  *)
(* because the queue overflowed.                                           *)
(***************************************************************************)
CONSTANT Event

VARIABLE status     \* the fate of each event so far

Status == {"new",       \* not recorded yet, or being recorded
           "waiting",   \* in the retry queue only
           "stored",    \* in the audit_event table
           "reported",  \* lost, and logged as a critical audit gap
           "died",      \* lost with the process that was recording it
           "trimmed"}   \* pushed out of the full retry queue

TypeOK == status \in [Event -> Status]

Init == status = [e \in Event |-> "new"]

\* The legal changes of one event's fate.
Moves == {<<"new", "waiting">>, <<"new", "stored">>, <<"new", "reported">>,
          <<"new", "died">>, <<"waiting", "stored">>, <<"waiting", "trimmed">>,
          <<"new", "trimmed">>,
          \* a retry job had read the entry before it was pushed out
          <<"trimmed", "stored">>}

Next == /\ status' \in [Event -> Status]
        /\ \A e \in Event :
             status'[e] # status[e] => <<status[e], status'[e]>> \in Moves

Spec == Init /\ [][Next]_status
=============================================================================
