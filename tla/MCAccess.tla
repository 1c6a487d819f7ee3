------------------------------ MODULE MCAccess ------------------------------
(***************************************************************************)
(* Users, their credentials and devices, and what administrators do and    *)
(* read.  The parts share no state that another changes: each is run with  *)
(* the others at rest.                                                     *)
(***************************************************************************)
EXTENDS Credentials, UserAccounts, PushDevices, AdminOperations, AuditExport, PagedQuery, TLC

CONSTANTS k1, j1, s1, a1

VARIABLE part

vars == <<credentialVars, userVars, pushVars, adminVars, exportVars, pagedVars, part>>

OneHolder == [c \in Credential |-> a1]

\* Of the credentials one is looked at in each behaviour.
InitAccess ==
    /\ part \in Credential \cup {"users", "push", "admin", "export", "pages"}
    /\ CredentialInit /\ UserInit /\ PushInit /\ AdminInit /\ ExportInit /\ PagedInit
    /\ part # k1 => permission[k1] = "none"
    /\ part \notin Credential => role[a1] = "user"
    /\ part # "users" => mailOf = CHOOSE f \in [Sub -> Email] : \A s, t \in Sub : f[s] = f[t] => s = t
    /\ part # "pages" => kind = "audit_event"

NextAccess ==
    /\ UNCHANGED part
    /\ \/ /\ part \in Credential /\ CredentialNext
          /\ \A r \in Request : request'[r].pc # "idle" => request'[r].cred = part
          /\ part # k1 => permission' = permission
          /\ UNCHANGED <<userVars, pushVars, adminVars, exportVars, pagedVars>>
       \/ /\ part = "users" /\ UserNext
          /\ UNCHANGED <<credentialVars, pushVars, adminVars, exportVars, pagedVars>>
       \/ /\ part = "push" /\ PushNext
          /\ UNCHANGED <<credentialVars, userVars, adminVars, exportVars, pagedVars>>
       \/ /\ part = "admin" /\ AdminNext
          /\ UNCHANGED <<credentialVars, userVars, pushVars, exportVars, pagedVars>>
       \/ /\ part = "export" /\ ExportNext
          /\ UNCHANGED <<credentialVars, userVars, pushVars, adminVars, pagedVars>>
       \/ /\ part = "pages" /\ PagedNext
          /\ UNCHANGED <<credentialVars, userVars, pushVars, adminVars, exportVars>>

SpecAccess == InitAccess /\ [][NextAccess]_vars

Interchangeable == Permutations(Request)
=============================================================================
