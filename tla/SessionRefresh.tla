--------------------------- MODULE SessionRefresh ---------------------------
(***************************************************************************)
(* Rotation of refresh tokens (supabase-auth.service.ts refreshSession,    *)
(* session.controller.ts refresh) for the sessions of one user.            *)
(*                                                                         *)
(* A session row holds one active token; refreshing replaces it in place   *)
(* and leaves two notes in Redis about the token rotated away: a grace     *)
(* note (30 s) that lets a retry get the same answer again, and a used     *)
(* note (as long as a refresh token lives) that tells a later reuse.       *)
(* A token number stands for the session token and the refresh token that  *)
(* are issued together; None stands for no token.                          *)
(***************************************************************************)
EXTENDS Integers, FiniteSets

CONSTANTS
    Session,      \* the user's devices, each with one session row
    Request,      \* refresh requests the server handles at the same time
    MaxInFlight,  \* bound: requests a device has in flight at the same time
    MaxToken,     \* bound: tokens issued
    MaxFaults     \* bound: failing calls and process crashes

ASSUME RefreshAssumption ==
    /\ Session # {}
    /\ IsFiniteSet(Request)
    /\ MaxInFlight \in Nat \ {0}
    /\ MaxToken \in Nat \ {0}
    /\ MaxFaults \in Nat

VARIABLES
    active,  \* the session table: the token of each session, None without a row
    expired, \* sessions past their refreshTokenExpiresAt
    grace,   \* refresh:grace: notes, the token issued for a rotated one
    used,    \* refresh:used: notes
    hand,    \* the token each device holds
    req,     \* the progress of each request
    next,    \* the next fresh token
    faults

vars == <<active, expired, grace, used, hand, req, next, faults>>

None  == 0
Token == None .. MaxToken
NoReq(s) == [pc |-> "idle", dev |-> s, tok |-> None, ses |-> s, new |-> None]

Pc == {"idle", "select", "grace", "used", "revoke", "update", "setGrace",
       "setUsed", "answer", "reject"}

TypeOK ==
    /\ active \in [Session -> Token]
    /\ expired \in SUBSET Session
    /\ grace \in [Token -> Token]
    /\ used \in SUBSET Token
    /\ hand \in [Session -> Token]
    /\ req \in [Request -> [pc : Pc, dev : Session, tok : Token,
                            ses : Session, new : Token]]
    /\ next \in 1 .. MaxToken + 1
    /\ faults \in 0 .. MaxFaults

Init ==
    /\ active = [s \in Session |-> None]
    /\ expired = {}
    /\ grace = [t \in Token |-> None]
    /\ used = {}
    /\ hand = [s \in Session |-> None]
    /\ req = [r \in Request |-> NoReq(CHOOSE s \in Session : TRUE)]
    /\ next = 1
    /\ faults = 0

InFlight(s) == {r \in Request : req[r].pc # "idle" /\ req[r].dev = s}
At(r, pc) == req[r].pc = pc
Goto(r, pc) == req' = [req EXCEPT ![r].pc = pc]
\* The bound on tokens: one is left for every request in flight and one more.
Spare == next + Cardinality({r \in Request : ~At(r, "idle")}) <= MaxToken

-----------------------------------------------------------------------------

\* exchangeSupabaseToken: a device without a usable session signs in.
Exchange(s) ==
    /\ Spare
    /\ active[s] = None \/ s \in expired
    /\ InFlight(s) = {}
    /\ active' = [active EXCEPT ![s] = next]
    /\ expired' = expired \ {s}
    /\ hand' = [hand EXCEPT ![s] = next]
    /\ next' = next + 1
    /\ UNCHANGED <<grace, used, req, faults>>

\* A device presents the token it holds, the first time or again.
Send(r, s) ==
    /\ At(r, "idle")
    /\ Spare
    /\ hand[s] # None
    /\ Cardinality(InFlight(s)) < MaxInFlight
    /\ req' = [req EXCEPT ![r] = [pc |-> "select", dev |-> s, tok |-> hand[s],
                                  ses |-> s, new |-> None]]
    /\ UNCHANGED <<active, expired, grace, used, hand, next, faults>>

\* Mutant: reuse is looked for before a retry is.
SelectReuseFirst(r) ==
    LET found == {s \in Session : active[s] = req[r].tok} IN
    /\ At(r, "select")
    /\ \/ /\ found = {}
          /\ Goto(r, "used")
       \/ \E s \in found :
            req' = [req EXCEPT ![r].ses = s,
                               ![r].pc = IF s \in expired THEN "reject" ELSE "update"]
    /\ UNCHANGED <<active, expired, grace, used, hand, next, faults>>

\* The session is looked up by its active token and its expiry checked.
Select(r) ==
    LET found == {s \in Session : active[s] = req[r].tok} IN
    /\ At(r, "select")
    /\ \/ /\ found = {}
          /\ Goto(r, "grace")
       \/ \E s \in found :
            req' = [req EXCEPT ![r].ses = s,
                               ![r].pc = IF s \in expired THEN "reject" ELSE "update"]
    /\ UNCHANGED <<active, expired, grace, used, hand, next, faults>>

\* A retry within the grace window gets the pair that was issued.
Grace(r) ==
    LET issued == grace[req[r].tok] IN
    /\ At(r, "grace")
    /\ IF issued # None
       THEN req' = [req EXCEPT ![r].pc = "answer", ![r].new = issued]
       ELSE Goto(r, "used")
    /\ UNCHANGED <<active, expired, grace, used, hand, next, faults>>

\* No retry: a token that was rotated away is being reused.
Used(r) ==
    /\ At(r, "used")
    /\ Goto(r, IF req[r].tok \in used THEN "revoke" ELSE "reject")
    /\ UNCHANGED <<active, expired, grace, used, hand, next, faults>>

\* Reuse: all sessions of the user are deleted.
Revoke(r) ==
    /\ At(r, "revoke")
    /\ active' = [s \in Session |-> None]
    /\ Goto(r, "reject")
    /\ UNCHANGED <<expired, grace, used, hand, next, faults>>

\* The row that was read is updated by its id: nothing if it was deleted
\* meanwhile, and whatever token it holds by now.
Update(r) ==
    LET s == req[r].ses IN
    /\ At(r, "update")
    /\ IF active[s] = None
       THEN UNCHANGED <<active, expired>>
       ELSE /\ active' = [active EXCEPT ![s] = next]
            /\ expired' = expired \ {s}
    /\ req' = [req EXCEPT ![r].new = next, ![r].pc = "setGrace"]
    /\ next' = next + 1
    /\ UNCHANGED <<grace, used, hand, faults>>

\* Mutant: the grace note is skipped, the used note alone is kept.
SetGraceSkipped(r) ==
    /\ At(r, "setGrace")
    /\ Goto(r, "answer")
    /\ UNCHANGED <<active, expired, grace, used, hand, next, faults>>

\* The note that lets a retry have the pair just issued.
SetGrace(r) ==
    /\ At(r, "setGrace")
    /\ grace' = [grace EXCEPT ![req[r].tok] = req[r].new]
    /\ Goto(r, "setUsed")
    /\ UNCHANGED <<active, expired, used, hand, next, faults>>

\* Mutant: the note is written for the token just issued.
SetUsedNew(r) ==
    /\ At(r, "setUsed")
    /\ used' = used \cup {req[r].new}
    /\ Goto(r, "answer")
    /\ UNCHANGED <<active, expired, grace, hand, next, faults>>

\* Mutant: the note is keyed by the session instead of the token.
SetUsedSession(r) ==
    /\ At(r, "setUsed")
    /\ used' = used \cup {req[r].ses}
    /\ Goto(r, "answer")
    /\ UNCHANGED <<active, expired, grace, hand, next, faults>>

\* The note that tells a later reuse, keyed by the token rotated away.
SetUsed(r) ==
    /\ At(r, "setUsed")
    /\ used' = used \cup {req[r].tok}
    /\ Goto(r, "answer")
    /\ UNCHANGED <<active, expired, grace, hand, next, faults>>

\* The answer arrives, or is lost on the way.
Answer(r) ==
    /\ At(r, "answer")
    /\ \/ hand' = [hand EXCEPT ![req[r].dev] = req[r].new]
       \/ UNCHANGED hand
    /\ req' = [req EXCEPT ![r] = NoReq(req[r].dev)]
    /\ UNCHANGED <<active, expired, grace, used, next, faults>>

\* An error is answered; the device keeps what it holds.
Reject(r) ==
    /\ At(r, "reject")
    /\ req' = [req EXCEPT ![r] = NoReq(req[r].dev)]
    /\ UNCHANGED <<active, expired, grace, used, hand, next, faults>>

-----------------------------------------------------------------------------

\* A database or Redis call throws, or the process dies: the request ends where
\* it is.
Fail(r) ==
    /\ req[r].pc \notin {"idle", "answer", "reject"}
    /\ faults < MaxFaults
    /\ faults' = faults + 1
    /\ Goto(r, "reject")
    /\ UNCHANGED <<active, expired, grace, used, hand, next>>

\* The 30 seconds of a grace note are over.
ExpireGrace(t) ==
    /\ grace[t] # None
    /\ grace' = [grace EXCEPT ![t] = None]
    /\ UNCHANGED <<active, expired, used, hand, req, next, faults>>

\* The refresh token of a session reaches refreshTokenExpiresAt.
ExpireRefresh(s) ==
    /\ active[s] # None /\ s \notin expired
    /\ expired' = expired \cup {s}
    /\ UNCHANGED <<active, grace, used, hand, req, next, faults>>

Handle(r) == \/ Select(r) \/ Grace(r) \/ Used(r) \/ Revoke(r) \/ Update(r)
             \/ SetGrace(r) \/ SetUsed(r) \/ Answer(r) \/ Reject(r)

Next ==
    \/ \E s \in Session : Exchange(s) \/ ExpireRefresh(s)
    \/ \E r \in Request : Handle(r) \/ Fail(r) \/ \E s \in Session : Send(r, s)
    \/ \E t \in Token : ExpireGrace(t)

Spec == Init /\ [][Next]_vars

-----------------------------------------------------------------------------
(* Properties. *)

\* A retry of a refresh whose grace note is there is never taken for reuse.
GraceIsNotReuse ==
    [][\A r \in Request : At(r, "revoke") /\ req'[r].pc = "reject"
         => grace[req[r].tok] = None]_vars

\* The active token of a session, and any token issued later, is never known as
\* used or as replaced, so its holder is never taken for a thief.
ActiveIsClean ==
    \A s \in Session : active[s] # None =>
        /\ active[s] \notin used
        /\ grace[active[s]] = None

\* Lost answers strand nobody: the token of a device whose session lives and
\* which waits for no answer is the active one, or can be exchanged for the
\* active one, or is recognised as used.
HandUsable ==
    \A s \in Session : active[s] # None /\ s \notin expired /\ InFlight(s) = {}
        => \/ hand[s] = active[s]
           \/ grace[hand[s]] = active[s]
           \/ hand[s] \in used
=============================================================================
