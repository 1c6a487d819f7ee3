---------------------------- MODULE Credentials ----------------------------
(***************************************************************************)
(* What a request is admitted with (src/auth): an API key, a Supabase      *)
(* access token or the token of a first-party session, each verified       *)
(* against the tables and the verdict kept in Redis for a while, so that   *)
(* what administrators and users change meanwhile is noticed late.         *)
(*                                                                         *)
(* The entries are never dropped early: those of API keys are stored under *)
(* the key as it was presented, and deleted under the hash in the table.   *)
(* Time passes in ticks of the shortest of the lifetimes, ten seconds,     *)
(* within which a request is answered.                                     *)
(***************************************************************************)
EXTENDS Integers, FiniteSets, FiniteSetsExt

CONSTANTS
    ApiKeys, Jwts, Sessions,  \* credentials of each kind
    Account,                  \* users
    Holder,                   \* the user of each credential
    Request,                  \* requests at one time
    KeyTtl, RefusedTtl, BearerTtl,  \* in ticks
    MaxChanges                \* bound: changes by administrators and users

Credential == ApiKeys \cup Jwts \cup Sessions

ASSUME CredentialAssumption ==
    /\ ApiKeys \cap Jwts = {} /\ ApiKeys \cap Sessions = {} /\ Jwts \cap Sessions = {}
    /\ Holder \in [Credential -> Account]
    /\ KeyTtl \in Nat \ {0} /\ RefusedTtl \in Nat \ {0} /\ BearerTtl \in Nat \ {0}
    /\ MaxChanges \in Nat

VARIABLES
    role,       \* users.role
    banned,     \* users.banned
    permission, \* of the rows of api_key that are enabled, "none" for the others
    live,       \* rows of session that have not expired
    cached,     \* apiKey:verify:*, auth:bearer:* and session:user-full:*
    request,
    changes

credentialVars == <<role, banned, permission, live, cached, request, changes>>

Verdict == {"none", "user", "admin", "banned"}

\* What the tables say: better-auth of an API key, ...
VerifyApiKey(k) == permission[k]

\* ... of the user known by the sub of a Supabase token, ...
AuthenticateBearerToken(t) == IF banned[Holder[t]] THEN "banned" ELSE role[Holder[t]]

\* ... and of the user of a session, of whom a ban is not asked.
GetUserFromSession(s) == IF s \in live THEN role[Holder[s]] ELSE "none"

Verify(c) == CASE c \in ApiKeys  -> VerifyApiKey(c)
               [] c \in Jwts     -> AuthenticateBearerToken(c)
               [] c \in Sessions -> GetUserFromSession(c)

\* How long a verdict is kept; for a bearer token "none" is not.
Ttl(c, v) == IF c \notin ApiKeys THEN IF v = "none" THEN 0 ELSE BearerTtl
             ELSE IF v = "none" THEN RefusedTtl ELSE KeyTtl

ApiKeyGuard(v)   == v \in {"user", "admin"}
AdminGuard(c, v) == c \notin ApiKeys /\ v = "admin"
\* RolesGuard("admin"), after one of the two.
RolesGuard(v)    == v = "admin"

Waiting == [pc |-> "idle", cred |-> CHOOSE c \in Credential : TRUE,
            verdict |-> "none", ago |-> 0, held |-> FALSE]
Horizon == Max({KeyTtl, RefusedTtl, BearerTtl}) + 2
NoEntry == [verdict |-> "none", left |-> 0, ago |-> 0]

CredentialTypeOK ==
    /\ role \in [Account -> {"user", "admin"}] /\ banned \in [Account -> BOOLEAN]
    /\ permission \in [ApiKeys -> {"none", "user", "admin"}] /\ live \subseteq Sessions
    /\ cached \in [Credential -> [verdict : Verdict, left : 0 .. Horizon, ago : 0 .. Horizon]]
    /\ \A r \in Request : request[r].pc \in {"idle", "verify", "store", "answered"}
    /\ changes \in 0 .. MaxChanges

CredentialInit ==
    /\ role \in [Account -> {"user", "admin"}]
    /\ banned = [u \in Account |-> FALSE]
    /\ permission \in [ApiKeys -> {"none", "user", "admin"}] /\ live = Sessions
    /\ cached = [c \in Credential |-> NoEntry]
    /\ request = [r \in Request |-> Waiting]
    /\ changes = 0

-----------------------------------------------------------------------------
(* A request. *)

\* Mutant: a hit prolongs the life of its entry.
LookUpSliding(r, c) ==
    LET e == cached[c]
    IN  /\ request[r].pc = "idle"
        /\ request' = [request EXCEPT ![r] =
              [Waiting EXCEPT !.pc = IF e.left > 0 THEN "answered" ELSE "verify",
                              !.cred = c, !.verdict = e.verdict, !.ago = e.ago]]
        /\ cached' = [cached EXCEPT ![c].left = IF @ > 0 THEN Ttl(c, e.verdict) ELSE 0]
        /\ UNCHANGED <<role, banned, permission, live, changes>>

\* A credential arrives and its entry is looked up.
LookUp(r, c) ==
    LET e == cached[c]
    IN  /\ request[r].pc = "idle"
        /\ request' = [request EXCEPT ![r] =
              [Waiting EXCEPT !.pc = IF e.left > 0 THEN "answered" ELSE "verify",
                              !.cred = c, !.verdict = e.verdict, !.ago = e.ago]]
        /\ UNCHANGED <<role, banned, permission, live, cached, changes>>

\* The tables are asked.  A bearer token that is none of the two kinds is
\* refused at once.
VerifyStep(r) ==
    LET c == request[r].cred
        v == Verify(c)
    IN  /\ request[r].pc = "verify"
        /\ request' = [request EXCEPT ![r].verdict = v, ![r].ago = 0,
                                      ![r].pc = IF Ttl(c, v) = 0 THEN "answered" ELSE "store"]
        /\ UNCHANGED <<role, banned, permission, live, cached, changes>>

\* The verdict is kept and the request answered.
Store(r) ==
    LET c == request[r].cred
        v == request[r].verdict
    IN  /\ request[r].pc = "store"
        /\ cached' = [cached EXCEPT ![c] = [verdict |-> v, left |-> Ttl(c, v), ago |-> request[r].ago]]
        /\ request' = [request EXCEPT ![r].pc = "answered"]
        /\ UNCHANGED <<role, banned, permission, live, changes>>

Answered(r) ==
    /\ request[r].pc = "answered"
    /\ request' = [request EXCEPT ![r] = Waiting]
    /\ UNCHANGED <<role, banned, permission, live, cached, changes>>

\* Redis or Postgres fails, and so does the request.
RequestFails(r) ==
    /\ request[r].pc \in {"verify", "store"}
    /\ request' = [request EXCEPT ![r] = Waiting]
    /\ UNCHANGED <<role, banned, permission, live, cached, changes>>

\* For how long a verdict that is held has not been what the tables say.
Aged(e, c) == [e EXCEPT !.ago = IF e.verdict = Verify(c) THEN 0 ELSE Min({@ + 1, Horizon})]

\* A tick: requests that were under way at the last one have ended.
CredentialTick ==
    /\ \A r \in Request : request[r].pc # "idle" => ~request[r].held
    /\ request' = [r \in Request |->
                     IF request[r].pc = "idle" THEN Waiting
                     ELSE [Aged(request[r], request[r].cred) EXCEPT !.held = TRUE]]
    /\ cached' = [c \in Credential |->
                    IF cached[c].left > 1 THEN [Aged(cached[c], c) EXCEPT !.left = @ - 1]
                    ELSE NoEntry]
    /\ UNCHANGED <<role, banned, permission, live, changes>>

-----------------------------------------------------------------------------
(* What changes the tables. *)

Change == changes < MaxChanges /\ changes' = changes + 1

\* revokeApiKey, revokeApiKeyAdmin, updateApiKey and deleteApiKey; the entry
\* they delete, if any, is not the one verifyApiKey reads.
SetKey(k, p) ==
    /\ permission[k] # p /\ Change
    /\ permission' = [permission EXCEPT ![k] = p]
    /\ UNCHANGED <<role, banned, live, cached, request>>

\* setRole
SetRole(u, new) ==
    /\ role[u] # new /\ Change
    /\ role' = [role EXCEPT ![u] = new]
    /\ UNCHANGED <<banned, permission, live, cached, request>>

\* banUser, which ends the sessions of the user, and unbanUser.
SetBanned(u) ==
    LET stops == ~banned[u]
    IN  /\ Change
        /\ banned' = [banned EXCEPT ![u] = stops]
        /\ live' = IF stops THEN {s \in live : Holder[s] # u} ELSE live
        /\ UNCHANGED <<role, permission, cached, request>>

\* A session expires, is revoked, or is rotated away; the entry deleted then
\* (session:user:*) is not the one that is read.
EndSession(s) ==
    /\ s \in live /\ Change
    /\ live' = live \ {s}
    /\ UNCHANGED <<role, banned, permission, cached, request>>

CredentialNext ==
    \/ \E r \in Request, c \in Credential : LookUp(r, c)
    \/ \E r \in Request : VerifyStep(r) \/ Store(r) \/ Answered(r) \/ RequestFails(r)
    \/ CredentialTick
    \/ \E k \in ApiKeys, p \in {"none", "user", "admin"} : SetKey(k, p)
    \/ \E u \in Account, new \in {"user", "admin"} : SetRole(u, new)
    \/ \E u \in Account : SetBanned(u)
    \/ \E s \in Sessions : EndSession(s)

CredentialSpec == CredentialInit /\ [][CredentialNext]_credentialVars

-----------------------------------------------------------------------------
(* Properties. *)

\* A request is admitted, or refused, as the tables would have done at some time
\* within the lifetime of the entry and the duration of a request before its
\* answer: a revocation, ban or new role is noticed by then, whichever requests
\* were under way, and so is its reversal (verifyApiKey, resolveUserFromBearer).
NoticedInTime ==
    [][\A r \in Request :
         request[r].pc # "answered" /\ request'[r].pc = "answered"
         => LET c == request'[r].cred
                v == request'[r].verdict
                now == Verify(c)
            IN  \/ ApiKeyGuard(v) # ApiKeyGuard(now)
                \/ AdminGuard(c, v) # AdminGuard(c, now)
                \/ RolesGuard(v) # RolesGuard(now)
                => request'[r].ago <= Ttl(c, v)]_credentialVars
=============================================================================
