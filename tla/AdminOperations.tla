-------------------------- MODULE AdminOperations --------------------------
(***************************************************************************)
(* Privileged operations and the trail they leave (src/admin/admin.service *)
(* and the controllers of history, audit and API keys): an attempt is      *)
(* recorded, the operation takes effect, its result is recorded.  The      *)
(* records go to the audit_event table or the call fails: unlike the       *)
(* best-effort records of AuditDelivery they are never queued.             *)
(*                                                                         *)
(* An operation is described by the number of attempts it records, of its  *)
(* effects and of its results, by what it does when something throws, and  *)
(* by whether effect and result are one transaction.                       *)
(***************************************************************************)
EXTENDS Naturals, FiniteSets

CONSTANTS
    Caller,         \* calls under way at one time
    MaxAdminFaults  \* bound: failures and crashes

ASSUME AdminAssumption == MaxAdminFaults \in Nat

VARIABLES
    call,       \* the progress of each call, and the events it stored
    adminFaults

adminVars == <<call, adminFaults>>

-----------------------------------------------------------------------------
(* The operations. *)

Audited   == [attempts |-> 1, effects |-> 1, results |-> 1,
              onError |-> "record", atomic |-> FALSE, mayDecline |-> FALSE]
Unguarded == [Audited EXCEPT !.onError = "throw"]
Plain     == [Unguarded EXCEPT !.attempts = 0]
InOneTx   == [Plain EXCEPT !.atomic = TRUE]

\* Role and ban, each recorded only if it changes, and set if it is given.
updateUser ==
    {[Audited EXCEPT !.attempts = m[1], !.effects = m[2], !.results = m[1]] :
       m \in {e \in (0 .. 2) \X (0 .. 2) : e[1] <= e[2]}}
deleteUser           == Audited
impersonateUser      == Audited
stopImpersonating    == Plain
createElevatedApiKey == Unguarded
createApiKey         == Plain
updateApiKey         == {InOneTx, [InOneTx EXCEPT !.attempts = 1]}
deleteApiKey         == InOneTx
resetApiKeyUsage     == InOneTx
triggerGtfsIngest    == [Audited EXCEPT !.onError = "swallow", !.mayDecline = TRUE]
flushCache           == Audited
sendTestNotification == Unguarded
sendServiceAlert     == [Unguarded EXCEPT !.effects = 2]
resolveLineAlert     == Unguarded
createDeviceLinkCode == Unguarded
backfill             == Audited
purge                == Audited
verifyArchive        == [Plain EXCEPT !.mayDecline = TRUE]
createOwnApiKey      == Plain
revokeOwnApiKey      == Plain

Operation ==
    updateUser \cup updateApiKey \cup
    {deleteUser, impersonateUser, stopImpersonating, createElevatedApiKey, createApiKey,
     deleteApiKey, resetApiKeyUsage, triggerGtfsIngest, flushCache, sendTestNotification,
     sendServiceAlert, resolveLineAlert, createDeviceLinkCode, backfill, purge,
     verifyArchive, createOwnApiKey, revokeOwnApiKey}

-----------------------------------------------------------------------------
NoCall == [pc |-> "idle", op |-> Audited, attempted |-> 0, done |-> 0,
           succeeded |-> 0, failed |-> 0, declined |-> FALSE, answer |-> "none", faults |-> 0]

AdminTypeOK ==
    /\ \A c \in Caller :
         /\ call[c].pc \in {"idle", "attempt", "effect", "result", "catch", "over"}
         /\ call[c].op \in Operation
         /\ call[c].attempted \in 0 .. 2 /\ call[c].done \in 0 .. 2
         /\ call[c].answer \in {"none", "ok", "declined", "error"}
    /\ adminFaults \in 0 .. MaxAdminFaults

AdminInit == call = [c \in Caller |-> NoCall] /\ adminFaults = 0

Step(c, new)  == call' = [call EXCEPT ![c] = new] /\ UNCHANGED adminFaults
Fails(c, new) == /\ adminFaults < MaxAdminFaults /\ adminFaults' = adminFaults + 1
                 /\ call' = [call EXCEPT ![c] = [new EXCEPT !.faults = @ + 1]]
Answer(k, a)  == [k EXCEPT !.pc = "over", !.answer = a]

\* Where a call goes when something throws inside its try block, if it has one.
Thrown(k) == IF k.op.onError = "throw" THEN Answer(k, "error") ELSE [k EXCEPT !.pc = "catch"]

BeginCall(c, op) ==
    /\ call[c].pc = "idle"
    /\ Step(c, [NoCall EXCEPT !.pc = IF op.attempts = 0 THEN "effect" ELSE "attempt", !.op = op])

\* recordAttempt: before the try block, so a failure ends the call.
RecordAttempt(c) ==
    LET k == call[c]
        next == [k EXCEPT !.attempted = @ + 1,
                          !.pc = IF @ = "attempt" /\ k.attempted + 1 = k.op.attempts
                                 THEN "effect" ELSE @]
    IN  /\ k.pc = "attempt"
        /\ \/ Step(c, next)
           \/ \E stored \in BOOLEAN :
                Fails(c, Answer(IF stored THEN next ELSE k, "error"))

\* Mutant: the effect of a transaction stays when its record fails.
TakeEffectOutsideTx(c) ==
    LET k == call[c]
        next == [k EXCEPT !.done = @ + 1]
    IN  /\ k.pc = "effect" /\ k.done < k.op.effects
        /\ \/ Step(c, next)
           \/ \E took \in BOOLEAN : Fails(c, Thrown(IF took THEN next ELSE k))

\* The operation itself, or its next part: better-auth, the tables, Redis or FCM.
\* One that throws may have taken effect.  In a transaction the result is
\* recorded with it, or neither is.
TakeEffect(c) ==
    LET k == call[c]
        next == [k EXCEPT !.done = @ + 1, !.succeeded = IF k.op.atomic THEN 1 ELSE @]
    IN  /\ k.pc = "effect" /\ k.done < k.op.effects
        /\ \/ Step(c, IF k.op.atomic THEN Answer(next, "ok") ELSE next)
           \/ \E took \in BOOLEAN : Fails(c, Thrown(IF took THEN next ELSE k))

\* The effects are done.  Ingestion and verification may then report that they
\* did not succeed, without throwing.
EffectsDone(c) ==
    LET k == call[c]
    IN  /\ k.pc = "effect" /\ k.done = k.op.effects
        /\ \E no \in IF k.op.mayDecline THEN BOOLEAN ELSE {FALSE} :
             Step(c, IF k.op.results = 0 THEN Answer(k, "ok")
                     ELSE [k EXCEPT !.pc = "result", !.declined = no])

\* record(), inside the try block: once for each attempt, or once.
RecordResult(c) ==
    LET k == call[c]
        next == IF k.declined THEN [k EXCEPT !.failed = @ + 1] ELSE [k EXCEPT !.succeeded = @ + 1]
        last == k.succeeded + k.failed + 1 >= k.op.results
    IN  /\ k.pc = "result"
        /\ \/ Step(c, IF last THEN Answer(next, IF k.declined THEN "declined" ELSE "ok") ELSE next)
           \/ \E stored \in BOOLEAN : Fails(c, Thrown(IF stored THEN next ELSE k))

\* recordFailedAttempts: every attempt is recorded as failed, whatever took effect
\* or was recorded before; then the error is thrown on, or for an ingestion
\* returned as an unsuccessful result.
RecordFailure(c) ==
    LET k == call[c]
        over == Answer(k, IF k.op.onError = "swallow" THEN "declined" ELSE "error")
    IN  /\ k.pc = "catch"
        /\ \/ Step(c, IF k.op.attempts = 0 THEN over ELSE [over EXCEPT !.failed = k.op.attempts])
           \/ Fails(c, Answer(k, "error"))

CallCrash(c) ==
    /\ call[c].pc \notin {"idle", "over"} /\ Fails(c, [Answer(call[c], "error") EXCEPT !.faults = 1])

NextCall(c) == call[c].pc = "over" /\ Step(c, NoCall)

CallStep(c) ==
    \/ \E op \in Operation : BeginCall(c, op)
    \/ RecordAttempt(c) \/ TakeEffect(c) \/ EffectsDone(c)
    \/ RecordResult(c) \/ RecordFailure(c) \/ CallCrash(c) \/ NextCall(c)

AdminNext == \E c \in Caller : CallStep(c)

AdminSpec == AdminInit /\ [][AdminNext]_adminVars

-----------------------------------------------------------------------------
(* Properties. *)

\* What the trail says happened, happened, and what was answered is in the trail,
\* whatever fails or crashes on the way: nothing takes effect before all its
\* attempts are stored; a success is recorded only when all of the effects
\* took place, in a transaction exactly then; an answer of success has its
\* record; and one failure leaves no attempt without a result, where the
\* operation catches it.  (A recorded failure means less: the effect may have
\* taken place.)
TrailIsTrue ==
    \A c \in Caller :
      LET k == call[c]
      IN  /\ k.done > 0 => k.attempted >= k.op.attempts
          /\ k.succeeded > 0 => k.done = k.op.effects
          /\ k.op.atomic => (k.done > 0 <=> k.succeeded > 0)
          /\ k.answer = "ok" => k.succeeded >= k.op.results
          /\ k.pc = "over" /\ k.op.onError # "throw" /\ k.faults <= 1 /\ k.done > 0
             => k.succeeded + k.failed >= k.attempted
=============================================================================
