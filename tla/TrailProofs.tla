----------------------------- MODULE TrailProofs -----------------------------
(***************************************************************************)
(* What an administrator may rely on.  The trail of the privileged         *)
(* operations is true whatever fails, for any number of callers and of     *)
(* failures; an export that is offered is whole, for any number of exports *)
(* and processes; and whoever follows the cursors to the end has seen      *)
(* every row that was there all the while, but those a cursor skips for    *)
(* being of its millisecond.                                               *)
(***************************************************************************)
EXTENDS AdminOperations, AuditExport, PagedQuery, FiniteSetTheorems, WellFoundedInduction, TLAPS

-----------------------------------------------------------------------------
(* The trail of an operation. *)

\* What an operation may look like.
Shape == [attempts : 0 .. 2, effects : 0 .. 2, results : 0 .. 2,
          onError : {"record", "throw", "swallow"}, atomic : BOOLEAN, mayDecline : BOOLEAN]

\* A transaction is one effect with one record and no try block; a try block
\* leads to as many results as there were attempts.
Sound(op) ==
    /\ op \in Shape
    /\ op.atomic => op.effects = 1 /\ op.results = 1 /\ op.onError = "throw"
    /\ op.onError # "throw" => op.results = op.attempts

Call == [pc : {"idle", "attempt", "effect", "result", "catch", "over"}, op : Operation,
         attempted : Nat, done : Nat, succeeded : Nat, failed : Nat, declined : BOOLEAN,
         answer : {"none", "ok", "declined", "error"}, faults : Nat]

\* How far a call has come, by its pc.
Progress(k) ==
    /\ k.attempted <= k.op.attempts /\ k.done <= k.op.effects
    /\ k.pc = "idle"    => k = NoCall
    /\ k.pc = "attempt" => k.attempted < k.op.attempts /\ k.done = 0
    /\ k.pc \in {"effect", "result", "catch"} => k.attempted = k.op.attempts
    /\ k.pc \in {"attempt", "effect"} => k.succeeded = 0 /\ k.failed = 0
    /\ k.pc \in {"attempt", "effect", "result"} => k.faults = 0
    /\ k.pc = "effect" /\ k.op.atomic => k.done = 0
    /\ k.pc = "result" =>
         /\ k.done = k.op.effects /\ ~k.op.atomic
         /\ IF k.declined THEN k.succeeded = 0 ELSE k.failed = 0
    /\ k.pc = "catch" => k.op.onError # "throw" /\ ~k.op.atomic /\ k.faults = 1
    /\ k.pc \in {"attempt", "effect", "result", "catch"} => k.answer = "none"

\* TrailIsTrue, of one call.
Trail(k) ==
    /\ k.done > 0 => k.attempted >= k.op.attempts
    /\ k.succeeded > 0 => k.done = k.op.effects
    /\ k.op.atomic => (k.done > 0 <=> k.succeeded > 0)
    /\ k.answer = "ok" => k.succeeded >= k.op.results
    /\ k.pc = "over" /\ k.op.onError # "throw" /\ k.faults <= 1 /\ k.done > 0
       => k.succeeded + k.failed >= k.attempted

Good(k) == k \in Call /\ Progress(k) /\ Trail(k)

AdminInv ==
    /\ call \in [Caller -> Call] /\ adminFaults \in 0 .. MaxAdminFaults
    /\ \A c \in Caller : Good(call[c])

LEMMA OperationsSound == \A op \in Operation : Sound(op)
  <1> DEFINE Is(op, attempts, effects, onError, atomic) ==
               /\ op \in Shape /\ op.attempts = attempts /\ op.effects = effects
               /\ op.results = 1 /\ op.onError = onError /\ op.atomic = atomic
  <1>1. Is(Audited, 1, 1, "record", FALSE)
    BY DEF Audited, Shape
  <1>2. Is(Unguarded, 1, 1, "throw", FALSE)
    BY <1>1 DEF Unguarded, Shape
  <1>3. Is(Plain, 0, 1, "throw", FALSE)
    BY <1>2 DEF Plain, Shape
  <1>4. Is(InOneTx, 0, 1, "throw", TRUE)
    BY <1>3 DEF InOneTx, Shape
  <1>5. Sound(Audited) /\ Sound(Unguarded) /\ Sound(Plain) /\ Sound(InOneTx)
    BY <1>1, <1>2, <1>3, <1>4 DEF Sound
  <1>6. \A op \in updateUser : Sound(op)
    <2> SUFFICES ASSUME NEW m \in (0 .. 2) \X (0 .. 2)
                 PROVE  Sound([Audited EXCEPT !.attempts = m[1], !.effects = m[2], !.results = m[1]])
      BY DEF updateUser
    <2>1. m[1] \in 0 .. 2 /\ m[2] \in 0 .. 2
      OBVIOUS
    <2> QED BY <1>1, <2>1 DEF Sound, Shape
  <1>7. \A op \in updateApiKey : Sound(op)
    <2>1. Is([InOneTx EXCEPT !.attempts = 1], 1, 1, "throw", TRUE)
      BY <1>4 DEF Shape
    <2> QED BY <1>5, <2>1 DEF updateApiKey, Sound
  <1>8. Sound(triggerGtfsIngest)
    BY <1>1 DEF triggerGtfsIngest, Sound, Shape
  <1>9. Sound(sendServiceAlert)
    BY <1>2 DEF sendServiceAlert, Sound, Shape
  <1>10. Sound(verifyArchive)
    BY <1>3 DEF verifyArchive, Sound, Shape
  <1> QED BY <1>5, <1>6, <1>7, <1>8, <1>9, <1>10
       DEF Operation, deleteUser, impersonateUser, stopImpersonating, createElevatedApiKey,
           createApiKey, deleteApiKey, resetApiKeyUsage, flushCache, sendTestNotification,
           resolveLineAlert, createDeviceLinkCode, backfill, purge, createOwnApiKey, revokeOwnApiKey

LEMMA NoCallGood == Good(NoCall)
  <1>1. Audited \in Operation
    BY DEF Operation, deleteUser
  <1>2. Audited.attempts = 1 /\ Audited.effects = 1 /\ ~Audited.atomic
    BY DEF Audited
  <1> QED BY <1>1, <1>2 DEF Good, Call, NoCall, Progress, Trail

\* A call that goes on, or fails, to a good call keeps the invariant.
LEMMA StepKeeps ==
    ASSUME AdminInv, NEW c \in Caller, NEW new, Good(new), Step(c, new)
    PROVE  AdminInv'
  BY DEF AdminInv, Step, Good

LEMMA FailsKeeps ==
    ASSUME AdminInv, NEW c \in Caller, NEW new, Good([new EXCEPT !.faults = @ + 1]), Fails(c, new)
    PROVE  AdminInv'
  BY AdminAssumption DEF AdminInv, Fails, Good

\* The operation of a call, and what its types say.
LEMMA CallFacts ==
    ASSUME NEW k, Good(k)
    PROVE  /\ k \in Call /\ k.op \in Operation /\ Sound(k.op)
           /\ k.op.attempts \in 0 .. 2 /\ k.op.effects \in 0 .. 2 /\ k.op.results \in 0 .. 2
           /\ k.op.atomic \in BOOLEAN /\ k.declined \in BOOLEAN
           /\ k.attempted \in Nat /\ k.done \in Nat /\ k.succeeded \in Nat
           /\ k.failed \in Nat /\ k.faults \in Nat
  <1>1. k \in Call /\ k.op \in Operation
    BY DEF Good, Call
  <1>2. Sound(k.op)
    BY <1>1, OperationsSound
  <1>3. k.op \in Shape
    BY <1>2 DEF Sound
  <1> QED BY <1>1, <1>2, <1>3 DEF Call, Shape

LEMMA BeginCallPreserves ==
    ASSUME AdminInv, NEW c \in Caller, NEW op \in Operation, BeginCall(c, op)
    PROVE  AdminInv'
  <1> DEFINE new == [NoCall EXCEPT !.pc = IF op.attempts = 0 THEN "effect" ELSE "attempt", !.op = op]
  <1>1. op.attempts \in 0 .. 2 /\ op.effects \in 0 .. 2 /\ Sound(op)
    BY OperationsSound DEF Sound, Shape
  <1>2. NoCall \in Call
    BY NoCallGood DEF Good
  <1>3. Good(new)
    <2>1. /\ new \in Call /\ new.op = op
          /\ new.pc = IF op.attempts = 0 THEN "effect" ELSE "attempt"
          /\ new.attempted = NoCall.attempted /\ new.done = NoCall.done
          /\ new.succeeded = NoCall.succeeded /\ new.failed = NoCall.failed
          /\ new.answer = NoCall.answer /\ new.faults = NoCall.faults
      BY <1>2 DEF Call
    <2>2. /\ NoCall.attempted = 0 /\ NoCall.done = 0 /\ NoCall.succeeded = 0
          /\ NoCall.failed = 0 /\ NoCall.answer = "none" /\ NoCall.faults = 0
      BY DEF NoCall
    <2> HIDE DEF new
    <2>3. Progress(new)
      BY <1>1, <2>1, <2>2 DEF Progress
    <2>4. Trail(new)
      BY <1>1, <2>1, <2>2 DEF Trail
    <2> QED BY <2>1, <2>3, <2>4 DEF Good
  <1> QED BY <1>3, StepKeeps DEF BeginCall

\* What an answer, and a fault, leave of a call.
LEMMA AnswerFields ==
    ASSUME NEW k \in Call, NEW a \in {"none", "ok", "declined", "error"}
    PROVE  LET x == Answer(k, a)
           IN  /\ x \in Call /\ x.pc = "over" /\ x.answer = a /\ x.op = k.op
               /\ x.attempted = k.attempted /\ x.done = k.done /\ x.succeeded = k.succeeded
               /\ x.failed = k.failed /\ x.faults = k.faults
  BY DEF Answer, Call

LEMMA FaultFields ==
    ASSUME NEW k \in Call
    PROVE  LET x == [k EXCEPT !.faults = @ + 1]
           IN  /\ x \in Call /\ x.pc = k.pc /\ x.answer = k.answer /\ x.op = k.op
               /\ x.attempted = k.attempted /\ x.done = k.done /\ x.succeeded = k.succeeded
               /\ x.failed = k.failed /\ x.faults = k.faults + 1 /\ x.declined = k.declined
  BY DEF Call

\* A call that failed for good is good if its effects and successes agree, and
\* no catch block was to record anything, or it fails for the second time.
LEMMA ErrorGood ==
    ASSUME NEW x \in Call, Sound(x.op), x.attempted <= x.op.attempts, x.done <= x.op.effects,
           x.done > 0 => x.attempted = x.op.attempts,
           x.succeeded > 0 => x.done = x.op.effects,
           x.op.atomic => (x.done > 0 <=> x.succeeded > 0),
           x.op.onError = "throw" \/ x.done = 0 \/ x.faults > 0
    PROVE  Good([Answer(x, "error") EXCEPT !.faults = @ + 1])
  <1> DEFINE a == Answer(x, "error")
             y == [a EXCEPT !.faults = @ + 1]
  <1>1. /\ a \in Call /\ a.pc = "over" /\ a.answer = "error" /\ a.op = x.op
        /\ a.attempted = x.attempted /\ a.done = x.done /\ a.succeeded = x.succeeded
        /\ a.failed = x.failed /\ a.faults = x.faults
    BY AnswerFields
  <1> HIDE DEF a
  <1>2. /\ y \in Call /\ y.pc = "over" /\ y.answer = "error" /\ y.op = x.op
        /\ y.attempted = x.attempted /\ y.done = x.done /\ y.succeeded = x.succeeded
        /\ y.failed = x.failed /\ y.faults = x.faults + 1
    BY <1>1, FaultFields
  <1> HIDE DEF y
  <1>3. x.attempted \in Nat /\ x.done \in Nat /\ x.succeeded \in Nat /\ x.faults \in Nat
          /\ x.op \in Operation
    BY DEF Call
  <1>4. x.op.attempts \in 0 .. 2 /\ x.op.effects \in 0 .. 2
    BY DEF Sound, Shape
  <1>5. Progress(y) /\ Trail(y)
    BY <1>2, <1>3, <1>4 DEF Progress, Trail
  <1>6. Good(y)
    BY <1>2, <1>5 DEF Good
  <1> QED BY <1>6 DEF y, a

\* A call whose exception is caught has its attempts still to answer for.
LEMMA CaughtGood ==
    ASSUME NEW x \in Call, Sound(x.op), ~x.op.atomic, x.op.onError # "throw",
           x.attempted = x.op.attempts, x.done <= x.op.effects,
           x.succeeded > 0 => x.done = x.op.effects, x.faults = 0, x.answer = "none"
    PROVE  Good([Thrown(x) EXCEPT !.faults = @ + 1])
  <1> DEFINE t == [x EXCEPT !.pc = "catch"]
             y == [t EXCEPT !.faults = @ + 1]
  <1>1. Thrown(x) = t
    BY DEF Thrown
  <1>2. /\ t \in Call /\ t.pc = "catch" /\ t.answer = x.answer /\ t.op = x.op
        /\ t.attempted = x.attempted /\ t.done = x.done /\ t.succeeded = x.succeeded
        /\ t.failed = x.failed /\ t.faults = x.faults
    BY DEF Call
  <1> HIDE DEF t
  <1>3. /\ y \in Call /\ y.pc = "catch" /\ y.answer = "none" /\ y.op = x.op
        /\ y.attempted = x.attempted /\ y.done = x.done /\ y.succeeded = x.succeeded
        /\ y.failed = x.failed /\ y.faults = 0 + 1
    BY <1>2, FaultFields
  <1> HIDE DEF y
  <1>4. x.op.attempts \in 0 .. 2 /\ x.op.effects \in 0 .. 2
    BY DEF Sound, Shape
  <1>5. Progress(y) /\ Trail(y)
    BY <1>3, <1>4 DEF Progress, Trail
  <1>6. Good(y)
    BY <1>3, <1>5 DEF Good
  <1> QED BY <1>1, <1>6 DEF y

-----------------------------------------------------------------------------
(* What the steps make of a good call is good. *)

Attempted(k) == [k EXCEPT !.attempted = @ + 1,
                          !.pc = IF @ = "attempt" /\ k.attempted + 1 = k.op.attempts
                                 THEN "effect" ELSE @]

LEMMA AttemptedType ==
    ASSUME NEW k \in Call, k.pc = "attempt"
    PROVE  Attempted(k) \in Call
  <1> DEFINE pc == IF k.pc = "attempt" /\ k.attempted + 1 = k.op.attempts THEN "effect" ELSE k.pc
  <1>1. pc \in {"attempt", "effect"}
    OBVIOUS
  <1>2. Attempted(k) = [k EXCEPT !.attempted = k.attempted + 1, !.pc = pc]
    BY DEF Attempted
  <1>3. k.attempted + 1 \in Nat
    BY DEF Call
  <1>4. \A n \in Nat, p \in {"attempt", "effect"} : [k EXCEPT !.attempted = n, !.pc = p] \in Call
    BY DEF Call
  <1> HIDE DEF pc
  <1> QED BY <1>1, <1>2, <1>3, <1>4

LEMMA AttemptedGood ==
    ASSUME NEW k, Good(k), k.pc = "attempt"
    PROVE  /\ Good(Attempted(k))
           /\ Good([Answer(Attempted(k), "error") EXCEPT !.faults = @ + 1])
           /\ Good([Answer(k, "error") EXCEPT !.faults = @ + 1])
  <1> DEFINE next == Attempted(k)
  <1>1. /\ k \in Call /\ k.op \in Operation /\ Sound(k.op) /\ k.op.atomic \in BOOLEAN
        /\ k.attempted \in Nat /\ k.op.attempts \in 0 .. 2 /\ k.op.effects \in 0 .. 2
    BY CallFacts
  <1>2. /\ k.attempted < k.op.attempts /\ k.done = 0 /\ k.succeeded = 0
        /\ k.failed = 0 /\ k.faults = 0 /\ k.answer = "none"
    BY DEF Good, Progress
  <1>3. next \in Call
    BY <1>1, AttemptedType
  <1>4. /\ next.op = k.op /\ next.attempted = k.attempted + 1
        /\ next.done = k.done /\ next.succeeded = k.succeeded /\ next.failed = k.failed
        /\ next.faults = k.faults /\ next.answer = k.answer
        /\ next.pc = IF k.attempted + 1 = k.op.attempts THEN "effect" ELSE "attempt"
    <2>1. k \in Call
      BY <1>1
    <2> QED BY <2>1 DEF Attempted, Call
  <1> HIDE DEF next
  <1>5. Good(next)
    BY <1>1, <1>2, <1>3, <1>4 DEF Good, Progress, Trail
  <1>6. Good([Answer(next, "error") EXCEPT !.faults = @ + 1])
    BY <1>1, <1>2, <1>3, <1>4, ErrorGood
  <1>7. Good([Answer(k, "error") EXCEPT !.faults = @ + 1])
    BY <1>1, <1>2, ErrorGood
  <1> QED BY <1>5, <1>6, <1>7 DEF next

\* An effect.
Effected(k) == [k EXCEPT !.done = @ + 1, !.succeeded = IF k.op.atomic THEN 1 ELSE @]

LEMMA EffectedGood ==
    ASSUME NEW k, Good(k), k.pc = "effect", k.done < k.op.effects
    PROVE  /\ Good(IF k.op.atomic THEN Answer(Effected(k), "ok") ELSE Effected(k))
           /\ \A x \in {k, Effected(k)} : Good([Thrown(x) EXCEPT !.faults = @ + 1])
  <1> DEFINE next == Effected(k)
  <1>1. /\ k \in Call /\ k.op \in Operation /\ Sound(k.op) /\ k.op.atomic \in BOOLEAN
        /\ k.op.attempts \in 0 .. 2 /\ k.op.effects \in 0 .. 2 /\ k.op.results \in 0 .. 2
        /\ k.done \in Nat
    BY CallFacts
  <1>2. /\ k.attempted = k.op.attempts /\ k.succeeded = 0
        /\ k.failed = 0 /\ k.faults = 0 /\ k.answer = "none"
        /\ k.op.atomic => k.done = 0
    BY DEF Good, Progress
  <1>3. next \in Call
    <2>1. \A n \in Nat, m \in Nat : [k EXCEPT !.done = n, !.succeeded = m] \in Call
      BY <1>1 DEF Call
    <2>2. k.done + 1 \in Nat /\ (IF k.op.atomic THEN 1 ELSE k.succeeded) \in Nat
      BY <1>1, <1>2
    <2> QED BY <2>1, <2>2 DEF Effected
  <1>4. /\ next.op = k.op /\ next.attempted = k.attempted /\ next.done = k.done + 1
        /\ next.failed = k.failed /\ next.pc = k.pc
        /\ next.faults = k.faults /\ next.answer = k.answer
    <2>1. k \in Call
      BY <1>1
    <2> QED BY <2>1 DEF Effected, Call
  <1>5. next.succeeded = IF k.op.atomic THEN 1 ELSE 0
    <2>1. k \in Call /\ k.succeeded = 0
      BY <1>1, <1>2
    <2> QED BY <2>1 DEF Effected, Call
  <1> HIDE DEF next
  <1>6. CASE k.op.atomic
    <2>1. k.op.effects = 1 /\ k.op.results = 1 /\ k.op.onError = "throw" /\ k.done = 0
      BY <1>2, <1>6, <1>1 DEF Sound
    <2>2. Good(Answer(next, "ok"))
      <3> DEFINE y == Answer(next, "ok")
      <3>1. /\ y \in Call /\ y.pc = "over" /\ y.answer = "ok" /\ y.op = next.op
            /\ y.attempted = next.attempted /\ y.done = next.done /\ y.succeeded = next.succeeded
        BY <1>3, AnswerFields
      <3> HIDE DEF y
      <3>2. Progress(y) /\ Trail(y)
        BY <1>1, <1>2, <1>4, <1>5, <1>6, <2>1, <3>1 DEF Progress, Trail
      <3>3. Good(y)
        BY <3>1, <3>2 DEF Good
      <3> QED BY <3>3 DEF y
    <2>3. Good([Answer(next, "error") EXCEPT !.faults = @ + 1])
      BY <1>1, <1>2, <1>3, <1>4, <1>5, <1>6, <2>1, ErrorGood
    <2>4. Good([Answer(k, "error") EXCEPT !.faults = @ + 1])
      BY <1>1, <1>2, <2>1, ErrorGood
    <2>5. Thrown(k) = Answer(k, "error") /\ Thrown(next) = Answer(next, "error")
      BY <1>4, <2>1 DEF Thrown
    <2> QED BY <1>6, <2>2, <2>3, <2>4, <2>5 DEF next
  <1>7. CASE ~k.op.atomic
    <2>1. next.succeeded = 0
      BY <1>5, <1>7
    <2>2. Good(next)
      BY <1>1, <1>2, <1>3, <1>4, <1>7, <2>1 DEF Good, Progress, Trail
    <2>3. ASSUME NEW x \in {k, next} PROVE Good([Thrown(x) EXCEPT !.faults = @ + 1])
      <3>1. /\ x \in Call /\ x.op = k.op /\ x.attempted = k.op.attempts /\ x.succeeded = 0
            /\ x.failed = 0 /\ x.done \in Nat /\ x.done <= k.op.effects /\ x.faults = 0
            /\ x.answer = "none"
        BY <1>1, <1>2, <1>3, <1>4, <2>1
      <3>2. CASE k.op.onError = "throw"
        <4>1. Thrown(x) = Answer(x, "error")
          BY <3>1, <3>2 DEF Thrown
        <4>2. Good([Answer(x, "error") EXCEPT !.faults = @ + 1])
          BY <1>1, <1>7, <3>1, <3>2, ErrorGood
        <4> QED BY <4>1, <4>2
      <3>3. CASE k.op.onError # "throw"
        BY <1>1, <1>7, <3>1, <3>3, CaughtGood
      <3> QED BY <3>2, <3>3
    <2> QED BY <1>7, <2>2, <2>3 DEF next
  <1> QED BY <1>1, <1>6, <1>7

\* The effects are done.
LEMMA EffectsDoneGood ==
    ASSUME NEW k, Good(k), k.pc = "effect", k.done = k.op.effects, NEW no \in BOOLEAN
    PROVE  /\ k.op.results = 0 => Good(Answer(k, "ok"))
           /\ Good([k EXCEPT !.pc = "result", !.declined = no])
  <1>1. /\ k \in Call /\ Sound(k.op) /\ k.op.atomic \in BOOLEAN
        /\ k.op.attempts \in 0 .. 2 /\ k.op.effects \in 0 .. 2 /\ k.op.results \in 0 .. 2
    BY CallFacts
  <1>2. /\ k.attempted = k.op.attempts /\ k.succeeded = 0
        /\ k.failed = 0 /\ k.faults = 0 /\ k.answer = "none"
        /\ k.op.atomic => k.done = 0
    BY DEF Good, Progress
  <1>3. ~k.op.atomic /\ (k.op.onError # "throw" => k.op.results = k.op.attempts)
    BY <1>1, <1>2 DEF Sound
  <1>4. ASSUME k.op.results = 0 PROVE Good(Answer(k, "ok"))
    <2> DEFINE y == Answer(k, "ok")
    <2>1. /\ y \in Call /\ y.pc = "over" /\ y.answer = "ok" /\ y.op = k.op
          /\ y.attempted = k.attempted /\ y.done = k.done /\ y.succeeded = k.succeeded
          /\ y.failed = k.failed
      BY <1>1, AnswerFields
    <2> HIDE DEF y
    <2>2. Progress(y) /\ Trail(y)
      BY <1>1, <1>2, <1>3, <1>4, <2>1 DEF Progress, Trail
    <2>3. Good(y)
      BY <2>1, <2>2 DEF Good
    <2> QED BY <2>3 DEF y
  <1>5. Good([k EXCEPT !.pc = "result", !.declined = no])
    <2> DEFINE y == [k EXCEPT !.pc = "result", !.declined = no]
    <2>1. y \in Call
      BY <1>1 DEF Call
    <2>2. /\ y.pc = "result" /\ y.answer = k.answer /\ y.op = k.op
          /\ y.attempted = k.attempted /\ y.done = k.done /\ y.succeeded = k.succeeded
          /\ y.failed = k.failed /\ y.faults = k.faults
      BY <1>1 DEF Call
    <2> HIDE DEF y
    <2>3. Progress(y) /\ Trail(y)
      BY <1>1, <1>2, <1>3, <2>1, <2>2 DEF Progress, Trail
    <2>4. Good(y)
      BY <2>1, <2>3 DEF Good
    <2> QED BY <2>4 DEF y
  <1> QED BY <1>4, <1>5

\* A result is recorded.
Resulted(k) == IF k.declined THEN [k EXCEPT !.failed = @ + 1] ELSE [k EXCEPT !.succeeded = @ + 1]

LEMMA ResultedGood ==
    ASSUME NEW k, Good(k), k.pc = "result"
    PROVE  /\ k.succeeded + k.failed + 1 >= k.op.results
                => Good(Answer(Resulted(k), IF k.declined THEN "declined" ELSE "ok"))
           /\ Good(Resulted(k))
           /\ \A x \in {k, Resulted(k)} : Good([Thrown(x) EXCEPT !.faults = @ + 1])
  <1> DEFINE next == Resulted(k)
  <1>1. /\ k \in Call /\ Sound(k.op) /\ k.declined \in BOOLEAN
        /\ k.op.attempts \in 0 .. 2 /\ k.op.effects \in 0 .. 2 /\ k.op.results \in 0 .. 2
        /\ k.succeeded \in Nat /\ k.failed \in Nat
    BY CallFacts
  <1>2. /\ k.attempted = k.op.attempts /\ k.done = k.op.effects /\ ~k.op.atomic
        /\ k.faults = 0 /\ k.answer = "none"
        /\ IF k.declined THEN k.succeeded = 0 ELSE k.failed = 0
    BY DEF Good, Progress
  <1>3. k.op.onError # "throw" => k.op.results = k.op.attempts
    BY <1>1 DEF Sound
  <1>4. /\ next \in Call /\ next.op = k.op /\ next.attempted = k.attempted /\ next.done = k.done
        /\ next.pc = k.pc /\ next.faults = k.faults /\ next.answer = k.answer
        /\ next.declined = k.declined
        /\ IF k.declined THEN next.failed = k.failed + 1 /\ next.succeeded = k.succeeded
                         ELSE next.succeeded = k.succeeded + 1 /\ next.failed = k.failed
    <2>1. k \in Call
      BY <1>1
    <2>2. \A n \in Nat : [k EXCEPT !.failed = n] \in Call /\ [k EXCEPT !.succeeded = n] \in Call
      BY <2>1 DEF Call
    <2>3. next \in Call
      <3>1. k.failed + 1 \in Nat /\ k.succeeded + 1 \in Nat
        BY <1>1
      <3>2. [k EXCEPT !.failed = k.failed + 1] \in Call
        BY <2>2, <3>1
      <3>3. [k EXCEPT !.succeeded = k.succeeded + 1] \in Call
        BY <2>2, <3>1
      <3> QED BY <3>2, <3>3 DEF Resulted
    <2>4. CASE k.declined
      BY <2>1, <2>3, <2>4 DEF Resulted, Call
    <2>5. CASE ~k.declined
      BY <2>1, <2>3, <2>5 DEF Resulted, Call
    <2> QED BY <2>4, <2>5
  <1> HIDE DEF next
  <1>5. Good(next)
    BY <1>1, <1>2, <1>3, <1>4 DEF Good, Progress, Trail
  <1>6. ASSUME k.succeeded + k.failed + 1 >= k.op.results
        PROVE  Good(Answer(next, IF k.declined THEN "declined" ELSE "ok"))
    <2> DEFINE a == IF k.declined THEN "declined" ELSE "ok"
               y == Answer(next, a)
    <2>1. a \in {"none", "ok", "declined", "error"} /\ (a = "ok" => ~k.declined)
      OBVIOUS
    <2> HIDE DEF a
    <2>2. /\ y \in Call /\ y.pc = "over" /\ y.answer = a /\ y.op = next.op
          /\ y.attempted = next.attempted /\ y.done = next.done /\ y.succeeded = next.succeeded
          /\ y.failed = next.failed
      BY <1>4, <2>1, AnswerFields
    <2> HIDE DEF y
    <2>3. next.succeeded + next.failed >= k.op.results /\ (a = "ok" => next.succeeded >= k.op.results)
      BY <1>1, <1>2, <1>4, <1>6, <2>1
    <2>4. Progress(y) /\ Trail(y)
      BY <1>1, <1>2, <1>3, <1>4, <2>1, <2>2, <2>3 DEF Progress, Trail
    <2>5. Good(y)
      BY <2>2, <2>4 DEF Good
    <2> QED BY <2>5 DEF y, a
  <1>7. ASSUME NEW x \in {k, next} PROVE Good([Thrown(x) EXCEPT !.faults = @ + 1])
    <2>1. /\ x \in Call /\ x.op = k.op /\ x.attempted = k.op.attempts /\ x.done = k.op.effects
          /\ x.faults = 0 /\ x.answer = "none"
      BY <1>1, <1>2, <1>4
    <2>2. CASE k.op.onError = "throw"
      <3>1. Thrown(x) = Answer(x, "error")
        BY <2>1, <2>2 DEF Thrown
      <3>2. Good([Answer(x, "error") EXCEPT !.faults = @ + 1])
        BY <1>1, <1>2, <2>1, <2>2, ErrorGood
      <3> QED BY <3>1, <3>2
    <2>3. CASE k.op.onError # "throw"
      BY <1>1, <1>2, <2>1, <2>3, CaughtGood
    <2> QED BY <2>2, <2>3
  <1> QED BY <1>5, <1>6, <1>7 DEF next

\* The attempts are recorded as failed.
LEMMA FailureGood ==
    ASSUME NEW k, Good(k), k.pc = "catch"
    PROVE  LET over == Answer(k, IF k.op.onError = "swallow" THEN "declined" ELSE "error")
           IN  /\ k.op.attempts = 0 => Good(over)
               /\ Good([over EXCEPT !.failed = k.op.attempts])
               /\ Good([Answer(k, "error") EXCEPT !.faults = @ + 1])
  <1> DEFINE a == IF k.op.onError = "swallow" THEN "declined" ELSE "error"
             over == Answer(k, a)
  <1>1. /\ k \in Call /\ Sound(k.op) /\ k.op.attempts \in 0 .. 2 /\ k.op.effects \in 0 .. 2
        /\ k.succeeded \in Nat /\ k.failed \in Nat /\ k.done \in Nat
    BY CallFacts
  <1>2. k.attempted = k.op.attempts /\ ~k.op.atomic /\ k.faults = 1 /\ k.done <= k.op.effects
    BY DEF Good, Progress
  <1>3. k.succeeded > 0 => k.done = k.op.effects
    BY DEF Good, Trail
  <1>4. a \in {"none", "ok", "declined", "error"} /\ a # "ok"
    OBVIOUS
  <1> HIDE DEF a
  <1>5. /\ over \in Call /\ over.pc = "over" /\ over.answer = a /\ over.op = k.op
        /\ over.attempted = k.attempted /\ over.done = k.done /\ over.succeeded = k.succeeded
        /\ over.failed = k.failed
    BY <1>1, <1>4, AnswerFields
  <1> HIDE DEF over
  <1>6. k.op.attempts = 0 => Good(over)
    BY <1>1, <1>2, <1>3, <1>4, <1>5 DEF Good, Progress, Trail
  <1>7. Good([over EXCEPT !.failed = k.op.attempts])
    <2> DEFINE n == k.op.attempts
               y == [over EXCEPT !.failed = n]
    <2>1. n \in Nat
      BY <1>1
    <2> HIDE DEF n
    <2>2. over \in Call
      BY <1>5
    <2>3. /\ y \in Call /\ y.pc = over.pc /\ y.answer = over.answer /\ y.op = over.op
          /\ y.attempted = over.attempted /\ y.done = over.done /\ y.succeeded = over.succeeded
          /\ y.failed = n
      BY <2>1, <2>2 DEF Call
    <2> HIDE DEF y
    <2>4. Good(y)
      BY <1>1, <1>2, <1>3, <1>4, <1>5, <2>3 DEF Good, Progress, Trail, n
    <2> QED BY <2>4 DEF y, n
  <1>8. Good([Answer(k, "error") EXCEPT !.faults = @ + 1])
    BY <1>1, <1>2, <1>3, ErrorGood
  <1> QED BY <1>6, <1>7, <1>8 DEF over, a

\* A crash counts as two faults: nothing catches it.
LEMMA CrashGood ==
    ASSUME NEW k, Good(k), k.pc # "idle"
    PROVE  Good([[Answer(k, "error") EXCEPT !.faults = 1] EXCEPT !.faults = @ + 1])
  <1> DEFINE a == Answer(k, "error")
             b == [a EXCEPT !.faults = 1]
             y == [b EXCEPT !.faults = @ + 1]
  <1>1. /\ k \in Call /\ k.op \in Operation /\ k.op.attempts \in 0 .. 2 /\ k.op.effects \in 0 .. 2
    BY CallFacts
  <1>2. /\ a \in Call /\ a.pc = "over" /\ a.answer = "error" /\ a.op = k.op
        /\ a.attempted = k.attempted /\ a.done = k.done /\ a.succeeded = k.succeeded
    BY <1>1, AnswerFields
  <1> HIDE DEF a
  <1>3. /\ b \in Call /\ b.pc = a.pc /\ b.answer = a.answer /\ b.op = a.op
        /\ b.attempted = a.attempted /\ b.done = a.done /\ b.succeeded = a.succeeded
        /\ b.faults = 1
    BY <1>2 DEF Call
  <1> HIDE DEF b
  <1>4. /\ y \in Call /\ y.pc = "over" /\ y.answer = "error" /\ y.op = k.op
        /\ y.attempted = k.attempted /\ y.done = k.done /\ y.succeeded = k.succeeded
        /\ y.faults = 1 + 1
    BY <1>2, <1>3, FaultFields
  <1> HIDE DEF y
  <1>5. Good(y)
    BY <1>1, <1>4 DEF Good, Progress, Trail
  <1> QED BY <1>5 DEF y, b, a

-----------------------------------------------------------------------------
(* The inductive invariant. *)

LEMMA CallStepPreserves ==
    ASSUME AdminInv, NEW c \in Caller, CallStep(c)
    PROVE  AdminInv'
  <1> DEFINE k == call[c]
  <1>1. Good(k)
    BY DEF AdminInv
  <1>2. CASE \E op \in Operation : BeginCall(c, op)
    BY <1>2, BeginCallPreserves
  <1>3. CASE RecordAttempt(c)
    <2>1. k.pc = "attempt"
      BY <1>3 DEF RecordAttempt
    <2>2. \/ Step(c, Attempted(k))
          \/ Fails(c, Answer(Attempted(k), "error"))
          \/ Fails(c, Answer(k, "error"))
      BY <1>3 DEF RecordAttempt, Attempted
    <2> QED BY <1>1, <2>1, <2>2, AttemptedGood, StepKeeps, FailsKeeps
  <1>4. CASE TakeEffect(c)
    <2>1. k.pc = "effect" /\ k.done < k.op.effects
      BY <1>4 DEF TakeEffect
    <2>2. \/ Step(c, IF k.op.atomic THEN Answer(Effected(k), "ok") ELSE Effected(k))
          \/ \E x \in {k, Effected(k)} : Fails(c, Thrown(x))
      BY <1>4 DEF TakeEffect, Effected
    <2> QED BY <1>1, <2>1, <2>2, EffectedGood, StepKeeps, FailsKeeps
  <1>5. CASE EffectsDone(c)
    <2>1. k.pc = "effect" /\ k.done = k.op.effects
      BY <1>5 DEF EffectsDone
    <2>2. \E no \in BOOLEAN :
            \/ k.op.results = 0 /\ Step(c, Answer(k, "ok"))
            \/ Step(c, [k EXCEPT !.pc = "result", !.declined = no])
      BY <1>5 DEF EffectsDone
    <2> QED BY <1>1, <2>1, <2>2, EffectsDoneGood, StepKeeps
  <1>6. CASE RecordResult(c)
    <2>1. k.pc = "result"
      BY <1>6 DEF RecordResult
    <2>2. \/ /\ k.succeeded + k.failed + 1 >= k.op.results
             /\ Step(c, Answer(Resulted(k), IF k.declined THEN "declined" ELSE "ok"))
          \/ Step(c, Resulted(k))
          \/ \E x \in {k, Resulted(k)} : Fails(c, Thrown(x))
      BY <1>6 DEF RecordResult, Resulted
    <2> QED BY <1>1, <2>1, <2>2, ResultedGood, StepKeeps, FailsKeeps
  <1>7. CASE RecordFailure(c)
    <2> DEFINE over == Answer(k, IF k.op.onError = "swallow" THEN "declined" ELSE "error")
    <2>1. k.pc = "catch"
      BY <1>7 DEF RecordFailure
    <2>2. \/ k.op.attempts = 0 /\ Step(c, over)
          \/ Step(c, [over EXCEPT !.failed = k.op.attempts])
          \/ Fails(c, Answer(k, "error"))
      BY <1>7 DEF RecordFailure
    <2> QED BY <1>1, <2>1, <2>2, FailureGood, StepKeeps, FailsKeeps
  <1>8. CASE CallCrash(c)
    <2>1. k.pc # "idle" /\ Fails(c, [Answer(k, "error") EXCEPT !.faults = 1])
      BY <1>8 DEF CallCrash
    <2> QED BY <1>1, <2>1, CrashGood, FailsKeeps
  <1>9. CASE NextCall(c)
    BY <1>9, NoCallGood, StepKeeps DEF NextCall
  <1> QED BY <1>2, <1>3, <1>4, <1>5, <1>6, <1>7, <1>8, <1>9 DEF CallStep

LEMMA AdminInductive == AdminSpec => []AdminInv
  <1>1. AdminInit => AdminInv
    BY NoCallGood, AdminAssumption DEF AdminInit, AdminInv, Good
  <1>2. AdminInv /\ [AdminNext]_adminVars => AdminInv'
    <2> SUFFICES ASSUME AdminInv, [AdminNext]_adminVars PROVE AdminInv'
      OBVIOUS
    <2>1. CASE UNCHANGED adminVars
      BY <2>1 DEF adminVars, AdminInv
    <2>2. CASE AdminNext
      BY <2>2, CallStepPreserves DEF AdminNext
    <2> QED BY <2>1, <2>2
  <1> QED BY <1>1, <1>2, PTL DEF AdminSpec

\* What the trail says happened, happened, and what was answered is in the trail,
\* whatever fails or crashes (recordAttempt, record, recordFailedAttempts).
THEOREM TrailAlwaysTrue == AdminSpec => []TrailIsTrue
  <1>1. AdminInv => TrailIsTrue
    BY DEF AdminInv, Good, Trail, TrailIsTrue
  <1> QED BY <1>1, AdminInductive, PTL

-----------------------------------------------------------------------------
(* Exports of the trail: what can be downloaded is whole. *)

LEMMA Largest ==
    ASSUME NEW n \in Nat, NEW S \in SUBSET (1 .. n), S # {}
    PROVE  \E m \in S : \A i \in S : i <= m
  <1> DEFINE T == {k \in Nat : n - k \in S}
             R == {pair \in Nat \X Nat : pair[1] < pair[2]}
  <1>1. IsWellFoundedOn(R, Nat)
    BY NatLessThanWellFounded DEF OpToRel
  <1>2. T \subseteq Nat /\ T # {}
    <2> PICK i \in S : TRUE
      OBVIOUS
    <2>1. n - i \in Nat /\ n - (n - i) = i
      OBVIOUS
    <2> QED BY <2>1
  <1>3. PICK k \in T : \A j \in T : <<j, k>> \notin R
    <2> HIDE DEF R, T
    <2> QED BY <1>1, <1>2, WFMin
  <1>4. \A j \in T : ~(j < k)
    BY <1>3
  <1>5. \A i \in S : n - i \in T
    OBVIOUS
  <1> QED BY <1>4, <1>5

LEMMA Smallest ==
    ASSUME NEW S \in SUBSET Nat, S # {}
    PROVE  \E m \in S : \A i \in S : m <= i
  <1> DEFINE R == {pair \in Nat \X Nat : pair[1] < pair[2]}
  <1>1. IsWellFoundedOn(R, Nat)
    BY NatLessThanWellFounded DEF OpToRel
  <1>2. PICK k \in S : \A j \in S : <<j, k>> \notin R
    <2> HIDE DEF R
    <2> QED BY <1>1, WFMin
  <1>3. \A j \in S : ~(j < k)
    BY <1>2
  <1> QED BY <1>3

\* A query with a limit returns no more than that, and less only if it returns all.
LEMMA FirstRows ==
    ASSUME NEW n \in Nat, NEW met \in SUBSET (1 .. n), NEW limit \in Nat
    PROVE  LET first == {i \in met : Cardinality({k \in met : k <= i}) <= limit}
           IN  /\ IsFiniteSet(first) /\ Cardinality(first) \in 0 .. limit
               /\ Cardinality(first) < limit => first = met
  <1> DEFINE UpTo(i) == {k \in met : k <= i}
             first   == {i \in met : Cardinality(UpTo(i)) <= limit}
  <1>1. IsFiniteSet(met)
    <2>1. IsFiniteSet(1 .. n)
      BY FS_Interval
    <2> QED BY <2>1, FS_Subset
  <1>2. \A A \in SUBSET met : IsFiniteSet(A) /\ Cardinality(A) \in Nat
    BY <1>1, FS_Subset, FS_CardinalityType
  <1>3. \A A, B \in SUBSET met : A \subseteq B => Cardinality(A) <= Cardinality(B)
    BY <1>2, FS_Subset
  <1>4. first \in SUBSET met /\ \A i \in met : i \in first <=> Cardinality(UpTo(i)) <= limit
    OBVIOUS
  <1>5. \A i \in met : UpTo(i) \in SUBSET met /\ \A k \in met : k \in UpTo(i) <=> k <= i
    OBVIOUS
  <1> HIDE DEF first, UpTo
  <1>6. Cardinality(first) <= limit
    <2>1. CASE first = {}
      BY <2>1, FS_EmptySet
    <2>2. CASE first # {}
      <3>1. PICK m \in first : \A i \in first : i <= m
        <4>1. first \in SUBSET (1 .. n)
          BY <1>4
        <4> QED BY <2>2, <4>1, Largest
      <3>2. first \subseteq UpTo(m)
        BY <1>4, <1>5, <3>1
      <3>3. Cardinality(first) <= Cardinality(UpTo(m))
        BY <1>3, <1>4, <1>5, <3>2
      <3>4. Cardinality(UpTo(m)) <= limit
        BY <1>4
      <3>5. Cardinality(first) \in Nat /\ Cardinality(UpTo(m)) \in Nat
        BY <1>2, <1>4, <1>5
      <3> QED BY <3>3, <3>4, <3>5
    <2> QED BY <2>1, <2>2
  <1>7. ASSUME first # met PROVE ~(Cardinality(first) < limit)
    <2> DEFINE left == met \ first
    <2>1. left \in SUBSET Nat /\ left # {}
      <3>1. \A i \in met : i \in Nat
        OBVIOUS
      <3>2. \E i \in met : i \notin first
        BY <1>4, <1>7
      <3> QED BY <3>1, <3>2
    <2>2. PICK m \in left : \A i \in left : m <= i
      <3> HIDE DEF left
      <3> QED BY <2>1, Smallest
    <2> DEFINE less == UpTo(m) \ {m}
    <2>3. less \subseteq first
      <3> SUFFICES ASSUME NEW k \in less, k \notin first PROVE FALSE
        OBVIOUS
      <3>1. k \in left /\ m \in met
        BY <1>5, <2>2
      <3>2. k <= m /\ k # m /\ m <= k
        BY <1>5, <2>2, <3>1
      <3>3. k \in Nat /\ m \in Nat
        BY <2>1, <3>1
      <3> QED BY <3>2, <3>3
    <2>4. UpTo(m) = less \cup {m} /\ m \notin less
      BY <1>5, <2>2
    <2>5. IsFiniteSet(less) /\ Cardinality(less) \in Nat /\ Cardinality(first) \in Nat
      BY <1>2, <1>4, <2>3
    <2>6. ~(Cardinality(UpTo(m)) <= limit)
      BY <1>4, <2>2
    <2>7. Cardinality(less) <= Cardinality(first)
      BY <1>3, <1>4, <2>3
    <2> HIDE DEF less
    <2>8. Cardinality(UpTo(m)) = Cardinality(less) + 1
      BY <2>4, <2>5, FS_AddElement
    <2> QED BY <2>5, <2>6, <2>7, <2>8
  <1>8. IsFiniteSet(first) /\ Cardinality(first) \in Nat
    BY <1>2, <1>4
  <1>9. /\ IsFiniteSet(first) /\ Cardinality(first) \in 0 .. limit
        /\ Cardinality(first) < limit => first = met
    BY <1>6, <1>7, <1>8
  <1> QED BY <1>9 DEF first, UpTo

AskedBy(x) == {i \in 1 .. export[x].since : events[i] = "asked"}

\* What a job has read, and what an object holds: all that was asked for, unless
\* the limit was reached.
ReadWhole(x) ==
    LET read == job[x].read
    IN  /\ IsFiniteSet(read) /\ Cardinality(read) \in 0 .. RowLimit
        /\ Cardinality(read) < RowLimit => AskedBy(x) \subseteq read

ObjectWhole(x) ==
    /\ object[x] # Absent /\ Cardinality(object[x]) = export[x].rowCount
    /\ export[x].rowCount < RowLimit => AskedBy(x) \subseteq object[x]

ExportOK(x) ==
    /\ export[x].since <= Len(events)
    /\ job[x].pc \in {"select", "put", "update"} => export[x].status = "pending"
    /\ job[x].pc = "catch" => export[x].status \in {"pending", "completed"}
    /\ job[x].pc \in {"put", "update"} => ReadWhole(x)
    /\ job[x].pc = "update" => object[x] = job[x].read
    /\ export[x].status = "completed" => ObjectWhole(x)

ExportInv == ExportTypeOK /\ \A x \in Export : ExportOK(x)

ExportRow == [status : {"none", "attempted", "pending", "completed", "failed"},
              rowCount : 0 .. RowLimit, hasKey : BOOLEAN, fresh : BOOLEAN, since : 0 .. MaxEvents]
JobState  == [pc : {"idle", "select", "put", "update", "catch"}, read : SUBSET Position]

LEMMA NoJobType == NoJob \in JobState /\ NoJob.pc = "idle"
  <1>1. {} \in SUBSET Position
    OBVIOUS
  <1> QED BY <1>1 DEF NoJob, JobState

LEMMA InitExportInv == ExportInit => ExportInv
  <1> SUFFICES ASSUME ExportInit PROVE ExportInv
    OBVIOUS
  <1>1. ExportTypeOK
    BY ExportAssumption DEF ExportInit, ExportTypeOK, NoExport, NoJob
  <1>2. \A x \in Export : ExportOK(x)
    BY DEF ExportInit, ExportOK, NoExport, NoJob
  <1> QED BY <1>1, <1>2 DEF ExportInv

LEMMA StoreEventKeeps ==
    ASSUME ExportInv, NEW k \in {"asked", "near", "other"}, StoreEvent(k)
    PROVE  ExportInv'
  <1>1. ExportTypeOK'
    BY ExportAssumption DEF ExportInv, ExportTypeOK, StoreEvent
  <1>2. ASSUME NEW x \in Export PROVE ExportOK(x)'
    <2>1. export[x].since \in Nat /\ export[x].since <= Len(events)
      BY DEF ExportInv, ExportTypeOK, ExportOK
    <2>2. \A i \in 1 .. export[x].since : events'[i] = events[i]
      BY <2>1 DEF ExportInv, ExportTypeOK, StoreEvent
    <2>3. AskedBy(x)' = AskedBy(x)
      BY <2>2 DEF AskedBy, StoreEvent
    <2>4. Len(events') = Len(events) + 1 /\ Len(events) \in Nat
      BY DEF ExportInv, ExportTypeOK, StoreEvent
    <2>5. ReadWhole(x)' = ReadWhole(x) /\ ObjectWhole(x)' = ObjectWhole(x)
      BY <2>3 DEF ReadWhole, ObjectWhole, StoreEvent
    <2> QED BY <2>1, <2>4, <2>5 DEF ExportInv, ExportOK, StoreEvent
  <1> QED BY <1>1, <1>2 DEF ExportInv

\* A step of one export leaves the others alone.
LEMMA OtherExports ==
    ASSUME ExportInv, NEW x \in Export, NEW y \in Export, events' = events,
           export'[y] = export[y], job'[y] = job[y], object'[y] = object[y]
    PROVE  ExportOK(y)'
  BY DEF ExportInv, ExportOK, ReadWhole, ObjectWhole, AskedBy

LEMMA StartKeeps ==
    ASSUME ExportInv, NEW x \in Export,
           RequestExport(x) \/ CreateExport(x) \/ ExportDies(x) \/ ExportExpires(x)
           \/ MarkExportFailed(x)
    PROVE  ExportInv'
  <1>0. /\ ExportTypeOK /\ events \in Seq({"asked", "near", "other"}) /\ Len(events) <= MaxEvents
        /\ export[x].since \in 0 .. MaxEvents
    BY DEF ExportInv, ExportTypeOK
  <1>1. CASE RequestExport(x)
    <2>1. ExportTypeOK'
      BY <1>0, <1>1, ZenonT(60) DEF ExportTypeOK, RequestExport
    <2>2. ExportOK(x)'
      BY <1>0, <1>1 DEF ExportInv, ExportTypeOK, ExportOK, RequestExport
    <2>3. \A y \in Export \ {x} : ExportOK(y)'
      BY <1>0, <1>1, OtherExports DEF ExportTypeOK, RequestExport
    <2> QED BY <2>1, <2>2, <2>3 DEF ExportInv
  <1>2. CASE CreateExport(x)
    <2>1. Len(events) \in 0 .. MaxEvents
      BY <1>0
    <2>2. ExportTypeOK'
      BY <1>0, <1>2, <2>1, ZenonT(60) DEF ExportTypeOK, CreateExport
    <2>3. ExportOK(x)'
      BY <1>0, <1>2 DEF ExportInv, ExportTypeOK, ExportOK, CreateExport
    <2>4. \A y \in Export \ {x} : ExportOK(y)'
      BY <1>0, <1>2, OtherExports DEF ExportTypeOK, CreateExport
    <2> QED BY <2>2, <2>3, <2>4 DEF ExportInv
  <1>3. CASE ExportDies(x)
    <2>1. ExportTypeOK'
      BY <1>0, <1>3, ExportAssumption, NoJobType DEF ExportTypeOK, ExportDies, ExportFault, JobState
    <2>2. ObjectWhole(x)' = ObjectWhole(x)
      BY <1>3 DEF ObjectWhole, AskedBy, ExportDies
    <2>3. ExportOK(x)'
      BY <1>0, <1>3, <2>2 DEF ExportInv, ExportTypeOK, ExportOK, ExportDies, NoJob
    <2>4. \A y \in Export \ {x} : ExportOK(y)'
      BY <1>0, <1>3, OtherExports DEF ExportTypeOK, ExportDies
    <2> QED BY <2>1, <2>3, <2>4 DEF ExportInv
  <1>4. CASE ExportExpires(x)
    <2>1. ExportTypeOK'
      BY <1>0, <1>4, ZenonT(60) DEF ExportTypeOK, ExportExpires
    <2>2. /\ export'[x].since = export[x].since /\ export'[x].rowCount = export[x].rowCount
          /\ export'[x].status = export[x].status
      BY <1>0, <1>4 DEF ExportTypeOK, ExportExpires
    <2>3. ObjectWhole(x)' = ObjectWhole(x) /\ ReadWhole(x)' = ReadWhole(x)
      BY <1>4, <2>2 DEF ObjectWhole, ReadWhole, AskedBy, ExportExpires
    <2>4. ExportOK(x)'
      BY <1>4, <2>2, <2>3 DEF ExportInv, ExportOK, ExportExpires
    <2>5. \A y \in Export \ {x} : ExportOK(y)'
      BY <1>0, <1>4, OtherExports DEF ExportTypeOK, ExportExpires
    <2> QED BY <2>1, <2>4, <2>5 DEF ExportInv
  <1>5. CASE MarkExportFailed(x)
    <2>1. ExportTypeOK'
      <3>1. export \in [Export -> ExportRow] /\ job \in [Export -> JobState]
        BY <1>0 DEF ExportTypeOK, ExportRow, JobState
      <3>2. export' \in [Export -> ExportRow]
        BY <1>5, <3>1 DEF MarkExportFailed, ExportRow
      <3>3. job' \in [Export -> JobState]
        BY <1>5, <3>1, NoJobType DEF MarkExportFailed
      <3> QED BY <1>0, <1>5, <3>2, <3>3 DEF ExportTypeOK, MarkExportFailed, ExportRow, JobState
    <2>2. ExportOK(x)'
      BY <1>0, <1>5 DEF ExportInv, ExportTypeOK, ExportOK, MarkExportFailed, NoJob
    <2>3. \A y \in Export \ {x} : ExportOK(y)'
      BY <1>0, <1>5, OtherExports DEF ExportTypeOK, MarkExportFailed
    <2> QED BY <2>1, <2>2, <2>3 DEF ExportInv
  <1> QED BY <1>1, <1>2, <1>3, <1>4, <1>5

LEMMA SelectKeeps ==
    ASSUME ExportInv, NEW x \in Export, SelectEvents(x)
    PROVE  ExportInv'
  <1> DEFINE n    == Len(events)
             met  == {i \in DOMAIN events : Meets(i)}
             read == {i \in met : Cardinality({k \in met : k <= i}) <= RowLimit}
  <1>1. /\ n \in Nat /\ n <= MaxEvents /\ DOMAIN events = 1 .. n /\ RowLimit \in Nat
        /\ export[x].since \in 0 .. n /\ MaxEvents \in Nat
    BY ExportAssumption DEF ExportInv, ExportTypeOK, ExportOK
  <1>2. /\ IsFiniteSet(read) /\ Cardinality(read) \in 0 .. RowLimit
        /\ Cardinality(read) < RowLimit => read = met
    <2>1. met \in SUBSET (1 .. n)
      BY <1>1
    <2> HIDE DEF met, n
    <2> QED BY <1>1, <2>1, FirstRows
  <1>3. job' = [job EXCEPT ![x] = [pc |-> "put", read |-> read]] /\ job[x].pc = "select"
    BY DEF SelectEvents
  <1>4. read \in SUBSET Position /\ AskedBy(x) \subseteq met
    BY <1>1 DEF Position, AskedBy, Meets
  <1> HIDE DEF read
  <1>5. ExportTypeOK'
    BY <1>3, <1>4 DEF ExportInv, ExportTypeOK, SelectEvents
  <1>6. job'[x] = [pc |-> "put", read |-> read]
    BY <1>3 DEF ExportInv, ExportTypeOK
  <1>7. ReadWhole(x)'
    <2>1. AskedBy(x)' = AskedBy(x)
      BY DEF AskedBy, SelectEvents
    <2> QED BY <1>2, <1>4, <1>6, <2>1 DEF ReadWhole
  <1>8. ExportOK(x)'
    BY <1>3, <1>6, <1>7 DEF ExportInv, ExportOK, SelectEvents
  <1>9. \A y \in Export \ {x} : ExportOK(y)'
    BY <1>3, OtherExports DEF ExportInv, ExportTypeOK, SelectEvents
  <1> QED BY <1>5, <1>8, <1>9 DEF ExportInv

\* The upload, and the update of the row, whether their answer comes or not.
LEMMA UploadKeeps ==
    ASSUME ExportInv, NEW x \in Export, job[x].pc = "put", events' = events, export' = export,
           object' = [object EXCEPT ![x] = job[x].read],
           NEW next \in {"update", "catch"}, job' = [job EXCEPT ![x].pc = next],
           exportFaults' \in 0 .. MaxExportFaults
    PROVE  ExportInv'
  <1>1. job[x].read \in SUBSET Position /\ object'[x] = job[x].read
    BY DEF ExportInv, ExportTypeOK
  <1>2. ExportTypeOK'
    BY <1>1, ZenonT(60) DEF ExportInv, ExportTypeOK
  <1>3. job'[x].pc = next /\ job'[x].read = job[x].read
    BY DEF ExportInv, ExportTypeOK
  <1>4. ReadWhole(x)' = ReadWhole(x)
    BY <1>3 DEF ReadWhole, AskedBy
  <1>5. ExportOK(x)'
    BY <1>1, <1>3, <1>4 DEF ExportInv, ExportOK
  <1>6. \A y \in Export \ {x} : ExportOK(y)'
    BY OtherExports DEF ExportInv, ExportTypeOK
  <1> QED BY <1>2, <1>5, <1>6 DEF ExportInv

LEMMA CompleteKeeps ==
    ASSUME ExportInv, NEW x \in Export, job[x].pc = "update", events' = events, object' = object,
           export' = [export EXCEPT ![x] = [@ EXCEPT !.status = "completed", !.hasKey = TRUE,
                                             !.fresh = TRUE, !.rowCount = Cardinality(job[x].read)]],
           job' \in {[job EXCEPT ![x] = NoJob], [job EXCEPT ![x].pc = "catch"]},
           exportFaults' \in 0 .. MaxExportFaults
    PROVE  ExportInv'
  <1> DEFINE read == job[x].read
             row  == [export[x] EXCEPT !.status = "completed", !.hasKey = TRUE,
                                       !.fresh = TRUE, !.rowCount = Cardinality(read)]
  <1>1. /\ IsFiniteSet(read) /\ Cardinality(read) \in 0 .. RowLimit
        /\ Cardinality(read) < RowLimit => AskedBy(x) \subseteq read
        /\ object[x] = read /\ read \in SUBSET Position
    BY DEF ExportInv, ExportTypeOK, ExportOK, ReadWhole
  <1>2. row \in ExportRow /\ row.since = export[x].since /\ row.status = "completed"
        /\ row.rowCount = Cardinality(read)
    <2> DEFINE n == Cardinality(read)
    <2>1. export[x] \in ExportRow /\ n \in 0 .. RowLimit
      BY <1>1 DEF ExportInv, ExportTypeOK, ExportRow
    <2>2. ASSUME NEW k \in ExportRow, NEW m \in 0 .. RowLimit
          PROVE  LET new == [k EXCEPT !.status = "completed", !.hasKey = TRUE, !.fresh = TRUE,
                                      !.rowCount = m]
                 IN  new \in ExportRow /\ new.since = k.since /\ new.status = "completed"
                     /\ new.rowCount = m
      BY DEF ExportRow
    <2> QED BY <2>1, <2>2
  <1>3. export' = [export EXCEPT ![x] = row] /\ export'[x] = row
    BY DEF ExportInv, ExportTypeOK
  <1>4. PICK new \in JobState : new.pc \in {"idle", "catch"} /\ job' = [job EXCEPT ![x] = new]
    <2>1. CASE job' = [job EXCEPT ![x] = NoJob]
      BY <2>1, NoJobType
    <2>2. CASE job' = [job EXCEPT ![x].pc = "catch"]
      <3> DEFINE new == [job[x] EXCEPT !.pc = "catch"]
      <3>1. job[x] \in JobState
        BY DEF ExportInv, ExportTypeOK, JobState
      <3>2. new \in JobState /\ new.pc = "catch"
        BY <3>1 DEF JobState
      <3>3. job' = [job EXCEPT ![x] = new]
        BY <2>2
      <3> QED BY <3>2, <3>3
    <2> QED BY <2>1, <2>2
  <1> HIDE DEF row
  <1>5. ExportTypeOK'
    <2>1. export' \in [Export -> ExportRow]
      BY <1>2, <1>3 DEF ExportInv, ExportTypeOK, ExportRow
    <2>2. job' \in [Export -> JobState]
      BY <1>4 DEF ExportInv, ExportTypeOK, JobState
    <2> QED BY <2>1, <2>2 DEF ExportInv, ExportTypeOK, ExportRow, JobState
  <1>6. ObjectWhole(x)'
    <2>1. AskedBy(x)' = AskedBy(x)
      BY <1>2, <1>3 DEF AskedBy
    <2>2. object[x] # Absent
      BY <1>1 DEF Absent, Position
    <2> QED BY <1>1, <1>2, <1>3, <2>1, <2>2 DEF ObjectWhole
  <1>7. ExportOK(x)'
    <2>1. job'[x].pc \in {"idle", "catch"}
      BY <1>4 DEF ExportInv, ExportTypeOK
    <2> QED BY <1>2, <1>3, <1>6, <2>1 DEF ExportInv, ExportOK
  <1>8. \A y \in Export \ {x} : ExportOK(y)'
    BY <1>3, <1>4, OtherExports DEF ExportInv, ExportTypeOK
  <1> QED BY <1>5, <1>7, <1>8 DEF ExportInv

LEMMA ProcessFailsKeeps ==
    ASSUME ExportInv, NEW x \in Export, ProcessFails(x)
    PROVE  ExportInv'
  <1>0. exportFaults' \in 0 .. MaxExportFaults /\ events' = events
        /\ job' = [job EXCEPT ![x].pc = "catch"]
    BY ExportAssumption DEF ExportInv, ExportTypeOK, ProcessFails, ExportFault
  <1>1. CASE UNCHANGED <<export, object>>
    <2>1. ExportTypeOK'
      BY <1>0, <1>1, ZenonT(60) DEF ExportInv, ExportTypeOK
    <2>2. job'[x].pc = "catch"
      BY <1>0 DEF ExportInv, ExportTypeOK
    <2>3. ObjectWhole(x)' = ObjectWhole(x)
      BY <1>0, <1>1 DEF ObjectWhole, AskedBy
    <2>4. ExportOK(x)'
      BY <1>0, <1>1, <2>2, <2>3 DEF ExportInv, ExportOK, ProcessFails
    <2>5. \A y \in Export \ {x} : ExportOK(y)'
      BY <1>0, <1>1, OtherExports DEF ExportInv, ExportTypeOK
    <2> QED BY <2>1, <2>4, <2>5 DEF ExportInv
  <1>2. CASE job[x].pc = "put" /\ object' = [object EXCEPT ![x] = job[x].read] /\ UNCHANGED export
    BY <1>0, <1>2, UploadKeeps
  <1>3. CASE /\ job[x].pc = "update" /\ UNCHANGED object
             /\ export' = [export EXCEPT ![x] = [@ EXCEPT !.status = "completed", !.hasKey = TRUE,
                                                  !.fresh = TRUE, !.rowCount = Cardinality(job[x].read)]]
    BY <1>0, <1>3, CompleteKeeps
  <1> QED BY <1>1, <1>2, <1>3 DEF ProcessFails

LEMMA ExportInductive == ExportSpec => []ExportInv
  <1>1. ExportInv /\ [ExportNext]_exportVars => ExportInv'
    <2> SUFFICES ASSUME ExportInv, [ExportNext]_exportVars PROVE ExportInv'
      OBVIOUS
    <2>0. ExportTypeOK
      BY DEF ExportInv
    <2>1. CASE UNCHANGED exportVars
      BY <2>1 DEF exportVars, ExportInv, ExportTypeOK, ExportOK, ReadWhole, ObjectWhole, AskedBy
    <2>2. ASSUME NEW k \in {"asked", "near", "other"}, StoreEvent(k) PROVE ExportInv'
      BY <2>2, StoreEventKeeps
    <2>3. ASSUME NEW x \in Export,
                 RequestExport(x) \/ CreateExport(x) \/ SelectEvents(x) \/ PutObject(x) \/ Complete(x)
                 \/ ProcessFails(x) \/ MarkExportFailed(x) \/ ExportDies(x) \/ ExportExpires(x)
          PROVE  ExportInv'
      <3>1. CASE PutObject(x)
        BY <2>0, <3>1, UploadKeeps DEF PutObject, ExportTypeOK
      <3>2. CASE Complete(x)
        BY <2>0, <3>2, CompleteKeeps DEF Complete, ExportTypeOK
      <3> QED BY <2>3, <3>1, <3>2, StartKeeps, SelectKeeps, ProcessFailsKeeps
    <2> QED BY <2>1, <2>2, <2>3 DEF ExportNext
  <1> QED BY <1>1, InitExportInv, PTL DEF ExportSpec

\* For any number of exports, events, failures and crashes, and any limit, what
\* can be downloaded is there, is counted right and has all that was asked for
\* unless the limit was reached (AuditExportService.process, get and download).
THEOREM DownloadsAreWhole == ExportSpec => []DownloadIsWhole
  <1>1. ExportInv => DownloadIsWhole
    BY DEF ExportInv, ExportOK, ObjectWhole, AskedBy, DownloadIsWhole, Downloadable
  <1> QED BY <1>1, ExportInductive, PTL

-----------------------------------------------------------------------------
(* Reading a growing table page by page. *)

Cursor == [time : Nat, key : Nat]

\* The place of a cursor is at the row or after it, in the order of the pages.
Reached(c, r) == c.time < r.time \/ (c.time = r.time /\ c.key <= r.key)

PagedShapes ==
    /\ kind \in {"audit_event", "request_log"}
    /\ rows \in SUBSET Stored(kind) /\ IsFiniteSet(rows)
    /\ reader = [pc |-> reader.pc, cursor |-> reader.cursor, shown |-> reader.shown,
                 cursors |-> reader.cursors, stayed |-> reader.stayed]
    /\ reader.pc \in {"reading", "done"} /\ reader.cursor \in Cursor
    /\ reader.shown \in Seq(Row) /\ reader.cursors \in SUBSET Cursor
    /\ reader.stayed \in SUBSET rows

\* What was returned is newest first, and comes before the cursor.
ShownInOrder ==
    /\ \A i, k \in DOMAIN reader.shown : i < k => Before(reader.shown[k], reader.shown[i])
    /\ reader.pc = "reading" => \A i \in DOMAIN reader.shown : Reached(reader.cursor, reader.shown[i])

\* What stayed was returned, or comes after the cursor, or is skipped.
NothingMissed ==
    \A r \in reader.stayed :
      \/ \E i \in DOMAIN reader.shown : reader.shown[i] = r
      \/ reader.pc = "reading" /\ Before(r, reader.cursor)
      \/ r \in Skipped

PagedInv == PagedShapes /\ ShownInOrder /\ NothingMissed

LEMMA RowTypes == \A r \in Row : r.time \in 0 .. LastInstant /\ r.key \in Nat /\ r.time \in Nat
                                 /\ r = [time |-> r.time, key |-> r.key]
  <1> SUFFICES ASSUME NEW r \in Row
               PROVE  r.time \in 0 .. LastInstant /\ r.key \in Nat /\ r.time \in Nat
                      /\ r = [time |-> r.time, key |-> r.key]
    OBVIOUS
  <1>1. r.time \in 0 .. LastInstant /\ r.key \in RowKey /\ r = [time |-> r.time, key |-> r.key]
    BY DEF Row
  <1> QED BY <1>1, PagedAssumption

LEMMA Milliseconds ==
    ASSUME NEW t \in Nat
    PROVE  /\ Millisecond(t) \in Nat /\ Millisecond(t) <= t
           /\ t % Tick = 0 => Millisecond(t) = t
           /\ \A u \in Nat : Millisecond(t) <= u /\ u <= t => Millisecond(u) = Millisecond(t)
  <1>1. Tick \in Nat \ {0}
    BY PagedAssumption
  <1>2. t % Tick \in 0 .. Tick - 1
    BY <1>1
  <1>3. t % Tick \in Nat /\ t % Tick <= t
    BY <1>1
  <1>4. ASSUME NEW u \in Nat, t - (t % Tick) <= u, u <= t PROVE u % Tick = (t % Tick) - (t - u)
    BY <1>1, <1>4
  <1>5. ASSUME NEW u \in Nat, Millisecond(t) <= u, u <= t PROVE Millisecond(u) = Millisecond(t)
    <2>1. u % Tick = (t % Tick) - (t - u)
      BY <1>4, <1>5 DEF Millisecond
    <2> HIDE <1>4
    <2> QED BY <1>3, <2>1 DEF Millisecond
  <1> QED BY <1>3, <1>5 DEF Millisecond

\* A sequence of a set has each of its elements.
LEMMA SeqsHoldAll ==
    ASSUME NEW S, IsFiniteSet(S), NEW s \in SetToSeqs(S)
    PROVE  /\ s \in Seq(S) /\ DOMAIN s = 1 .. Len(s)
           /\ \A x \in S : \E i \in DOMAIN s : s[i] = x
  <1> DEFINE n == Cardinality(S)
  <1>1. n \in Nat
    BY FS_CardinalityType
  <1>2. s \in [1 .. n -> S] /\ \A i, j \in 1 .. n : i # j => s[i] # s[j]
    BY DEF SetToSeqs
  <1>3. s \in Injection(1 .. n, S)
    BY <1>2 DEF Injection, IsInjective
  <1>4. IsFiniteSet(1 .. n) /\ Cardinality(1 .. n) = n
    BY <1>1, FS_Interval
  <1>5. s \in Surjection(1 .. n, S)
    BY <1>3, <1>4, FS_Injection
  <1> HIDE DEF n
  <1>6. s \in Seq(S) /\ DOMAIN s = 1 .. Len(s)
    BY <1>1, <1>2
  <1> QED BY <1>2, <1>5, <1>6 DEF Surjection

\* The end of the rows of a page that come before the cursor made of its last.
LEMMA CursorOfRow ==
    ASSUME NEW r \in Row
    PROVE  /\ CursorOf(r) \in Cursor /\ Reached(CursorOf(r), r)
           /\ CursorOf(r).key = r.key /\ CursorOf(r).time = Millisecond(r.time)
  <1>1. r.time \in Nat /\ r.key \in Nat /\ r = [time |-> r.time, key |-> r.key]
    BY RowTypes
  <1>2. CursorOf(r) = [time |-> Millisecond(r.time), key |-> r.key]
    BY <1>1 DEF CursorOf
  <1>3. Millisecond(r.time) \in Nat /\ Millisecond(r.time) <= r.time
    BY <1>1, Milliseconds
  <1> QED BY <1>1, <1>2, <1>3 DEF Cursor, Reached

LEMMA ReachedFacts ==
    ASSUME NEW c \in Cursor, NEW d \in Cursor
    PROVE  /\ \A r \in Row : Before(r, c) \/ Reached(c, r)
           /\ \A r, q \in Row : Reached(c, q) /\ Before(r, c) => Before(r, q)
           /\ \A r, q \in Row : Reached(c, r) /\ Before(r, q) => Reached(c, q)
           /\ \A r, q \in Row : Before(r, c) /\ Reached(d, r) /\ Reached(c, q) => Reached(d, q)
  BY RowTypes DEF Cursor, Before, Reached

LEMMA BeforeTransitive ==
    \A r, q, p \in Row : Before(r, q) /\ Before(q, p) => Before(r, p)
  BY RowTypes DEF Before

LEMMA InitPagedInv == PagedInit => PagedInv
  <1> SUFFICES ASSUME PagedInit PROVE PagedInv
    OBVIOUS
  <1>1. IsFiniteSet(rows) /\ rows = {}
    BY FS_EmptySet DEF PagedInit
  <1>2. Start \in Cursor /\ reader.shown = <<>>
    BY PagedAssumption DEF Start, Cursor, PagedInit
  <1>3. PagedShapes
    BY <1>1, <1>2 DEF PagedInit, PagedShapes
  <1> QED BY <1>1, <1>2, <1>3 DEF PagedInit, PagedInv, ShownInOrder, NothingMissed

LEMMA InsertKeeps ==
    ASSUME PagedInv, NEW r \in Row, InsertRow(r)
    PROVE  PagedInv'
  <1>1. IsFiniteSet(rows')
    BY FS_AddElement DEF PagedInv, PagedShapes, InsertRow
  <1>2. PagedShapes'
    BY <1>1 DEF PagedInv, PagedShapes, InsertRow, Stored
  <1>3. Skipped \subseteq Skipped'
    BY DEF InsertRow, Skipped
  <1> QED BY <1>2, <1>3 DEF PagedInv, ShownInOrder, NothingMissed, InsertRow

LEMMA PurgeKeeps ==
    ASSUME PagedInv, NEW r \in Row, PurgeOldest(r)
    PROVE  PagedInv'
  <1>1. IsFiniteSet(rows')
    BY FS_Subset DEF PagedInv, PagedShapes, PurgeOldest
  <1>2. /\ reader' = [pc |-> reader.pc, cursor |-> reader.cursor, shown |-> reader.shown,
                      cursors |-> reader.cursors, stayed |-> reader.stayed \ {r}]
        /\ rows' = rows \ {r} /\ kind' = kind
    BY DEF PagedInv, PagedShapes, PurgeOldest
  <1>3. PagedShapes'
    BY <1>1, <1>2 DEF PagedInv, PagedShapes, Stored
  <1>4. \A q \in reader.stayed \ {r} : q \in Skipped => q \in Skipped'
    BY <1>2 DEF PagedInv, PagedShapes, Skipped
  <1> QED BY <1>2, <1>3, <1>4 DEF PagedInv, ShownInOrder, NothingMissed

LEMMA FirstPageKeeps ==
    ASSUME PagedInv, FirstPage
    PROVE  PagedInv'
  <1>1. Start \in Cursor /\ Start.time = LastInstant + 1
    BY PagedAssumption DEF Start, Cursor
  <1>2. /\ reader' = [pc |-> "reading", cursor |-> Start, shown |-> <<>>, cursors |-> {},
                      stayed |-> rows]
        /\ rows' = rows /\ kind' = kind
    BY DEF FirstPage
  <1>3. PagedShapes'
    BY <1>1, <1>2 DEF PagedInv, PagedShapes, Stored
  <1>4. \A r \in rows : Before(r, Start)
    BY <1>1, RowTypes, PagedAssumption DEF PagedInv, PagedShapes, Stored, Before
  <1> QED BY <1>2, <1>3, <1>4 DEF PagedInv, ShownInOrder, NothingMissed

\* The rows of a page, in front of those that come after them.
LEMMA PageFacts ==
    ASSUME PagedInv, NEW page \in NewestFirst(Page(reader.cursor))
    PROVE  /\ page \in Seq(Row) /\ page \in Seq(rows) /\ DOMAIN page = 1 .. Len(page)
           /\ \A i \in DOMAIN page : page[i] \in rows /\ Before(page[i], reader.cursor)
           /\ \A r \in rows : Before(r, reader.cursor) => \E i \in DOMAIN page : page[i] = r
           /\ \A i, k \in DOMAIN page : i < k => Before(page[k], page[i])
  <1> DEFINE S == Page(reader.cursor)
  <1>1. IsFiniteSet(S) /\ S \subseteq rows /\ rows \subseteq Row
        /\ \A r \in rows : r \in S <=> Before(r, reader.cursor)
    BY FS_Subset DEF PagedInv, PagedShapes, Page, Stored
  <1>2. page \in SetToSeqs(S) /\ \A i, k \in DOMAIN page : i < k => Before(page[k], page[i])
    BY DEF NewestFirst
  <1> HIDE DEF S
  <1>3. /\ page \in Seq(S) /\ DOMAIN page = 1 .. Len(page)
        /\ \A x \in S : \E i \in DOMAIN page : page[i] = x
    BY <1>1, <1>2, SeqsHoldAll
  <1>4. \A i \in DOMAIN page : page[i] \in S
    BY <1>3
  <1>5. page \in Seq(rows) /\ page \in Seq(Row)
    BY <1>1, <1>3
  <1> QED BY <1>1, <1>2, <1>3, <1>4, <1>5

LEMMA FrontOf ==
    ASSUME NEW S, NEW s \in Seq(S), NEW m \in Nat, m <= Len(s)
    PROVE  /\ SubSeq(s, 1, m) \in Seq(S) /\ Len(SubSeq(s, 1, m)) = m
           /\ \A i \in 1 .. m : SubSeq(s, 1, m)[i] = s[i]
  OBVIOUS

LEMMA Appended ==
    ASSUME NEW S, NEW s \in Seq(S), NEW t \in Seq(S)
    PROVE  /\ s \o t \in Seq(S) /\ Len(s \o t) = Len(s) + Len(t)
           /\ DOMAIN (s \o t) = 1 .. Len(s) + Len(t)
           /\ \A i \in 1 .. Len(s) : (s \o t)[i] = s[i]
           /\ \A i \in 1 .. Len(t) : (s \o t)[Len(s) + i] = t[i]
           /\ \A i \in (Len(s) + 1) .. (Len(s) + Len(t)) :
                i - Len(s) \in 1 .. Len(t) /\ (s \o t)[i] = t[i - Len(s)]
  OBVIOUS

LEMMA NextPageKeeps ==
    ASSUME PagedInv, NEW page \in NewestFirst(Page(reader.cursor)), NextPage(page)
    PROVE  PagedInv'
  <1> DEFINE n     == Len(page)
             m     == Min({PageSize, Len(page)})
             data  == SubSeq(page, 1, m)
             shown == reader.shown
             next  == CursorOf(Last(data))
             after == shown \o data
             more  == n > PageSize
  <1>0. /\ page \in Seq(Row) /\ DOMAIN page = 1 .. n /\ n \in Nat
        /\ \A i \in 1 .. n : page[i] \in rows /\ page[i] \in Row /\ Before(page[i], reader.cursor)
        /\ \A r \in rows : Before(r, reader.cursor) => \E i \in 1 .. n : page[i] = r
        /\ \A i, k \in 1 .. n : i < k => Before(page[k], page[i])
    <2>1. rows \subseteq Row
      BY DEF PagedInv, PagedShapes, Stored
    <2>2. page \in Seq(Row) /\ DOMAIN page = 1 .. n /\ n \in Nat
      BY PageFacts
    <2> QED BY <2>1, <2>2, PageFacts
  <1>1. m \in Nat /\ m <= n /\ (IF more THEN m = PageSize ELSE m = n) /\ PageSize \in Nat \ {0}
    <2>1. PageSize \in Nat \ {0} /\ n \in Nat
      BY <1>0, PagedAssumption
    <2>2. \E x \in {PageSize, n} : \A y \in {PageSize, n} : x <= y
      BY <2>1
    <2>3. m \in {PageSize, n} /\ \A y \in {PageSize, n} : m <= y
      BY <2>2 DEF Min
    <2> QED BY <2>1, <2>3
  <1> HIDE DEF m
  <1>11. \A i \in 1 .. m : i \in 1 .. n
    <2>1. n \in Nat /\ m \in Nat /\ m <= n
      BY <1>0, <1>1
    <2> HIDE DEF n
    <2> QED BY <2>1
  <1>2. /\ data \in Seq(Row) /\ Len(data) = m /\ DOMAIN data = 1 .. m
        /\ \A i \in 1 .. m : data[i] = page[i]
    <2>1. data \in Seq(Row) /\ Len(data) = m /\ \A i \in 1 .. m : data[i] = page[i]
      BY <1>0, <1>1, FrontOf
    <2> HIDE DEF data
    <2> QED BY <2>1
  <1>3. /\ shown \in Seq(Row) /\ Len(shown) \in Nat /\ DOMAIN shown = 1 .. Len(shown)
        /\ \A i \in 1 .. Len(shown) : shown[i] \in Row
    BY DEF PagedInv, PagedShapes
  <1>4. /\ after \in Seq(Row) /\ DOMAIN after = 1 .. Len(shown) + m
        /\ \A i \in 1 .. Len(shown) : after[i] = shown[i]
        /\ \A i \in 1 .. m : after[Len(shown) + i] = page[i]
        /\ \A i \in (Len(shown) + 1) .. (Len(shown) + m) :
             i - Len(shown) \in 1 .. m /\ after[i] = page[i - Len(shown)]
    <2> HIDE DEF data, shown
    <2>1. /\ after \in Seq(Row) /\ DOMAIN after = 1 .. Len(shown) + Len(data)
          /\ \A i \in 1 .. Len(shown) : after[i] = shown[i]
          /\ \A i \in 1 .. Len(data) : after[Len(shown) + i] = data[i]
          /\ \A i \in (Len(shown) + 1) .. (Len(shown) + Len(data)) :
               i - Len(shown) \in 1 .. Len(data) /\ after[i] = data[i - Len(shown)]
      <3>1. shown \in Seq(Row) /\ data \in Seq(Row)
        BY <1>2, <1>3
      <3> QED BY <3>1, Appended
    <2> HIDE DEF after
    <2> QED BY <1>2, <2>1
  <1>5. /\ reader.pc = "reading" /\ rows' = rows /\ kind' = kind
        /\ reader' = [pc |-> IF more THEN "reading" ELSE "done",
                      cursor |-> IF more THEN next ELSE reader.cursor, shown |-> after,
                      cursors |-> IF more THEN reader.cursors \cup {next} ELSE reader.cursors,
                      stayed |-> reader.stayed]
    BY DEF PagedInv, PagedShapes, NextPage, m
  <1>6. more => /\ m \in 1 .. n /\ next = CursorOf(page[m]) /\ next \in Cursor
                /\ Reached(next, page[m]) /\ next.key = page[m].key
                /\ next.time = Millisecond(page[m].time)
    <2> SUFFICES ASSUME more PROVE /\ m \in 1 .. n /\ next = CursorOf(page[m]) /\ next \in Cursor
                /\ Reached(next, page[m]) /\ next.key = page[m].key
                /\ next.time = Millisecond(page[m].time)
      OBVIOUS
    <2>1. m \in 1 .. n
      BY <1>1
    <2>2. Last(data) = page[m]
      BY <1>2, <2>1 DEF Last
    <2> HIDE DEF data
    <2>3. page[m] \in Row
      BY <1>0, <2>1
    <2> QED BY <2>1, <2>2, <2>3, CursorOfRow
  <1> HIDE DEF data, after, shown, next
  <1>7. PagedShapes'
    <2>1. reader.cursor \in Cursor /\ reader.cursors \in SUBSET Cursor /\ reader.stayed \in SUBSET rows
      BY DEF PagedInv, PagedShapes
    <2> QED BY <1>4, <1>5, <1>6, <2>1 DEF PagedInv, PagedShapes, Stored
  <1>8. \A i, k \in DOMAIN after : i < k => Before(after[k], after[i])
    <2> SUFFICES ASSUME NEW i \in DOMAIN after, NEW k \in DOMAIN after, i < k
                 PROVE  Before(after[k], after[i])
      OBVIOUS
    <2>0. i \in 1 .. (Len(shown) + m) /\ k \in 1 .. (Len(shown) + m) /\ Len(shown) \in Nat
      BY <1>3, <1>4
    <2>1. CASE k <= Len(shown)
      <3>1. i \in 1 .. Len(shown) /\ k \in 1 .. Len(shown)
        BY <2>0, <2>1
      <3> QED BY <1>3, <1>4, <3>1 DEF PagedInv, ShownInOrder, shown
    <2>2. CASE i > Len(shown)
      <3>1. /\ i - Len(shown) \in 1 .. m /\ k - Len(shown) \in 1 .. m
            /\ i - Len(shown) < k - Len(shown)
            /\ after[i] = page[i - Len(shown)] /\ after[k] = page[k - Len(shown)]
        BY <1>1, <1>4, <2>0, <2>2
      <3>2. i - Len(shown) \in 1 .. n /\ k - Len(shown) \in 1 .. n
        BY <1>11, <3>1
      <3> QED BY <1>0, <3>1, <3>2
    <2>3. CASE i <= Len(shown) /\ k > Len(shown)
      <3>1. /\ i \in 1 .. Len(shown) /\ after[i] = shown[i] /\ after[i] \in Row
            /\ k - Len(shown) \in 1 .. m /\ after[k] = page[k - Len(shown)]
        BY <1>1, <1>3, <1>4, <2>0, <2>3
      <3>2. k - Len(shown) \in 1 .. n
        BY <1>11, <3>1
      <3>3. after[k] \in Row /\ Before(after[k], reader.cursor)
        BY <1>0, <3>1, <3>2
      <3>4. Reached(reader.cursor, after[i]) /\ reader.cursor \in Cursor
        BY <1>3, <1>5, <3>1 DEF PagedInv, PagedShapes, ShownInOrder, shown
      <3> QED BY <3>1, <3>3, <3>4, ReachedFacts
    <2> QED BY <2>0, <2>1, <2>2, <2>3
  <1>9. more => \A i \in DOMAIN after : Reached(next, after[i])
    <2> SUFFICES ASSUME more, NEW i \in DOMAIN after PROVE Reached(next, after[i])
      OBVIOUS
    <2>0. /\ i \in 1 .. (Len(shown) + m) /\ Len(shown) \in Nat
          /\ m \in 1 .. n /\ page[m] \in Row /\ Reached(next, page[m]) /\ next \in Cursor
      BY <1>0, <1>3, <1>4, <1>6
    <2>1. CASE i > Len(shown)
      <3>1. i - Len(shown) \in 1 .. m /\ after[i] = page[i - Len(shown)]
        BY <1>1, <1>4, <2>0, <2>1
      <3>2. i - Len(shown) \in 1 .. n /\ after[i] \in Row
        BY <1>0, <1>1, <3>1
      <3>3. CASE i - Len(shown) = m
        BY <2>0, <3>1, <3>3
      <3>4. CASE i - Len(shown) < m
        <4>1. Before(page[m], after[i])
          BY <1>0, <2>0, <3>1, <3>2, <3>4
        <4> QED BY <2>0, <3>2, <4>1, ReachedFacts
      <3> QED BY <2>0, <3>1, <3>3, <3>4
    <2>2. CASE i <= Len(shown)
      <3>1. after[i] = shown[i] /\ after[i] \in Row /\ i \in 1 .. Len(shown)
        BY <1>3, <1>4, <2>0, <2>2
      <3>2. Reached(reader.cursor, after[i]) /\ reader.cursor \in Cursor
        BY <1>3, <1>5, <3>1 DEF PagedInv, PagedShapes, ShownInOrder, shown
      <3>3. Before(page[m], reader.cursor)
        BY <1>0, <2>0
      <3> QED BY <2>0, <3>1, <3>2, <3>3, ReachedFacts
    <2> QED BY <2>0, <2>1, <2>2
  <1>10. ASSUME NEW r \in reader.stayed
         PROVE  \/ \E i \in DOMAIN after : after[i] = r
                \/ more /\ Before(r, next)
                \/ r \in Skipped'
    <2>0. r \in rows /\ r \in Row /\ r \in Stored(kind)
      BY DEF PagedInv, PagedShapes, Stored
    <2>1. CASE \E i \in DOMAIN shown : shown[i] = r
      BY <1>1, <1>3, <1>4, <2>1
    <2>2. CASE r \in Skipped
      BY <1>5, <2>2 DEF Skipped
    <2>3. CASE Before(r, reader.cursor)
      <3>1. PICK i \in 1 .. n : page[i] = r
        BY <1>0, <2>0, <2>3
      <3>2. CASE i <= m
        <4>1. i \in 1 .. m /\ Len(shown) + i \in 1 .. (Len(shown) + m)
          BY <1>1, <1>3, <3>2
        <4> QED BY <1>4, <3>1, <4>1
      <3>3. CASE i > m
        <4>1. more /\ m \in 1 .. n
          BY <1>1, <1>6, <3>3
        <4> DEFINE last == page[m]
        <4>2. Before(r, last) /\ last \in Row /\ last \in Stored(kind)
          BY <1>0, <3>1, <3>3, <4>1 DEF PagedInv, PagedShapes
        <4>3. next.time = Millisecond(last.time) /\ next.key = last.key /\ next \in Cursor
          BY <1>6, <4>1
        <4> HIDE DEF last
        <4>4. /\ r.time \in Nat /\ r.key \in Nat /\ last.time \in Nat /\ last.key \in Nat
              /\ Millisecond(last.time) \in Nat
          BY <2>0, <4>2, RowTypes, Milliseconds
        <4>5. CASE kind = "audit_event"
          <5>1. next.time = last.time
            BY <4>2, <4>3, <4>4, <4>5, Milliseconds DEF Stored
          <5> QED BY <4>1, <4>2, <4>3, <4>4, <5>1 DEF Before
        <4>6. CASE kind = "request_log"
          <5>1. CASE r.time < next.time
            BY <4>1, <5>1 DEF Before
          <5>2. CASE ~(r.time < next.time)
            <6>1. Millisecond(last.time) <= r.time /\ r.time <= last.time
              BY <4>2, <4>3, <4>4, <5>2 DEF Before
            <6>2. Millisecond(r.time) = next.time
              BY <4>3, <4>4, <6>1, Milliseconds
            <6> QED BY <1>5, <2>0, <4>1, <4>6, <6>2 DEF Skipped
          <5> QED BY <5>1, <5>2
        <4> QED BY <4>5, <4>6 DEF PagedInv, PagedShapes
      <3> QED BY <1>1, <3>2, <3>3
    <2> QED BY <2>1, <2>2, <2>3 DEF PagedInv, NothingMissed, shown
  <1>12. ShownInOrder'
    BY <1>5, <1>8, <1>9 DEF ShownInOrder
  <1>13. NothingMissed'
    BY <1>5, <1>10 DEF NothingMissed
  <1> QED BY <1>7, <1>12, <1>13 DEF PagedInv

LEMMA PagedInductive == PagedSpec => []PagedInv
  <1>1. PagedInv /\ [PagedNext]_pagedVars => PagedInv'
    <2> SUFFICES ASSUME PagedInv, [PagedNext]_pagedVars PROVE PagedInv'
      OBVIOUS
    <2>1. CASE PassInstant \/ UNCHANGED pagedVars
      BY <2>1 DEF pagedVars, PassInstant, PagedInv, PagedShapes, ShownInOrder, NothingMissed, Skipped
    <2> QED BY <2>1, InsertKeeps, PurgeKeeps, FirstPageKeeps, NextPageKeeps DEF PagedNext
  <1> QED BY <1>1, InitPagedInv, PTL DEF PagedSpec

\* For any page size, precision of the clock and number of rows, whatever is stored
\* or purged between two pages, no row is returned twice and none that stayed is
\* missed, but for those of the request log that Skipped names (AuditService.query
\* and AdminService.queryLogs).
THEOREM PagesAreComplete == PagedSpec => []PagesComplete
  <1>1. PagedInv => PagesComplete
    <2> SUFFICES ASSUME PagedInv PROVE PagesComplete
      OBVIOUS
    <2>1. ASSUME NEW i \in 1 .. Len(reader.shown) - 1
          PROVE  Before(reader.shown[i + 1], reader.shown[i])
      <3>1. i \in DOMAIN reader.shown /\ i + 1 \in DOMAIN reader.shown /\ i < i + 1
        BY DEF PagedInv, PagedShapes
      <3> QED BY <3>1 DEF PagedInv, ShownInOrder
    <2>2. reader.pc = "done" => reader.stayed \subseteq Range(reader.shown) \cup Skipped
      BY DEF PagedInv, NothingMissed, Range
    <2> QED BY <2>1, <2>2 DEF PagesComplete
  <1> QED BY <1>1, PagedInductive, PTL
=============================================================================
