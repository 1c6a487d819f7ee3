--------------------------- MODULE MCAuditArchive ---------------------------
(* Instances of AuditArchive for TLC. *)
EXTENDS AuditArchive

CONSTANTS e1, w1

\* "exclusive": the lock outlasts every run of the jobs; four days, several of
\* which may fail.  "overrun": a run outlasts its lock and the next one starts
\* beside it, and an administrator verifies meanwhile; one event, one fault, and
\* all of it on the second day.
VARIABLE mode

MCInit == Init /\ mode \in {"exclusive", "overrun"}

Exclusive == mode = "exclusive" =>
    /\ \A w \in Worker \ {w1} : work'[w] = NoWork
    /\ \A v \in Verifier : check'[v].pc = "idle"
    /\ lock /\ ~lock' /\ UNCHANGED work => work[w1] = NoWork

Overrunning == mode = "overrun" =>
    /\ faults' <= 1
    /\ \A e \in Event : occurred'[e] \in {None, 1} /\ (e # e1 => occurred'[e] = None)
    /\ today' > 2 => /\ faults' = faults
                    /\ \A w \in Worker \ {w1} : work'[w] = NoWork
                    /\ \A v \in Verifier : check'[v].pc = "idle"

MCNext == Next /\ UNCHANGED mode /\ Exclusive /\ Overrunning

MCSpec == MCInit /\ [][MCNext]_<<vars, mode>>

\* The fairness of FairSpec, for the one worker of the exclusive mode.
MCFairSpec ==
    /\ MCSpec
    /\ WF_vars(NewDay)
    /\ WF_vars(ExpireLock)
    /\ WF_vars(DailySkipped \/ DailyTick(w1))
    /\ WF_vars(Step(w1)) /\ SF_vars(RetryTick(w1))

\* VerifiedMatchesObjects where a run ends within its lock: two runs beside each
\* other put objects that only one of the two rows describes.
VerifiedMatchesObjectsExclusively == mode = "exclusive" => VerifiedMatchesObjects

\* FailedIsRetried where a run ends within its lock.
FailedIsRetriedExclusively ==
    mode = "exclusive" => FailedIsRetried
=============================================================================
