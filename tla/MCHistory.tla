----------------------------- MODULE MCHistory -----------------------------
(***************************************************************************)
(* The sampler and its rollups, the figures in them, and the alerts that   *)
(* follow from the snapshots.  The alerts are run on any snapshots, so     *)
(* that the parts are run one at a time, with the others at rest.          *)
(***************************************************************************)
EXTENDS HistorySampler, LineAlerts, LinePerformance, TLC

CONSTANTS c1, p1, s1, t1, t2, t3, T1, T2, Nowhere

VARIABLE part

vars == <<samplerVars, alertVars, figureVars, part>>

\* One replica scans twice at a time, or two do.
FirstOwnsFirst == [s \in Scan |-> IF s = s1 THEN p1 ELSE CHOOSE p \in Replica : p # p1]

SomeSnapshots == {[tracked |-> 10, delayed |-> 3, cancelled |-> 0, disruptions |-> 0],
                  [tracked |-> 10, delayed |-> 1, cancelled |-> 0, disruptions |-> 1]}

TwoLines == [t \in Trips |-> IF t = t3 THEN T2 ELSE T1]

\* Two trips of one line that run early, late or not at all, one of another; and what
\* else a sample has, at one of three times.
SomeInputs ==
    LET late  == [seen |-> TRUE, cancelled |-> FALSE, skipped |-> TRUE, delay |-> 400]
        early == [seen |-> TRUE, cancelled |-> FALSE, skipped |-> FALSE, delay |-> -61]
        gone  == [late EXCEPT !.cancelled = TRUE]
        rest  == {[seats |-> <<>>, alerts |-> <<>>, peak |-> TRUE, scheduled |-> 0],
                  [seats |-> <<<<T1, 2>>, <<T1, -1>>>>, alerts |-> <<<<{T1}, 3>>>>, peak |-> FALSE, scheduled |-> 2],
                  [seats |-> <<<<T1, 4>>, <<T1, 1>>>>, alerts |-> <<<<{}, 5>>, <<{T1, T2}, 1>>>>, peak |-> TRUE, scheduled |-> 1]}
    IN  {[trips |-> t1 :> a @@ t2 :> b @@ t3 :> c, seats |-> r.seats, alerts |-> r.alerts,
          peak |-> r.peak, scheduled |-> r.scheduled] :
            a \in {Absent, late, early, gone}, b \in {late, gone}, c \in {Absent, early}, r \in rest}

\* Sampling across a midnight, three times with trips of one kind and twice with
\* trips of both; and a backfill or purge at the start of the days with samples one
\* at a time.
InitHistory ==
    /\ SamplerInit /\ AlertInit /\ FiguresInit
    /\ \/ part \in {"oneKind", "bothKinds"} /\ now = 2 /\ summer = 0 /\ ~quiet
       \/ part = "rebuild" /\ now \in {0, 1} /\ ~quiet
       \/ part = "alerts" /\ now = 0 /\ summer = 0
       \/ part = "figures" /\ now = 0 /\ summer = 0 /\ ~quiet

TwoSamples == taken' <= 2 /\ (taken = 2 => \A r \in Sampler : ~Tick(r))

NextHistory ==
    /\ UNCHANGED part
    /\ \/ /\ part \in {"oneKind", "bothKinds"} /\ SamplerNext
          /\ UNCHANGED <<alertVars, figureVars>> /\ admin' = 0 /\ now' <= 3
          /\ IF part = "oneKind" THEN \A r \in Sampler : run'[r].new \subseteq Cancelled
             ELSE TwoSamples /\ \A r \in Sampler : run'[r].new \subseteq {c1} \cup Skipped
       \/ /\ part = "rebuild" /\ SamplerNext /\ UNCHANGED <<alertVars, figureVars>>
          /\ TwoSamples /\ \A r \in Sampler : run'[r].new \subseteq {c1}
          /\ Cardinality({r \in Sampler : run'[r].pc # "idle"}) <= 1
          /\ faults' = faults \/ BackfillFails
       \/ /\ part = "alerts" /\ AlertNext /\ UNCHANGED <<samplerVars, figureVars>>
       \/ /\ part = "figures" /\ FiguresNext /\ UNCHANGED <<samplerVars, alertVars>>

FairnessHistory ==
    /\ WF_alertVars(part = "alerts" /\ FiveMinutes)
    /\ \A s \in Scan : WF_alertVars(part = "alerts" /\ ScanStep(s))

SpecHistory == InitHistory /\ [][NextHistory]_vars /\ FairnessHistory
=============================================================================
