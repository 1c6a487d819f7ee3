----------------------------- MODULE TripPlanner -----------------------------
(***************************************************************************)
(* Planning a journey and paging to later ones, or for an arrival time to  *)
(* earlier ones (TripPlannerService.planTrip): each answer of TfNSW is     *)
(* filtered and sorted by the times as estimated, and its context token    *)
(* asks for what lies beyond the planned time of one of its journeys.      *)
(*                                                                         *)
(* A time is a minute.  TfNSW, which is not under src/, answers with the   *)
(* journeys nearest the minute that is asked for, by their planned times.  *)
(***************************************************************************)
EXTENDS Integers, Sequences, SequencesExt, FiniteSets, FiniteSetsExt, Functions

CONSTANTS
    Journey,
    Timetables,    \* of each journey: its minutes as planned and as estimated, or
                   \* NoTime, and whether its first (for an arrival, last) leg has one
    NoTime,
    AskedFor,      \* minutes that may be asked for first
    PerPage,       \* calcNumberOfTrips
    MaxChanged     \* bound: estimates that change

ASSUME PlannerAssumption ==
    /\ IsFiniteSet(Journey) /\ NoTime \notin Int /\ AskedFor \subseteq Nat
    /\ PerPage \in 1 .. 6 /\ MaxChanged \in Nat
    /\ Timetables \subseteq [Journey -> [planned : Nat, estimated : Nat \cup {NoTime}, edge : BOOLEAN]]

VARIABLES
    arriveBy,   \* the direction of the search
    timetable,
    requested,  \* the minute that is asked for first
    asks,       \* the minute the next page asks for
    strayed,    \* journeys that were estimated on the other side of their plan
    pages,      \* the journeys of each page, in order
    edges,      \* the planned minutes that tokens were made of
    paging,     \* "on", or why it ended
    changed     \* estimates that have changed

plannerVars == <<arriveBy, timetable, requested, asks, strayed, pages, edges, paging, changed>>

PlannerTypeOK ==
    /\ arriveBy \in BOOLEAN /\ timetable \in Timetables /\ requested \in AskedFor /\ asks \in Int
    /\ strayed \subseteq Journey
    /\ \A p \in Range(pages) : Range(p) \subseteq Journey
    /\ edges \subseteq Nat /\ paging \in {"on", "exhausted", "filtered", "untimed", "error"}
    /\ changed \in 0 .. MaxChanged

Estimates(j) == {t[j].estimated : t \in Timetables}

Planned(j) == timetable[j].planned

\* Not before the minute m, or for an arrival not after it.
Serves(t, m) == IF arriveBy THEN t <= m ELSE t >= m
Sooner(t, u) == IF arriveBy THEN t > u ELSE t < u

\* tripBoundary: the first leg with a time, estimated if it is.
BoundaryIn(t, j) == IF t[j].estimated # NoTime THEN t[j].estimated ELSE t[j].planned
TripBoundary(j)  == BoundaryIn(timetable, j)
Strays(t) == {j \in Journey : ~Serves(BoundaryIn(t, j), t[j].planned)}

PlannerInit ==
    /\ arriveBy \in BOOLEAN /\ timetable \in Timetables
    /\ requested \in AskedFor /\ asks = requested /\ strayed = Strays(timetable)
    /\ pages = <<>> /\ edges = {} /\ paging = "on" /\ changed = 0

\* TfNSW: the PerPage journeys that come next after the minute.
NextJourneys(m) ==
    LET serving == {j \in Journey : Serves(Planned(j), m)}
    IN  {S \in SUBSET serving :
           /\ Cardinality(S) = Min({PerPage, Cardinality(serving)})
           /\ \A j \in S, k \in serving \ S : ~Sooner(Planned(k), Planned(j))}

\* filterAndSortTrips
FilterAndSortTrips(S, m) ==
    {s \in SetToSeqs({j \in S : Serves(TripBoundary(j), m)}) :
       \A i, k \in DOMAIN s : i < k => ~Sooner(TripBoundary(s[k]), TripBoundary(s[i]))}

\* The journey the token is made of: the last, or for an arrival the first.
BoundaryTrip(page) == IF arriveBy THEN page[1] ELSE Last(page)

\* Mutant: the minute the journey is estimated at.
BoundaryEstimated(j) == TripBoundary(j)

\* boundaryTime, of one leg only.
BoundaryTime(j) == Planned(j)

\* The token is not made without a time.
PlanTrip ==
    /\ paging = "on"
    /\ \E S \in NextJourneys(asks) : \E page \in FilterAndSortTrips(S, asks) :
         LET last  == BoundaryTrip(page)
             timed == page # <<>> /\ timetable[last].edge
         IN  /\ pages' = Append(pages, page)
             /\ paging' = IF S = {} THEN "exhausted" ELSE IF page = <<>> THEN "filtered"
                          ELSE IF ~timed THEN "untimed" ELSE "on"
             /\ asks' = IF ~timed THEN asks
                        ELSE IF arriveBy THEN BoundaryTime(last) - 1 ELSE BoundaryTime(last) + 1
             /\ edges' = IF timed THEN edges \cup {Planned(last)} ELSE edges
    /\ UNCHANGED <<arriveBy, timetable, requested, strayed, changed>>

\* TfNSW fails, or the token is refused: in some engines its hour at midnight is 24.
PlanFails ==
    /\ paging = "on" /\ paging' = "error"
    /\ UNCHANGED <<arriveBy, timetable, requested, asks, strayed, pages, edges, changed>>

\* An estimate changes between two pages.
Reestimate(j, minute) ==
    /\ paging = "on" /\ pages # <<>> /\ changed < MaxChanged /\ changed' = changed + 1
    /\ timetable' = [timetable EXCEPT ![j].estimated = minute]
    /\ timetable' \in Timetables
    /\ strayed' = strayed \cup Strays(timetable')
    /\ UNCHANGED <<arriveBy, requested, asks, pages, edges, paging>>

PlannerNext ==
    \/ PlanTrip \/ PlanFails
    \/ \E j \in Journey : \E minute \in Estimates(j) : Reestimate(j, minute)

PlannerSpec == PlannerInit /\ [][PlannerNext]_plannerVars

-----------------------------------------------------------------------------
(* Properties. *)

\* Whoever follows the tokens until TfNSW has no more journeys was shown every one
\* whose estimate kept to the asked side of its plan, however the others were
\* late, early, filtered or estimated anew meanwhile; except those of the very
\* minute a token was made of (planTrip, filterAndSortTrips).
EveryJourneyShown ==
    paging = "exhausted" =>
      \A j \in Journey :
        Serves(Planned(j), requested) /\ Planned(j) \notin edges /\ j \notin strayed
        => \E p \in Range(pages) : j \in Range(p)
=============================================================================
