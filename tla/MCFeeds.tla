------------------------------ MODULE MCFeeds ------------------------------
(***************************************************************************)
(* The realtime feeds, the polls, the matching of trips, the paging of     *)
(* planned trips and the requests to TfNSW.  Each part is run with the     *)
(* others at rest.                                                         *)
(***************************************************************************)
EXTENDS RealtimeFeeds, TripMatch, TripPlanner, TfnswClient

CONSTANTS p1, q1, r1, r2, j1, j2, j3, j4

VARIABLE part

vars == <<feedVars, tripVars, plannerVars, tfnswVars, part>>

OneProc == [x \in Reader \cup Client |-> p1]

\* Items that differ in what the rules tell apart.
SomeFeeds ==
    LET items == {i \in Item : i.direction # "none" /\ i.first # "none" /\
                             (i.id # "other" => i.family /\ i.direction = "same" /\ ~i.date /\ i.start = "far")}
    IN  BoundedSeq(items, 2)

\* Four journeys, two of the same minute, on time, early or late.
SomeTimetables ==
    LET timed(m, edge) == [planned : {m}, estimated : {NoTime, m - 1, m + 2}, edge : edge]
    IN  {j1 :> a @@ j2 :> b @@ j3 :> c @@ j4 :> d :
           a \in timed(1, {TRUE}), b \in timed(2, BOOLEAN), c \in timed(2, {TRUE}), d \in timed(4, {TRUE})}

OnTime == CHOOSE t \in Timetables : \A j \in Journey : t[j].estimated = NoTime /\ t[j].edge

Whole == [line |-> TRUE, direction |-> TRUE, date |-> TRUE, time |-> TRUE]

InitFeeds ==
    /\ part \in {"cache", "poll", "match", "stops", "plan", "tfnsw"}
    /\ FeedInit /\ TfnswInit
    /\ \/ /\ part \notin {"match", "stops"} /\ asked = Whole
          /\ feed = <<>> /\ planned = {} /\ live = <<>> /\ answer = NotAsked
       \/ part = "match" /\ planned = {} /\ live = <<>> /\ TripInit
       \/ part = "stops" /\ feed = <<>> /\ asked = Whole /\ TripInit
    /\ \/ part = "plan"
       \/ part # "plan" /\ arriveBy = FALSE /\ timetable = OnTime /\ requested = 1
    /\ PlannerInit

NextFeeds ==
    /\ UNCHANGED part
    /\ part = "plan" \/ UNCHANGED plannerVars
    /\ \/ /\ part = "cache" /\ FeedNext /\ UNCHANGED <<tripVars, tfnswVars, client>>
          /\ read'[q1].pc = "idle"
          /\ read'[r1].path \in {<<"feed">>, <<"intercity", "feed">>}
          /\ read'[r2].path \in {<<"feed">>, <<"trackIntercity", "intercity", "feed">>}
       \/ /\ part = "poll" /\ FeedNext /\ UNCHANGED <<tripVars, tfnswVars, failures>>
          /\ \A r \in Reader \ Poller : read'[r].pc = "idle"
       \/ part \in {"match", "stops"} /\ TripNext /\ UNCHANGED <<feedVars, tfnswVars>>
       \/ part = "plan" /\ PlannerNext /\ UNCHANGED <<feedVars, tripVars, tfnswVars>>
       \/ part = "tfnsw" /\ TfnswNext /\ UNCHANGED <<feedVars, tripVars>>

FairnessFeeds ==
    /\ WF_feedVars(part = "poll" /\ FeedTick)
    /\ \A r \in Poller : /\ WF_feedVars(part = "poll" /\ ReadStep(r))
                         /\ WF_feedVars(part = "poll" /\ BeginPoll(r))
                         /\ SF_feedVars(part = "poll" /\ FetchEnds(r, "trip"))
    /\ WF_tfnswVars(part = "tfnsw" /\ TfnswTick)
    /\ \A r \in TfnswRole : WF_tfnswVars(part = "tfnsw" /\ AcquireSlot(r))
    /\ \A c \in Call : /\ WF_tfnswVars(part = "tfnsw" /\ \E a \in Answers : ReceiveAnswer(c, a))
                       /\ WF_tfnswVars(part = "tfnsw" /\ WakeUp(c))

SpecFeeds == InitFeeds /\ [][NextFeeds]_vars /\ FairnessFeeds
=============================================================================
