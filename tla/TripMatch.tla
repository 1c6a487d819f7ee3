------------------------------ MODULE TripMatch ------------------------------
(***************************************************************************)
(* Which live trip a planned one is, and its stops                         *)
(* (RealtimeService.trackTrip, findRealtimeMatch, enrichStopTimeUpdates).  *)
(*                                                                         *)
(* An item of a feed is described by how it compares with the reference:   *)
(* its id, line, direction, date, start time and first stop; a stop of a   *)
(* trip by its sequence number, 0 for a live one that has none.            *)
(***************************************************************************)
EXTENDS Integers, Sequences, SequencesExt, FiniteSets, FiniteSetsExt, Functions

CONSTANTS
    Feeds,        \* the feeds that are looked at
    StopSequence, \* stop_sequence
    MaxStops      \* live stop-time updates of a trip

VARIABLES
    asked,   \* what the caller knows of the trip
    feed,    \* the items of the feed
    planned, \* the stops of the static schedule, in any order
    live,    \* the live stops, by number
    answer   \* the position of the item found, and the stops

tripVars == <<asked, feed, planned, live, answer>>

Item == [id : {"exact", "like", "other"},       \* normalised and a prefix: "like"
         family : BOOLEAN,                      \* lineFor says the same
         direction : {"same", "other", "none"},
         date : BOOLEAN,                        \* the same startDate
         start : {"near", "far", "none"},       \* within three minutes
         first : {"near", "far", "none"}]       \* scheduled within two minutes

ASSUME TripAssumption ==
    /\ StopSequence \subseteq Nat \ {0} /\ IsFiniteSet(StopSequence) /\ MaxStops \in Nat
    /\ Feeds \subseteq Seq(Item)

Asked == [line : BOOLEAN, direction : BOOLEAN, date : BOOLEAN, time : BOOLEAN]

\* timesWithin: two missing times count as the same.
TimesWithin(item, ref) ==
    IF item.start = "none" \/ ~ref.time THEN item.start = "none" /\ ~ref.time ELSE item.start = "near"

\* The first of the four rules that holds, or 5.
Tier(item, ref) ==
    LET line == ref.line /\ item.family /\ (ref.direction => item.direction # "other")
    IN  CASE item.id = "exact" -> 1
          [] item.id = "like" -> 2
          [] item.id = "other" /\ line /\ ref.date /\ item.date /\ TimesWithin(item, ref) -> 3
          [] item.id = "other" /\ line /\ ~(ref.date /\ item.date /\ TimesWithin(item, ref))
             /\ ref.date /\ ref.time /\ item.first = "near" -> 4
          [] OTHER -> 5

\* The tier of the item at a position, bestTier; 0 is the position of none.
TierAt(items, i, ref) == IF i = 0 THEN 5 ELSE Tier(items[i], ref)

\* Mutant: a later item of the same tier takes the place of an earlier one.
FindLast(items, ref) ==
    LET best[n \in 0 .. Len(items)] ==
          IF n = 0 THEN 0
          ELSE IF TierAt(items, n, ref) < 5 /\ TierAt(items, n, ref) <= TierAt(items, best[n - 1], ref)
               THEN n ELSE best[n - 1]
    IN  best[Len(items)]

\* findRealtimeMatch: the position of the best of the first n items, 0 if there is none.
FindRealtimeMatch(items, ref) ==
    LET best[n \in 0 .. Len(items)] ==
          IF n = 0 THEN 0
          ELSE IF TierAt(items, n, ref) < TierAt(items, best[n - 1], ref) THEN n ELSE best[n - 1]
    IN  best[Len(items)]

\* A live stop in the answer: its position in the feed; a planned one: its number.
LiveStop(i)    == [live |-> TRUE, of |-> i]
PlannedStop(n) == [live |-> FALSE, of |-> n]

\* The members of a set of numbers, sorted.
Ascending(S) ==
    CHOOSE s \in [1 .. Cardinality(S) -> S] :
      Range(s) = S /\ \A i, j \in DOMAIN s : i < j => s[i] < s[j]

\* A planned stop in the answer: the last live update of its number, if there is one.
StopFor(n, updates) ==
    LET at == {j \in DOMAIN updates : updates[j] = n}
    IN  IF at = {} THEN PlannedStop(n) ELSE LiveStop(Max(at))

\* enrichStopTimeUpdates: each planned stop, in order; then the live ones that are
\* not planned, as they came.
EnrichStopTimeUpdates(stops, updates) ==
    LET inPlan == Ascending(stops)
        added  == Ascending({j \in DOMAIN updates : updates[j] \notin stops})
    IN  IF stops = {} THEN [j \in DOMAIN updates |-> LiveStop(j)]
        ELSE [i \in DOMAIN inPlan |-> StopFor(inPlan[i], updates)] \o [k \in DOMAIN added |-> LiveStop(added[k])]

NotAsked == [found |-> 0, stops |-> <<>>, given |-> FALSE]

TripTypeOK ==
    /\ asked \in Asked /\ Range(feed) \subseteq Item /\ planned \subseteq StopSequence
    /\ answer.found \in 0 .. Len(feed) /\ answer.given \in BOOLEAN

TripInit ==
    /\ asked \in Asked /\ feed \in Feeds
    /\ planned \in SUBSET StopSequence /\ live \in BoundedSeq(StopSequence \cup {0}, MaxStops)
    /\ answer = NotAsked

\* trackTrip on one feed; without live stops there is nothing to enrich, and if the
\* schedule cannot be read they stay as they are.
TrackTrip ==
    /\ ~answer.given
    /\ \E readable \in BOOLEAN :
         answer' = [found |-> FindRealtimeMatch(feed, asked), given |-> TRUE,
                    stops |-> IF live = <<>> THEN <<>>
                              ELSE EnrichStopTimeUpdates(IF readable THEN planned ELSE {}, live)]
    /\ UNCHANGED <<asked, feed, planned, live>>

TripNext == TrackTrip

TripSpec == TripInit /\ [][TripNext]_tripVars

-----------------------------------------------------------------------------
(* Properties. *)

\* The answer is the first item of the feed that no other beats, by a rule that
\* applies to it; its stops are every planned stop, once and in order, and
\* no live stop is lost but for another of the same number.
TripIsJoined ==
    answer.given =>
      /\ LET applies == {i \in DOMAIN feed : Tier(feed[i], asked) < 5}
         IN  IF applies = {} THEN answer.found = 0
             ELSE /\ answer.found \in applies
                  /\ \A i \in applies :
                       \/ Tier(feed[answer.found], asked) < Tier(feed[i], asked)
                       \/ Tier(feed[answer.found], asked) = Tier(feed[i], asked) /\ answer.found <= i
      /\ LET number(s) == IF s.live THEN live[s.of] ELSE s.of
             shown  == [i \in DOMAIN answer.stops |-> number(answer.stops[i])]
             inPlan == {i \in DOMAIN shown : shown[i] \in planned}
         IN  \/ /\ planned \subseteq Range(shown)
                /\ \A i, k \in inPlan : i < k => shown[i] < shown[k]
             \/ answer.stops = [j \in DOMAIN live |-> LiveStop(j)]
      /\ \A j \in DOMAIN live :
           \E i \in DOMAIN answer.stops :
             \/ answer.stops[i] = LiveStop(j)
             \/ answer.stops[i].live /\ live[answer.stops[i].of] = live[j] /\ answer.stops[i].of > j
=============================================================================
