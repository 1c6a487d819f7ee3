---------------------------- MODULE RealtimeFeeds ----------------------------
(***************************************************************************)
(* The realtime feeds as they are cached and served (src/realtime): a feed *)
(* read through Redis, the last good snapshot that covers a feed that      *)
(* comes back empty, the intercity part of the trains feed, the tracked    *)
(* trip, and the polling that publishes it to its subscribers.             *)
(*                                                                         *)
(* One feed of TfNSW, and one intercity trip in it: a feed is empty, has   *)
(* other trips only, or has the trip.  Time passes in ticks of fifteen     *)
(* seconds, within which a request is answered unless the feed is slow.    *)
(***************************************************************************)
EXTENDS Integers, Sequences, FiniteSets

CONSTANTS
    Proc,        \* processes
    Reader,      \* requests at one time
    Poller,      \* those of them that are polls
    Client,      \* subscriptions to the trip
    ProcOf,      \* where a reader or client is served
    FeedTtl, IntercityTtl, TrackTtl, StickyTtl, \* in ticks
    MaxFailures  \* bound: fetches and Redis calls that fail

ASSUME FeedAssumption ==
    /\ Poller \subseteq Reader /\ ProcOf \in [Reader \cup Client -> Proc]
    /\ FeedTtl \in Nat \ {0} /\ IntercityTtl \in Nat \ {0} /\ TrackTtl \in Nat \ {0}
    /\ StickyTtl \in Nat \ {0} /\ MaxFailures \in Nat

VARIABLES
    entry,     \* Redis: what is cached under each key
    inFlight,  \* CacheService.inFlight: processes that fetch the feed
    read,      \* the progress of each request
    count,     \* RealtimePollerService.subscribedTrips, of each process
    client,    \* the progress of each subscription
    failures

feedVars == <<entry, inFlight, read, count, client, failures>>

\* What a request looks up, from the outside in: getTripUpdates of the feed and of
\* its intercity part, trackTrip with the mode of the feed, with intercity, and
\* without a mode, which goes through the feed and then its intercity part.
AnyMode == {<<"trackAll", "feed">>, <<"trackAll", "intercity", "feed">>}
Path    == {<<"feed">>, <<"intercity", "feed">>, <<"track", "feed">>,
            <<"trackIntercity", "intercity", "feed">>} \cup AnyMode

Tracked == {"track", "trackIntercity", "trackAll"}
Key     == {"feed", "lastgood", "intercity"} \cup Tracked
Ttl(key) == IF key \in Tracked THEN TrackTtl ELSE IntercityTtl
Empty == [content |-> "empty", age |-> 0]
Gone  == [value |-> Empty, left |-> 0]
Quiet == [pc |-> "idle", path |-> <<"feed">>, at |-> 1, value |-> Empty, held |-> FALSE]

\* No value gets older than this: each cache on its path adds its lifetime.
MaxAge == FeedTtl + StickyTtl + IntercityTtl + TrackTtl + 4

Values == [content : {"empty", "others", "trip"}, age : 0 .. MaxAge]

FeedTypeOK ==
    /\ entry \in [Key -> [value : Values, left : Nat]]
    /\ inFlight \subseteq Proc
    /\ \A r \in Reader :
         /\ read[r].pc \in {"idle", "look", "check", "fetch", "wait", "sticky", "store", "answered"}
         /\ read[r].path \in Path /\ read[r].at \in 0 .. 3 /\ read[r].value \in Values
    /\ count \in [Proc -> 0 .. Cardinality(Client)]
    /\ client \in [Client -> {"none", "joining", "watching", "served", "over"}]
    /\ failures \in 0 .. MaxFailures

FeedInit ==
    /\ entry = [k \in Key |-> Gone] /\ inFlight = {}
    /\ read = [r \in Reader |-> Quiet]
    /\ count = [p \in Proc |-> 0] /\ client = [c \in Client |-> "none"]
    /\ failures = 0

NoPolling == UNCHANGED <<count, client>>

-----------------------------------------------------------------------------
(* A request. *)

BeginRead(r, path) ==
    /\ read[r].pc = "idle" /\ r \notin Poller
    /\ read' = [read EXCEPT ![r] = [Quiet EXCEPT !.pc = "look", !.path = path]]
    /\ UNCHANGED <<entry, inFlight, failures>> /\ NoPolling

\* A request that has the value of what it looked up stores it in what asked for it.
Up(k, v) == [k EXCEPT !.value = v, !.at = @ - 1, !.pc = IF k.at = 1 THEN "answered" ELSE "store"]

\* The cached value, if any.  A trip that was not found is kept as null, which
\* reads as a miss.  Of the feed an empty value counts as cached.
LookUpKey(r) ==
    LET k == read[r]
        e == entry[k.path[k.at]]
        last == k.at = Len(k.path)
    IN  /\ k.pc = "look"
        /\ read' = [read EXCEPT ![r] =
              IF e.left > 0 THEN IF last THEN [k EXCEPT !.pc = "sticky", !.value = e.value]
                                 ELSE Up(k, e.value)
              ELSE IF last THEN [k EXCEPT !.pc = "check"] ELSE [k EXCEPT !.at = @ + 1]]
        /\ UNCHANGED <<entry, inFlight, failures>> /\ NoPolling

\* getOrSet after a miss: the fetch of this process, or a new one.
JoinFetch(r) ==
    LET p == ProcOf[r]
    IN  /\ read[r].pc = "check"
        /\ read' = [read EXCEPT ![r].pc = IF p \in inFlight THEN "wait" ELSE "fetch"]
        /\ inFlight' = inFlight \cup {p}
        /\ UNCHANGED <<entry, failures>> /\ NoPolling

\* The requests that share the fetch of r.
Sharing(r) == {q \in Reader : q = r \/ (read[q].pc = "wait" /\ ProcOf[q] = ProcOf[r])}

FetchEnds(r, content) ==
    LET v == [content |-> content, age |-> 0]
    IN  /\ read[r].pc = "fetch"
        /\ entry' = [entry EXCEPT !["feed"] = [value |-> v, left |-> FeedTtl]]
        /\ inFlight' = inFlight \ {ProcOf[r]}
        /\ read' = [q \in Reader |-> IF q \notin Sharing(r) THEN read[q]
                                     ELSE [read[q] EXCEPT !.pc = "sticky", !.value = v]]
        /\ UNCHANGED failures /\ NoPolling

\* Mutant: the snapshot that covers a gap is kept for another minute.
CoverGapAgain(r) ==
    LET k == read[r]
        good == entry["lastgood"]
    IN  /\ k.pc = "sticky"
        /\ IF k.value.content # "empty"
           THEN /\ entry' = [entry EXCEPT !["lastgood"] = [value |-> k.value, left |-> StickyTtl]]
                /\ read' = [read EXCEPT ![r] = Up(k, k.value)]
           ELSE /\ read' = [read EXCEPT ![r] = Up(k, IF good.left > 0 THEN good.value ELSE k.value)]
                /\ entry' = [entry EXCEPT !["lastgood"].left = IF @ > 0 THEN StickyTtl ELSE 0]
        /\ UNCHANGED <<inFlight, failures>> /\ NoPolling

\* fetchWithStickyFallback: a feed with anything in it, cached or not, becomes the
\* last good one; an empty one is replaced by it.
CoverGap(r) ==
    LET k == read[r]
        good == entry["lastgood"]
    IN  /\ k.pc = "sticky"
        /\ IF k.value.content # "empty"
           THEN /\ entry' = [entry EXCEPT !["lastgood"] = [value |-> k.value, left |-> StickyTtl]]
                /\ read' = [read EXCEPT ![r] = Up(k, k.value)]
           ELSE /\ read' = [read EXCEPT ![r] = Up(k, IF good.left > 0 THEN good.value ELSE k.value)]
                /\ UNCHANGED entry
        /\ UNCHANGED <<inFlight, failures>> /\ NoPolling

\* getIntercityTripUpdates keeps the part of the feed, empty or not; trackTrip the
\* trip, or null over what was there.
StoreKey(r) ==
    LET k == read[r]
        key == k.path[k.at]
        v == IF k.value.content = "others" THEN Empty ELSE k.value
    IN  /\ k.pc = "store"
        /\ entry' = [entry EXCEPT ![key] = IF key \in Tracked /\ v.content = "empty" THEN Gone
                                           ELSE [value |-> v, left |-> Ttl(key)]]
        /\ read' = [read EXCEPT ![r] = Up(k, v)]
        /\ UNCHANGED <<inFlight, failures>> /\ NoPolling

\* TfNSW or Redis fails: a list of a mode that failed is left out, and for
\* trackTrip, which goes on without it, empty.
Failed(k) == IF k.path[1] \in Tracked /\ k.at > 1
             THEN [k EXCEPT !.at = 1, !.pc = "store", !.value = Empty]
             ELSE [k EXCEPT !.at = 0, !.pc = "answered", !.value = Empty]

ReadFails(r) ==
    /\ read[r].pc \in {"look", "fetch", "sticky", "store"}
    /\ failures < MaxFailures /\ failures' = failures + 1
    /\ LET hit == IF read[r].pc = "fetch" THEN Sharing(r) ELSE {r}
       IN  read' = [q \in Reader |-> IF q \in hit THEN Failed(read[q]) ELSE read[q]]
    /\ inFlight' = IF read[r].pc = "fetch" THEN inFlight \ {ProcOf[r]} ELSE inFlight
    /\ UNCHANGED entry /\ NoPolling

\* A poll publishes the trip, if there is one, to whoever listens by now.
EndRead(r) ==
    /\ read[r].pc = "answered"
    /\ read' = [read EXCEPT ![r] = Quiet]
    /\ client' = IF r \in Poller /\ read[r].value.content # "empty"
                 THEN [c \in Client |-> IF client[c] = "watching" THEN "served" ELSE client[c]]
                 ELSE client
    /\ UNCHANGED <<entry, inFlight, count, failures>>

\* Fifteen seconds: only requests that wait for TfNSW take longer.
Older(v) == IF v.content = "empty" \/ v.age = MaxAge THEN v ELSE [v EXCEPT !.age = @ + 1]

FeedTick ==
    /\ \A r \in Reader : read[r].held => read[r].pc \in {"idle", "fetch", "wait"}
    /\ read' = [r \in Reader |-> IF read[r].pc \in {"idle", "fetch", "wait"} THEN read[r]
                                 ELSE [read[r] EXCEPT !.held = TRUE, !.value = Older(@)]]
    /\ entry' = [k \in Key |-> IF entry[k].left > 1
                               THEN [value |-> Older(entry[k].value), left |-> entry[k].left - 1]
                               ELSE Gone]
    /\ UNCHANGED <<inFlight, failures>> /\ NoPolling

-----------------------------------------------------------------------------
(* Subscriptions and polls (realtime.resolver, realtime-poller.service). *)

\* addTrip, and then the subscription to the channel.
Subscribe(c) ==
    /\ client[c] = "none" /\ client' = [client EXCEPT ![c] = "joining"]
    /\ count' = [count EXCEPT ![ProcOf[c]] = @ + 1]
    /\ UNCHANGED <<entry, inFlight, read, failures>>

Listen(c) ==
    /\ client[c] = "joining" /\ client' = [client EXCEPT ![c] = "watching"]
    /\ UNCHANGED <<entry, inFlight, read, count, failures>>

\* Mutant: the first subscriber to leave ends the polling.
UnsubscribeAll(c) ==
    /\ client[c] \in {"joining", "watching", "served"} /\ client' = [client EXCEPT ![c] = "over"]
    /\ count' = [count EXCEPT ![ProcOf[c]] = 0]
    /\ UNCHANGED <<entry, inFlight, read, failures>>

\* iterator.return: removeTrip.
Unsubscribe(c) ==
    /\ client[c] \in {"joining", "watching", "served"} /\ client' = [client EXCEPT ![c] = "over"]
    /\ count' = [count EXCEPT ![ProcOf[c]] = IF @ > 1 THEN @ - 1 ELSE 0]
    /\ UNCHANGED <<entry, inFlight, read, failures>>

\* pollActiveTrips, and the first poll of addTrip: trackTrip without a mode goes
\* through all of them, intercity among them.
BeginPoll(r) ==
    /\ r \in Poller /\ read[r].pc = "idle" /\ count[ProcOf[r]] > 0
    /\ \E path \in AnyMode :
         read' = [read EXCEPT ![r] = [Quiet EXCEPT !.pc = "look", !.path = path]]
    /\ UNCHANGED <<entry, inFlight, failures>> /\ NoPolling

ReadStep(r) == LookUpKey(r) \/ JoinFetch(r) \/ CoverGap(r) \/ StoreKey(r) \/ EndRead(r)

FeedNext ==
    \/ \E r \in Reader, path \in Path : BeginRead(r, path)
    \/ \E r \in Reader : ReadStep(r) \/ ReadFails(r) \/ BeginPoll(r)
    \/ \E r \in Reader, content \in {"empty", "others", "trip"} : FetchEnds(r, content)
    \/ FeedTick
    \/ \E c \in Client : Subscribe(c) \/ Listen(c) \/ Unsubscribe(c)

FeedSpec == FeedInit /\ [][FeedNext]_feedVars

\* A process goes on with its requests, time passes, the interval keeps polling, a
\* fetch ends (TfnswClient.EveryCallEnds), and a trip that runs is in the feed
\* again and again.
FeedFairness ==
    /\ WF_feedVars(FeedTick)
    /\ \A r \in Reader : WF_feedVars(ReadStep(r)) /\ WF_feedVars(BeginPoll(r))
                         /\ SF_feedVars(FetchEnds(r, "trip"))
    /\ \A c \in Client : WF_feedVars(Listen(c))

-----------------------------------------------------------------------------
(* Properties. *)

\* How old a value under a key may be, and an answer that begins there: the
\* lifetimes of the caches it went through.  The minute of the last good snapshot
\* starts when a cached feed is read.
Oldest(key) == FeedTtl + StickyTtl
               + (IF key \in {"intercity", "trackIntercity", "trackAll"} THEN IntercityTtl ELSE 0)
               + (IF key \in Tracked THEN TrackTtl ELSE 0)

\* No answer is older than that: a snapshot that covers a gap is never taken for
\* a new one, whichever requests pass it on to each other (fetchWithStickyFallback,
\* "a feed that's genuinely gone quiet still correctly reports empty").
AnswersAreRecent ==
    \A r \in Reader : read[r].pc = "answered" => read[r].value.age <= Oldest(read[r].path[1])

\* A subscriber of a trip that runs hears of it, whoever else comes and goes
\* (addTrip, removeTrip and pollActiveTrips).
WatcherIsServed == \A c \in Client : client[c] = "watching" ~> client[c] # "watching"
=============================================================================
