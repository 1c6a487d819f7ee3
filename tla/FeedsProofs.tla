---------------------------- MODULE FeedsProofs ----------------------------
(***************************************************************************)
(* What reaches the rider of the feeds of TfNSW: requests are paced, no    *)
(* answer is older than the caches it went through, a planned trip gets    *)
(* the live one that matches it best and loses no stop to it, and no       *)
(* planned journey is lost between two pages.                              *)
(***************************************************************************)
EXTENDS RealtimeFeeds, TripMatch, TripPlanner, TfnswClient, SequenceTheorems, FiniteSetTheorems,
        WellFoundedInduction, TLAPS

-----------------------------------------------------------------------------
(* Requests to TfNSW. *)

\* The starts of a role lie an interval apart, the latest as long ago as lastAt says.
PacedInv ==
    /\ sinceStart \in [TfnswRole -> Nat]
    /\ sent = [r \in TfnswRole |-> sent[r]]
    /\ \A r \in TfnswRole :
         /\ \A s \in sent[r] : "age" \in DOMAIN s /\ s.age \in Nat /\ sinceStart[r] <= s.age /\ s.age < Second
         /\ \A s, t \in sent[r] : s # t => s.age + Interval <= t.age \/ t.age + Interval <= s.age

LEMMA SecondType ==
    /\ Interval \in Nat /\ PerSecond \in Nat /\ Interval > 0 /\ PerSecond > 0
    /\ Second \in Nat /\ Second = Interval * PerSecond
  BY TfnswAssumption DEF Second

LEMMA Least ==
    ASSUME NEW S \in SUBSET Nat, S # {}
    PROVE  \E m \in S : \A i \in S : m <= i
  <1> DEFINE R == {pair \in Nat \X Nat : pair[1] < pair[2]}
  <1>1. IsWellFoundedOn(R, Nat)
    BY NatLessThanWellFounded DEF OpToRel
  <1>2. PICK k \in S : \A j \in S : <<j, k>> \notin R
    <2> HIDE DEF R
    <2> QED BY <1>1, WFMin
  <1>3. \A j \in S : ~(j < k)
    BY <1>2
  <1> QED BY <1>3

\* The time within a second falls into one of its intervals.
LEMMA IntervalOf ==
    ASSUME NEW a \in Nat, a < Second
    PROVE  \E q \in 0 .. PerSecond - 1 : q * Interval <= a /\ a < q * Interval + Interval
  <1> DEFINE S == {n \in Nat : a < n * Interval}
  <1>1. PerSecond \in S
    BY SecondType
  <1>2. PICK m \in S : \A i \in S : m <= i
    <2>1. S \in SUBSET Nat /\ S # {}
      BY <1>1
    <2> HIDE DEF S
    <2> QED BY <2>1, Least
  <1>3. m \in Nat /\ a < m * Interval /\ m <= PerSecond
    BY <1>1, <1>2
  <1>4. m # 0
    BY <1>3, SecondType
  <1>5. m - 1 \in Nat /\ m - 1 \notin S
    BY <1>2, <1>3, <1>4
  <1>6. (m - 1) * Interval <= a
    <2>1. (m - 1) * Interval \in Nat
      BY <1>5, SecondType
    <2> QED BY <1>5, <2>1
  <1>7. m * Interval = (m - 1) * Interval + Interval
    BY <1>3, SecondType
  <1>8. m - 1 \in 0 .. PerSecond - 1
    BY <1>3, <1>5, SecondType
  <1> HIDE DEF S
  <1> QED BY <1>3, <1>6, <1>7, <1>8

\* What lies an interval apart is no more than there are intervals.
LEMMA Spread ==
    ASSUME NEW S, \A s \in S : s.age \in Nat /\ s.age < Second,
           \A s, t \in S : s # t => s.age + Interval <= t.age \/ t.age + Interval <= s.age
    PROVE  IsFiniteSet(S) /\ Cardinality(S) \in Nat /\ Cardinality(S) <= PerSecond
  <1> DEFINE In(s, q) == q * Interval <= s.age /\ s.age < q * Interval + Interval
             T == 0 .. PerSecond - 1
             f == [s \in S |-> CHOOSE q \in T : In(s, q)]
  <1>1. ASSUME NEW s \in S
        PROVE  f[s] \in T /\ In(s, f[s])
    <2>1. \E q \in T : In(s, q)
      BY IntervalOf
    <2> HIDE DEF T, In
    <2> QED BY <2>1
  <1>2. ASSUME NEW s \in S, NEW t \in S, f[s] = f[t]
        PROVE  s = t
    <2>1. PICK q : q = f[s]
      OBVIOUS
    <2>2. q \in T /\ In(s, q) /\ In(t, q)
      BY <1>1, <1>2, <2>1
    <2>3. q * Interval \in Nat
      BY <2>2, SecondType
    <2> QED BY <2>2, <2>3, SecondType
  <1>3. f \in Injection(S, T)
    <2> HIDE DEF f
    <2>1. f \in [S -> T]
      <3>1. f = [s \in S |-> f[s]]
        BY DEF f
      <3> QED BY <1>1, <3>1
    <2> QED BY <1>2, <2>1 DEF Injection, IsInjective
  <1>4. IsFiniteSet(T) /\ Cardinality(T) = PerSecond
    BY FS_Interval, SecondType
  <1> HIDE DEF f, T
  <1> QED BY <1>3, <1>4, FS_Injection, FS_CardinalityType

LEMMA PacedInitInv == TfnswInit => PacedInv
  <1> SUFFICES ASSUME TfnswInit PROVE PacedInv
    OBVIOUS
  <1> QED BY SecondType DEF TfnswInit, PacedInv

LEMMA StartKeeps ==
    ASSUME PacedInv, NEW r \in TfnswRole, AcquireSlot(r)
    PROVE  PacedInv'
  <1> DEFINE new == [call |-> Head(chain[r]), age |-> 0]
  <1>1. /\ sinceStart[r] >= Interval /\ sinceStart' = [sinceStart EXCEPT ![r] = 0]
        /\ sent' = [sent EXCEPT ![r] = @ \cup {new}]
    BY DEF AcquireSlot
  <1>2. "age" \in DOMAIN new /\ new.age = 0
    OBVIOUS
  <1> HIDE DEF new
  <1>3. /\ sinceStart' \in [TfnswRole -> Nat] /\ sent' = [q \in TfnswRole |-> sent'[q]]
        /\ sinceStart'[r] = 0 /\ sent'[r] = sent[r] \cup {new}
        /\ \A q \in TfnswRole : q # r => sinceStart'[q] = sinceStart[q] /\ sent'[q] = sent[q]
    BY <1>1 DEF PacedInv
  <1>4. \A s \in sent[r] : s.age \in Nat /\ s.age >= Interval
    BY <1>1, SecondType DEF PacedInv
  <1>5. 0 < Second
    BY SecondType
  <1>6. \A s \in sent'[r] : "age" \in DOMAIN s /\ s.age \in Nat /\ sinceStart'[r] <= s.age /\ s.age < Second
    BY <1>2, <1>3, <1>5 DEF PacedInv
  <1>7. \A s, t \in sent'[r] : s # t => s.age + Interval <= t.age \/ t.age + Interval <= s.age
    BY <1>2, <1>3, <1>4, SecondType DEF PacedInv
  <1> QED BY <1>3, <1>6, <1>7 DEF PacedInv

LEMMA PaceTickKeeps ==
    ASSUME PacedInv, TfnswTick
    PROVE  PacedInv'
  <1>1. /\ sinceStart' = [r \in TfnswRole |-> IF sinceStart[r] < Second THEN sinceStart[r] + 1 ELSE Second]
        /\ sent' = [r \in TfnswRole |->
                      {[s EXCEPT !.age = @ + 1] : s \in {s \in sent[r] : s.age + 1 < Second}}]
    BY DEF TfnswTick
  <1>2. sinceStart' \in [TfnswRole -> Nat] /\ sent' = [r \in TfnswRole |-> sent'[r]]
    BY <1>1, SecondType DEF PacedInv
  <1>3. ASSUME NEW r \in TfnswRole, NEW x \in sent'[r]
        PROVE  \E s \in sent[r] : /\ x = [s EXCEPT !.age = @ + 1] /\ "age" \in DOMAIN x
                                  /\ s.age \in Nat /\ x.age = s.age + 1 /\ x.age < Second
    <2>1. PICK s \in sent[r] : x = [s EXCEPT !.age = @ + 1] /\ s.age + 1 < Second
      BY <1>1
    <2> QED BY <2>1 DEF PacedInv
  <1>4. ASSUME NEW r \in TfnswRole
        PROVE  /\ \A x \in sent'[r] : "age" \in DOMAIN x /\ x.age \in Nat /\ sinceStart'[r] <= x.age /\ x.age < Second
               /\ \A x, y \in sent'[r] : x # y => x.age + Interval <= y.age \/ y.age + Interval <= x.age
    <2>1. ASSUME NEW x \in sent'[r]
          PROVE  "age" \in DOMAIN x /\ x.age \in Nat /\ sinceStart'[r] <= x.age /\ x.age < Second
      <3>1. PICK s \in sent[r] : /\ "age" \in DOMAIN x /\ s.age \in Nat /\ x.age = s.age + 1 /\ x.age < Second
        BY <1>3
      <3>2. sinceStart[r] \in Nat /\ sinceStart[r] <= s.age
        BY DEF PacedInv
      <3>3. sinceStart'[r] = IF sinceStart[r] < Second THEN sinceStart[r] + 1 ELSE Second
        BY <1>1
      <3> QED BY <3>1, <3>2, <3>3, SecondType
    <2>2. ASSUME NEW x \in sent'[r], NEW y \in sent'[r], x # y
          PROVE  x.age + Interval <= y.age \/ y.age + Interval <= x.age
      <3>1. PICK s \in sent[r] : x = [s EXCEPT !.age = @ + 1] /\ s.age \in Nat /\ x.age = s.age + 1
        BY <1>3
      <3>2. PICK t \in sent[r] : y = [t EXCEPT !.age = @ + 1] /\ t.age \in Nat /\ y.age = t.age + 1
        BY <1>3
      <3>3. s.age + Interval <= t.age \/ t.age + Interval <= s.age
        BY <2>2, <3>1, <3>2 DEF PacedInv
      <3> QED BY <3>1, <3>2, <3>3, SecondType
    <2> QED BY <2>1, <2>2
  <1> QED BY <1>2, <1>4 DEF PacedInv

LEMMA PacedInductive == TfnswSpec => []PacedInv
  <1>1. PacedInv /\ [TfnswNext]_tfnswVars => PacedInv'
    <2> SUFFICES ASSUME PacedInv, [TfnswNext]_tfnswVars PROVE PacedInv'
      OBVIOUS
    <2>1. CASE \E r \in TfnswRole : AcquireSlot(r)
      BY <2>1, StartKeeps
    <2>2. CASE TfnswTick
      BY <2>2, PaceTickKeeps
    <2>3. CASE UNCHANGED <<sinceStart, sent>>
      BY <2>3 DEF PacedInv
    <2>4. CASE \/ \E c \in Call, r \in TfnswRole : BeginCallTo(c, r)
               \/ \E c \in Call, a \in Answers : ReceiveAnswer(c, a)
               \/ \E c \in Call : WakeUp(c) \/ EndCall(c)
      BY <2>3, <2>4 DEF BeginCallTo, ReceiveAnswer, WakeUp, EndCall
    <2> QED BY <2>1, <2>2, <2>3, <2>4 DEF TfnswNext, tfnswVars
  <1> QED BY <1>1, PacedInitInv, PTL DEF TfnswSpec

\* Within any second no key is used for more requests than MAX_RPS for each
\* queue that presents it (acquireSlot).
THEOREM StartsArePaced == TfnswSpec => []PacedStarts
  <1>1. PacedInv => PacedStarts
    <2> SUFFICES ASSUME PacedInv, NEW key \in TfnswRole
                 PROVE  LET roles == {r \in TfnswRole : KeyFor(r) = key}
                            started == [r \in TfnswRole |-> IF r \in roles THEN Cardinality(sent[r]) ELSE 0]
                        IN  started["realtime"] + started["static"] <= PerSecond * Cardinality(roles)
      BY DEF PacedStarts
    <2> DEFINE roles == {r \in TfnswRole : KeyFor(r) = key}
               n(r) == Cardinality(sent[r])
    <2>1. \A r \in TfnswRole : n(r) \in Nat /\ n(r) <= PerSecond
      BY Spread DEF PacedInv
    <2> HIDE DEF n
    <2>2. "realtime" \in TfnswRole /\ "static" \in TfnswRole
      BY DEF TfnswRole
    <2>3. (IF "realtime" \in roles THEN n("realtime") ELSE 0)
            + (IF "static" \in roles THEN n("static") ELSE 0) <= PerSecond * Cardinality(roles)
      <3>1. CASE Dedicated
        <4>1. roles = {key} /\ Cardinality({key}) = 1
          BY <3>1, FS_Singleton DEF KeyFor
        <4> HIDE DEF roles
        <4> QED BY <2>1, <2>2, <4>1, SecondType DEF TfnswRole
      <3>2. CASE ~Dedicated /\ key = "realtime"
        <4>1. roles = {"realtime", "static"}
          BY <3>2 DEF KeyFor, TfnswRole
        <4>2. Cardinality({"realtime", "static"}) = 2
          <5> DEFINE A == {"realtime"}
          <5>1. {"realtime", "static"} = A \cup {"static"} /\ "static" \notin A
            OBVIOUS
          <5>2. IsFiniteSet(A) /\ Cardinality(A) = 1
            BY FS_Singleton
          <5> HIDE DEF A
          <5>3. Cardinality(A \cup {"static"}) = Cardinality(A) + 1
            BY <5>1, <5>2, FS_AddElement
          <5> QED BY <5>1, <5>2, <5>3
        <4> HIDE DEF roles
        <4> QED BY <2>1, <2>2, <4>1, <4>2, SecondType
      <3>3. CASE ~Dedicated /\ key # "realtime"
        <4>1. roles = {} /\ Cardinality({}) = 0
          BY <3>3, FS_EmptySet DEF KeyFor
        <4> HIDE DEF roles
        <4> QED BY <4>1, SecondType
      <3> QED BY <3>1, <3>2, <3>3
    <2> QED BY <2>2, <2>3 DEF n
  <1> QED BY <1>1, PacedInductive, PTL

-----------------------------------------------------------------------------
(* Paging through journeys. *)

\* Shown is every journey that is owed, or it lies beyond the minute asked next.
Owed(j)  == Serves(Planned(j), requested) /\ Planned(j) \notin edges /\ j \notin strayed
Shown(j) == \E p \in Range(pages) : j \in Range(p)

PagingInv ==
    /\ arriveBy \in BOOLEAN /\ timetable \in Timetables /\ requested \in Nat /\ asks \in Int
    /\ pages \in Seq(Seq(Journey))
    /\ Strays(timetable) \subseteq strayed
    /\ paging \in {"on", "exhausted"} =>
         \A j \in Journey : Owed(j) => Shown(j) \/ (paging = "on" /\ Serves(Planned(j), asks))

\* A sequence of a set has each of its elements.
LEMMA SeqsHoldAll ==
    ASSUME NEW S, IsFiniteSet(S), NEW s \in SetToSeqs(S)
    PROVE  s \in Seq(S) /\ Range(s) = S
  <1> DEFINE n == Cardinality(S)
  <1>1. n \in Nat
    BY FS_CardinalityType
  <1>2. s \in [1 .. n -> S] /\ \A i, j \in 1 .. n : i # j => s[i] # s[j]
    BY DEF SetToSeqs
  <1>3. s \in Injection(1 .. n, S)
    BY <1>2 DEF Injection, IsInjective
  <1>4. IsFiniteSet(1 .. n) /\ Cardinality(1 .. n) = n
    BY <1>1, FS_Interval
  <1>5. s \in Surjection(1 .. n, S)
    BY <1>3, <1>4, FS_Injection
  <1> HIDE DEF n
  <1> QED BY <1>1, <1>2, <1>5 DEF Surjection, Range

LEMMA TimesAreNumbers ==
    ASSUME NEW t \in Timetables, NEW j \in Journey
    PROVE  /\ t[j].planned \in Nat /\ BoundaryIn(t, j) \in Nat
           /\ t[j] \in [planned : Nat, estimated : Nat \cup {NoTime}, edge : BOOLEAN]
  <1>1. t[j] \in [planned : Nat, estimated : Nat \cup {NoTime}, edge : BOOLEAN]
    BY PlannerAssumption
  <1> QED BY <1>1 DEF BoundaryIn

LEMMA PagingInitInv == PlannerInit => PagingInv
  <1> SUFFICES ASSUME PlannerInit PROVE PagingInv
    OBVIOUS
  <1>1. requested \in Nat /\ asks = requested /\ pages = <<>> /\ paging = "on"
    BY PlannerAssumption DEF PlannerInit
  <1> QED BY <1>1 DEF PlannerInit, PagingInv, Owed

\* The page of a plan, and what its journeys leave out.
LEMMA PageOf ==
    ASSUME PagingInv, NEW S \in NextJourneys(asks), NEW page \in FilterAndSortTrips(S, asks)
    PROVE  /\ page \in Seq(Journey) /\ Range(page) \subseteq S
           /\ \A j \in S : Serves(TripBoundary(j), asks) => j \in Range(page)
           /\ \A j \in Journey \ S : Serves(Planned(j), asks) =>
                S # {} /\ \A k \in S : ~Sooner(Planned(j), Planned(k))
  <1> DEFINE T == {j \in S : Serves(TripBoundary(j), asks)}
             serving == {j \in Journey : Serves(Planned(j), asks)}
  <1>1. /\ S \subseteq serving /\ Cardinality(S) = Min({PerPage, Cardinality(serving)})
        /\ \A j \in S, k \in serving \ S : ~Sooner(Planned(k), Planned(j))
    BY DEF NextJourneys
  <1>2. IsFiniteSet(serving) /\ IsFiniteSet(T)
    BY <1>1, PlannerAssumption, FS_Subset
  <1>3. page \in SetToSeqs(T)
    BY DEF FilterAndSortTrips
  <1>4. page \in Seq(T) /\ Range(page) = T
    <2> HIDE DEF T
    <2> QED BY <1>2, <1>3, SeqsHoldAll
  <1>5. page \in Seq(Journey)
    <2>1. T \subseteq Journey
      BY <1>1
    <2> HIDE DEF T
    <2> QED BY <1>4, <2>1
  <1>6. ASSUME S = {}
        PROVE  serving = {}
    <2> DEFINE n == Cardinality(serving)
    <2>1. n \in Nat /\ Cardinality(S) = 0
      BY <1>2, <1>6, FS_CardinalityType, FS_EmptySet
    <2>2. n = 0
      <3> HIDE DEF n
      <3>1. Min({PerPage, n}) \in {PerPage, n} /\ Min({PerPage, n}) <= n /\ Min({PerPage, n}) <= PerPage
        <4>1. \E x \in {PerPage, n} : \A y \in {PerPage, n} : x <= y
          BY <2>1, PlannerAssumption
        <4> QED BY <4>1 DEF Min
      <3>2. Min({PerPage, n}) = 0
        BY <1>1, <2>1 DEF n
      <3> QED BY <3>1, <3>2, PlannerAssumption
    <2> HIDE DEF serving
    <2> QED BY <1>2, <2>2, FS_EmptySet
  <1> QED BY <1>1, <1>4, <1>5, <1>6

LEMMA PlanKeeps ==
    ASSUME PagingInv, PlanTrip
    PROVE  PagingInv'
  <1>0. PICK S \in NextJourneys(asks) : \E page \in FilterAndSortTrips(S, asks) :
          LET last  == BoundaryTrip(page)
              timed == page # <<>> /\ timetable[last].edge
          IN  /\ pages' = Append(pages, page)
              /\ paging' = IF S = {} THEN "exhausted" ELSE IF page = <<>> THEN "filtered"
                           ELSE IF ~timed THEN "untimed" ELSE "on"
              /\ asks' = IF ~timed THEN asks
                         ELSE IF arriveBy THEN BoundaryTime(last) - 1 ELSE BoundaryTime(last) + 1
              /\ edges' = IF timed THEN edges \cup {Planned(last)} ELSE edges
    BY DEF PlanTrip
  <1>1. PICK page \in FilterAndSortTrips(S, asks) :
          LET last  == BoundaryTrip(page)
              timed == page # <<>> /\ timetable[last].edge
          IN  /\ pages' = Append(pages, page)
              /\ paging' = IF S = {} THEN "exhausted" ELSE IF page = <<>> THEN "filtered"
                           ELSE IF ~timed THEN "untimed" ELSE "on"
              /\ asks' = IF ~timed THEN asks
                         ELSE IF arriveBy THEN BoundaryTime(last) - 1 ELSE BoundaryTime(last) + 1
              /\ edges' = IF timed THEN edges \cup {Planned(last)} ELSE edges
    BY <1>0
  <1> DEFINE last  == BoundaryTrip(page)
             timed == page # <<>> /\ timetable[last].edge
  <1>2. /\ pages' = Append(pages, page)
        /\ paging' = IF S = {} THEN "exhausted" ELSE IF page = <<>> THEN "filtered"
                     ELSE IF ~timed THEN "untimed" ELSE "on"
        /\ asks' = IF ~timed THEN asks
                   ELSE IF arriveBy THEN Planned(last) - 1 ELSE Planned(last) + 1
        /\ edges' = IF timed THEN edges \cup {Planned(last)} ELSE edges
    BY <1>1 DEF BoundaryTime
  <1>3. paging = "on" /\ UNCHANGED <<arriveBy, timetable, requested, strayed>>
    BY DEF PlanTrip
  <1>4. /\ page \in Seq(Journey) /\ Range(page) \subseteq S
        /\ \A j \in S : Serves(TripBoundary(j), asks) => j \in Range(page)
        /\ \A j \in Journey \ S : Serves(Planned(j), asks) =>
             S # {} /\ \A k \in S : ~Sooner(Planned(j), Planned(k))
    BY PageOf
  <1>5. ASSUME timed PROVE last \in S /\ last \in Journey /\ Planned(last) \in Nat
    <2>1. Len(page) \in Nat /\ Len(page) # 0 /\ DOMAIN page = 1 .. Len(page)
      BY <1>4, <1>5
    <2>2. last \in Range(page)
      BY <2>1 DEF BoundaryTrip, Last, Range
    <2>3. last \in Journey
      BY <2>1, <1>4 DEF BoundaryTrip, Last
    <2> HIDE DEF last
    <2> QED BY <1>4, <2>2, <2>3, TimesAreNumbers DEF Planned, PagingInv
  <1>6. arriveBy \in BOOLEAN /\ asks \in Int /\ timetable \in Timetables /\ pages \in Seq(Seq(Journey))
    BY DEF PagingInv
  <1> HIDE DEF last, timed
  <1>7. asks' \in Int /\ pages' \in Seq(Seq(Journey)) /\ Range(pages') = Range(pages) \cup {page}
    <2>1. asks' \in Int
      BY <1>2, <1>5, <1>6
    <2>2. pages' \in Seq(Seq(Journey)) /\ Len(pages') = Len(pages) + 1 /\ Len(pages) \in Nat
          /\ \A i \in 1 .. Len(pages) : pages'[i] = pages[i]
      BY <1>2, <1>4, <1>6
    <2>3. pages'[Len(pages')] = page /\ DOMAIN pages = 1 .. Len(pages) /\ DOMAIN pages' = 1 .. Len(pages')
      BY <1>2, <1>4, <1>6, <2>2
    <2>4. Range(pages) \cup {page} \subseteq Range(pages')
      BY <2>2, <2>3 DEF Range
    <2>5. \A i \in DOMAIN pages' : i \in 1 .. Len(pages) \/ i = Len(pages')
      BY <2>2, <2>3
    <2>6. Range(pages') \subseteq Range(pages) \cup {page}
      BY <2>2, <2>3, <2>5 DEF Range
    <2> QED BY <2>1, <2>2, <2>4, <2>6
  <1>8. ASSUME paging' \in {"on", "exhausted"}, NEW j \in Journey, Owed(j)'
        PROVE  Shown(j)' \/ (paging' = "on" /\ Serves(Planned(j), asks)')
    <2>1. Owed(j) /\ Planned(j)' = Planned(j) /\ j \notin strayed /\ Planned(j) \notin edges'
      BY <1>2, <1>3, <1>8 DEF Owed, Planned, Serves
    <2>2. Planned(j) \in Nat /\ TripBoundary(j) \in Nat
      BY <1>6, TimesAreNumbers DEF Planned, TripBoundary
    <2>3. CASE Shown(j)
      BY <2>3, <1>7 DEF Shown
    <2>4. CASE ~Shown(j) /\ j \in S
      <3>1. Serves(Planned(j), asks)
        BY <1>3, <2>1, <2>4 DEF PagingInv
      <3>2. Serves(TripBoundary(j), Planned(j))
        BY <2>1 DEF PagingInv, Strays, TripBoundary, Planned
      <3>3. Serves(TripBoundary(j), asks)
        BY <1>6, <2>2, <3>1, <3>2 DEF Serves
      <3> QED BY <1>4, <1>7, <2>4, <3>3 DEF Shown
    <2>5. CASE ~Shown(j) /\ j \notin S
      <3>1. Serves(Planned(j), asks)
        BY <1>3, <2>1, <2>5 DEF PagingInv
      <3>2. S # {} /\ \A k \in S : ~Sooner(Planned(j), Planned(k))
        BY <1>4, <2>5, <3>1
      <3>3. timed /\ paging' = "on"
        BY <1>2, <1>8, <3>2
      <3>4. last \in S /\ Planned(last) \in Nat /\ Planned(j) # Planned(last)
        BY <1>2, <1>5, <2>1, <3>3
      <3>5. ~Sooner(Planned(j), Planned(last))
        BY <3>2, <3>4
      <3>6. asks' = IF arriveBy THEN Planned(last) - 1 ELSE Planned(last) + 1
        BY <1>2, <3>3
      <3>7. Serves(Planned(j), asks)' = IF arriveBy THEN Planned(j) <= asks' ELSE Planned(j) >= asks'
        BY <1>3, <2>1 DEF Serves
      <3>8. IF arriveBy THEN Planned(j) <= asks' ELSE Planned(j) >= asks'
        <4> DEFINE a == Planned(j)
                   b == Planned(last)
        <4>1. a \in Nat /\ b \in Nat /\ a # b /\ ~Sooner(a, b)
          BY <2>2, <3>4, <3>5
        <4> HIDE DEF a, b
        <4>2. IF arriveBy THEN a <= b - 1 ELSE a >= b + 1
          BY <1>6, <4>1 DEF Sooner
        <4> QED BY <3>6, <4>2 DEF a, b
      <3> QED BY <3>3, <3>7, <3>8
    <2> QED BY <2>3, <2>4, <2>5
  <1>9. requested' \in Nat /\ Strays(timetable)' \subseteq strayed'
    BY <1>3 DEF PagingInv, Strays, Serves
  <1> QED BY <1>3, <1>6, <1>7, <1>8, <1>9 DEF PagingInv

LEMMA ReestimateKeeps ==
    ASSUME PagingInv, NEW k \in Journey, NEW minute, Reestimate(k, minute)
    PROVE  PagingInv'
  <1>1. /\ timetable' = [timetable EXCEPT ![k].estimated = minute] /\ timetable' \in Timetables
        /\ strayed' = strayed \cup Strays(timetable')
        /\ UNCHANGED <<arriveBy, requested, asks, pages, edges, paging>>
    BY DEF Reestimate
  <1>2. ASSUME NEW j \in Journey PROVE Planned(j)' = Planned(j)
    <2>1. timetable[j] \in [planned : Nat, estimated : Nat \cup {NoTime}, edge : BOOLEAN]
          /\ timetable \in [Journey -> [planned : Nat, estimated : Nat \cup {NoTime}, edge : BOOLEAN]]
      BY PlannerAssumption DEF PagingInv
    <2> QED BY <1>1, <2>1 DEF Planned
  <1>3. Strays(timetable)' \subseteq strayed'
    BY <1>1 DEF Strays, Serves
  <1>4. ASSUME paging' \in {"on", "exhausted"}, NEW j \in Journey, Owed(j)'
        PROVE  Shown(j)' \/ (paging' = "on" /\ Serves(Planned(j), asks)')
    <2>1. Planned(j)' = Planned(j)
      BY <1>2
    <2>2. Owed(j)
      BY <1>1, <1>4, <2>1 DEF Owed, Serves
    <2>3. Shown(j) \/ (paging = "on" /\ Serves(Planned(j), asks))
      BY <1>1, <1>4, <2>2 DEF PagingInv
    <2> QED BY <1>1, <2>1, <2>3 DEF Shown, Serves
  <1> QED BY <1>1, <1>3, <1>4 DEF PagingInv

LEMMA PagingInductive == PlannerSpec => []PagingInv
  <1>1. PagingInv /\ [PlannerNext]_plannerVars => PagingInv'
    <2> SUFFICES ASSUME PagingInv, [PlannerNext]_plannerVars PROVE PagingInv'
      OBVIOUS
    <2>1. CASE PlanTrip
      BY <2>1, PlanKeeps
    <2>2. CASE PlanFails
      BY <2>2 DEF PlanFails, PagingInv, Strays, Serves
    <2>3. CASE \E j \in Journey : \E minute \in Estimates(j) : Reestimate(j, minute)
      BY <2>3, ReestimateKeeps
    <2>4. CASE UNCHANGED plannerVars
      <3>1. UNCHANGED <<arriveBy, timetable, requested, asks, strayed, pages, edges, paging>>
        BY <2>4 DEF plannerVars
      <3> QED BY <3>1 DEF PagingInv, Strays, Serves, Owed, Shown, Planned
    <2> QED BY <2>1, <2>2, <2>3, <2>4 DEF PlannerNext
  <1> QED BY <1>1, PagingInitInv, PTL DEF PlannerSpec

\* Whoever follows the tokens to the last page was shown every journey whose
\* estimate kept to its plan, but those of a token's own minute (planTrip).
THEOREM NoJourneyIsLost == PlannerSpec => []EveryJourneyShown
  <1>1. PagingInv => EveryJourneyShown
    BY DEF PagingInv, EveryJourneyShown, Owed, Shown
  <1> QED BY <1>1, PagingInductive, PTL

-----------------------------------------------------------------------------
(* The age of the feeds. *)

\* The lifetimes a cached value may have been through when its own ends.
Lifetimes(key) == IF key = "feed" THEN FeedTtl ELSE Oldest(key)

\* A request keeps a value through one tick of the clock at most.
Lag(k) == IF k.held THEN 0 ELSE 1

Request == [pc : {"idle", "look", "check", "fetch", "wait", "sticky", "store", "answered"},
            path : Path, at : 0 .. 3, value : Values, held : BOOLEAN]
Entry   == [value : Values, left : Nat]

\* How far a request is along its path, and how old its value may be there.
Placed(k) ==
    /\ k.pc = "look" => k.at \in 1 .. Len(k.path)
    /\ k.pc \in {"check", "fetch", "wait", "sticky"} => k.at = Len(k.path)
    /\ k.pc = "store" => k.at \in 1 .. Len(k.path) - 1
Fresh(k) ==
    /\ k.pc = "sticky" => k.value.age + Lag(k) <= FeedTtl
    /\ k.pc = "store" => k.value.age + Lag(k) <= Oldest(k.path[k.at + 1])
    /\ k.pc = "answered" => k.value.age + Lag(k) <= Oldest(k.path[1])
Recent(key, e) == e.left > 0 => e.value.age + e.left <= Lifetimes(key)

AgesInv ==
    /\ entry \in [Key -> Entry] /\ read \in [Reader -> Request]
    /\ \A key \in Key : Recent(key, entry[key])
    /\ \A r \in Reader : Placed(read[r]) /\ Fresh(read[r])

LEMMA TtlTypes ==
    /\ FeedTtl \in Nat /\ FeedTtl > 0 /\ IntercityTtl \in Nat /\ IntercityTtl > 0
    /\ TrackTtl \in Nat /\ TrackTtl > 0 /\ StickyTtl \in Nat /\ StickyTtl > 0
    /\ MaxAge \in Nat
    /\ \A key \in Key : Oldest(key) \in Nat /\ Ttl(key) \in Nat /\ Ttl(key) > 0
                        /\ Lifetimes(key) \in Nat /\ Lifetimes(key) <= Oldest(key)
  BY FeedAssumption DEF MaxAge, Oldest, Ttl, Lifetimes

\* Every path ends at the feed, and each cache on it adds its lifetime.
LEMMA Paths ==
    ASSUME NEW path \in Path
    PROVE  /\ Len(path) \in 1 .. 3 /\ path[Len(path)] = "feed"
           /\ \A i \in 1 .. Len(path) : path[i] \in Key
           /\ \A i \in 1 .. Len(path) - 1 :
                /\ path[i] # "feed" /\ i + 1 \in 1 .. Len(path)
                /\ Oldest(path[i + 1]) + Ttl(path[i]) <= Oldest(path[i])
  <1>1. CASE path = <<"feed">>
    BY <1>1 DEF Key
  <1>2. CASE path \in {<<"intercity", "feed">>, <<"track", "feed">>, <<"trackAll", "feed">>}
    <2>1. Len(path) = 2 /\ path[2] = "feed" /\ path[1] \in {"intercity", "track", "trackAll"}
      BY <1>2
    <2>2. Oldest("feed") + Ttl(path[1]) <= Oldest(path[1])
      BY <2>1, TtlTypes DEF Oldest, Ttl, Tracked
    <2> QED BY <2>1, <2>2 DEF Key, Tracked
  <1>3. CASE path \in {<<"trackIntercity", "intercity", "feed">>, <<"trackAll", "intercity", "feed">>}
    <2>1. /\ Len(path) = 3 /\ path[3] = "feed" /\ path[2] = "intercity"
          /\ path[1] \in {"trackIntercity", "trackAll"}
      BY <1>3
    <2>2. Oldest("feed") + Ttl("intercity") <= Oldest("intercity")
      BY TtlTypes DEF Oldest, Ttl, Tracked
    <2>3. Oldest("intercity") + Ttl(path[1]) <= Oldest(path[1])
      BY <2>1, TtlTypes DEF Oldest, Ttl, Tracked
    <2> QED BY <2>1, <2>2, <2>3 DEF Key, Tracked
  <1> QED BY <1>1, <1>2, <1>3 DEF Path, AnyMode

LEMMA EmptyIsValue == Empty \in Values /\ Empty.age = 0 /\ Empty.content = "empty"
  BY TtlTypes DEF Empty, Values

\* A step up the path with a value young enough.
LEMMA UpKeeps ==
    ASSUME NEW k \in Request, NEW v \in Values, k.at \in 1 .. Len(k.path),
           v.age + Lag(k) <= Oldest(k.path[k.at])
    PROVE  Up(k, v) \in Request /\ Placed(Up(k, v)) /\ Fresh(Up(k, v))
  <1> DEFINE new == Up(k, v)
  <1>1. k.path \in Path /\ k.at \in 0 .. 3
    BY DEF Request
  <1> DEFINE pc == IF k.at = 1 THEN "answered" ELSE "store"
  <1>2. /\ new \in Request /\ new.path = k.path /\ new.held = k.held /\ new.value = v
        /\ new.at = k.at - 1 /\ new.pc = pc
    <2>1. new = [k EXCEPT !.value = v, !.at = @ - 1, !.pc = pc]
      BY DEF Up
    <2>2. pc \in {"answered", "store"} /\ k.at - 1 \in 0 .. 3
      <3>1. Len(k.path) \in Nat
        BY <1>1, Paths
      <3> QED BY <1>1, <3>1
    <2> HIDE DEF pc, new
    <2> QED BY <1>1, <2>1, <2>2 DEF Request
  <1> HIDE DEF new
  <1>3. Lag(new) = Lag(k) /\ Len(k.path) \in 1 .. 3
    BY <1>1, <1>2, Paths DEF Lag
  <1>4. Placed(new)
    BY <1>2, <1>3 DEF Placed
  <1>5. Fresh(new)
    <2>1. CASE k.at = 1
      BY <1>2, <1>3, <2>1 DEF Fresh
    <2>2. CASE k.at # 1
      <3>1. new.at + 1 = k.at /\ new.pc = "store"
        BY <1>1, <1>2, <2>2
      <3> QED BY <1>2, <1>3, <3>1 DEF Fresh
    <2> QED BY <2>1, <2>2
  <1> QED BY <1>2, <1>4, <1>5 DEF new

LEMMA QuietIsRequest ==
    /\ Quiet \in Request /\ Quiet.pc = "idle" /\ Quiet.at = 1 /\ Placed(Quiet) /\ Fresh(Quiet)
  <1> DEFINE path == <<"feed">>
  <1>1. path \in Path
    BY DEF Path
  <1> HIDE DEF path
  <1>2. [pc |-> "idle", path |-> path, at |-> 1, value |-> Empty, held |-> FALSE] \in Request
    BY <1>1, EmptyIsValue DEF Request
  <1>3. Quiet \in Request
    BY <1>2 DEF Quiet, path
  <1> QED BY <1>3 DEF Quiet, Placed, Fresh

LEMMA AgesInitInv == FeedInit => AgesInv
  <1> SUFFICES ASSUME FeedInit PROVE AgesInv
    OBVIOUS
  <1>1. Gone \in Entry /\ ~(Gone.left > 0)
    BY EmptyIsValue DEF Gone, Entry
  <1> QED BY <1>1, QuietIsRequest DEF FeedInit, AgesInv, Recent

\* A step that changes one request and at most one entry.
LEMMA OneRequest ==
    ASSUME AgesInv, NEW r \in Reader, NEW new \in Request, Placed(new), Fresh(new),
           read' = [read EXCEPT ![r] = new],
           \/ entry' = entry
           \/ \E key \in Key, e \in Entry : Recent(key, e) /\ entry' = [entry EXCEPT ![key] = e]
    PROVE  AgesInv'
  <1>1. read' \in [Reader -> Request] /\ \A q \in Reader : Placed(read'[q]) /\ Fresh(read'[q])
    BY DEF AgesInv
  <1>2. entry' \in [Key -> Entry] /\ \A key \in Key : Recent(key, entry'[key])
    BY DEF AgesInv
  <1> QED BY <1>1, <1>2 DEF AgesInv

LEMMA BeginKeeps ==
    ASSUME AgesInv, NEW r \in Reader, NEW path \in Path,
           read' = [read EXCEPT ![r] = [Quiet EXCEPT !.pc = "look", !.path = path]], entry' = entry
    PROVE  AgesInv'
  <1> DEFINE new == [Quiet EXCEPT !.pc = "look", !.path = path]
  <1>1. new \in Request /\ new.pc = "look" /\ new.at = 1 /\ new.path = path
    BY QuietIsRequest DEF Request
  <1> HIDE DEF new
  <1>2. Len(path) \in 1 .. 3
    BY Paths
  <1>3. new.at \in 1 .. Len(new.path)
    <2> DEFINE n == Len(path)
    <2>1. n \in Nat /\ n >= 1
      BY <1>2
    <2> HIDE DEF n
    <2>2. 1 \in 1 .. n
      BY <2>1
    <2> QED BY <1>1, <2>2 DEF n
  <1>4. Placed(new) /\ Fresh(new)
    BY <1>1, <1>3 DEF Placed, Fresh
  <1>5. read' = [read EXCEPT ![r] = new]
    BY DEF new
  <1> QED BY <1>1, <1>4, <1>5, OneRequest

LEMMA LookUpKeeps ==
    ASSUME AgesInv, NEW r \in Reader, LookUpKey(r)
    PROVE  AgesInv'
  <1> DEFINE k == read[r]
             e == entry[k.path[k.at]]
  <1>1. /\ k \in Request /\ k.path \in Path /\ k.at \in 1 .. Len(k.path) /\ k.value \in Values
        /\ k.held \in BOOLEAN /\ k.at \in 0 .. 3
    BY DEF LookUpKey, AgesInv, Placed, Request
  <1>2. /\ Len(k.path) \in 1 .. 3 /\ k.path[Len(k.path)] = "feed" /\ k.path[k.at] \in Key
        /\ \A i \in 1 .. Len(k.path) - 1 : k.path[i] # "feed"
    BY <1>1, Paths
  <1>3. e \in Entry /\ Recent(k.path[k.at], e)
    BY <1>2 DEF AgesInv
  <1>4. entry' = entry /\ k.pc = "look"
        /\ read' = [read EXCEPT ![r] =
              IF e.left > 0 THEN IF k.at = Len(k.path) THEN [k EXCEPT !.pc = "sticky", !.value = e.value]
                                 ELSE Up(k, e.value)
              ELSE IF k.at = Len(k.path) THEN [k EXCEPT !.pc = "check"] ELSE [k EXCEPT !.at = @ + 1]]
    BY DEF LookUpKey
  <1>5. e.value \in Values /\ e.value.age \in Nat /\ e.left \in Nat
    <2> HIDE DEF k, e
    <2> QED BY <1>3 DEF Entry, Values
  <1> HIDE DEF k, e
  <1>6. CASE e.left > 0 /\ k.at = Len(k.path)
    <2> DEFINE new == [k EXCEPT !.pc = "sticky", !.value = e.value]
    <2>1. /\ new \in Request /\ new.pc = "sticky" /\ new.at = k.at /\ new.path = k.path
          /\ new.value = e.value /\ new.held = k.held
      BY <1>1, <1>5 DEF Request
    <2>2. read' = [read EXCEPT ![r] = new]
      BY <1>4, <1>6
    <2> HIDE DEF new
    <2>3. e.value.age + e.left <= FeedTtl
      BY <1>2, <1>3, <1>6 DEF Recent, Lifetimes
    <2>4. Placed(new) /\ Fresh(new)
      BY <1>5, <1>6, <2>1, <2>3, TtlTypes DEF Placed, Fresh, Lag
    <2> QED BY <1>4, <2>1, <2>2, <2>4, OneRequest
  <1>7. CASE e.left > 0 /\ k.at # Len(k.path)
    <2>1. k.path[k.at] # "feed"
      BY <1>1, <1>2, <1>7
    <2>2. e.value.age + Lag(k) <= Oldest(k.path[k.at])
      BY <1>2, <1>3, <1>5, <1>7, <2>1, TtlTypes, SMTT(120) DEF Recent, Lifetimes, Lag
    <2>3. Up(k, e.value) \in Request /\ Placed(Up(k, e.value)) /\ Fresh(Up(k, e.value))
      BY <1>1, <1>5, <2>2, UpKeeps
    <2>4. read' = [read EXCEPT ![r] = Up(k, e.value)]
      BY <1>4, <1>7
    <2> QED BY <1>4, <2>3, <2>4, OneRequest
  <1>8. CASE ~(e.left > 0) /\ k.at = Len(k.path)
    <2> DEFINE new == [k EXCEPT !.pc = "check"]
    <2>1. new \in Request /\ new.pc = "check" /\ new.at = k.at /\ new.path = k.path
      BY <1>1 DEF Request
    <2>2. read' = [read EXCEPT ![r] = new]
      BY <1>4, <1>8
    <2> HIDE DEF new
    <2>3. Placed(new) /\ Fresh(new)
      BY <1>8, <2>1 DEF Placed, Fresh
    <2> QED BY <1>4, <2>1, <2>2, <2>3, OneRequest
  <1>9. CASE ~(e.left > 0) /\ k.at # Len(k.path)
    <2> DEFINE new == [k EXCEPT !.at = @ + 1]
    <2>1. new \in Request /\ new.pc = "look" /\ new.at = k.at + 1 /\ new.path = k.path
      BY <1>1, <1>2, <1>4, <1>9 DEF Request
    <2>2. read' = [read EXCEPT ![r] = new]
      BY <1>4, <1>9
    <2> HIDE DEF new
    <2>3. Placed(new) /\ Fresh(new)
      BY <1>1, <1>2, <1>9, <2>1 DEF Placed, Fresh
    <2> QED BY <1>4, <2>1, <2>2, <2>3, OneRequest
  <1> QED BY <1>6, <1>7, <1>8, <1>9

LEMMA JoinKeeps ==
    ASSUME AgesInv, NEW r \in Reader, JoinFetch(r)
    PROVE  AgesInv'
  <1> DEFINE pc == IF ProcOf[r] \in inFlight THEN "wait" ELSE "fetch"
             new == [read[r] EXCEPT !.pc = pc]
  <1>1. read' = [read EXCEPT ![r] = new] /\ entry' = entry /\ read[r].pc = "check"
    BY DEF JoinFetch, AgesInv
  <1>2. pc \in {"wait", "fetch"}
    OBVIOUS
  <1> HIDE DEF pc
  <1>3. new \in Request /\ new.pc = pc /\ new.at = read[r].at /\ new.path = read[r].path
    BY <1>2 DEF AgesInv, Request
  <1> HIDE DEF new
  <1>4. Placed(new) /\ Fresh(new)
    BY <1>1, <1>2, <1>3 DEF AgesInv, Placed, Fresh
  <1> QED BY <1>1, <1>3, <1>4, OneRequest

LEMMA FetchKeeps ==
    ASSUME AgesInv, NEW r \in Reader, NEW content \in {"empty", "others", "trip"}, FetchEnds(r, content)
    PROVE  AgesInv'
  <1> DEFINE v == [content |-> content, age |-> 0]
             e == [value |-> v, left |-> FeedTtl]
  <1>1. /\ read[r].pc = "fetch" /\ entry' = [entry EXCEPT !["feed"] = e]
        /\ read' = [q \in Reader |-> IF q \notin Sharing(r) THEN read[q]
                                     ELSE [read[q] EXCEPT !.pc = "sticky", !.value = v]]
    BY DEF FetchEnds
  <1>2. v \in Values /\ v.age = 0
    BY TtlTypes DEF Values
  <1> HIDE DEF v
  <1>3. e \in Entry /\ e.left = FeedTtl /\ e.value = v
    BY <1>2, TtlTypes DEF Entry
  <1> HIDE DEF e
  <1>4. Recent("feed", e)
    BY <1>2, <1>3, TtlTypes DEF Recent, Lifetimes
  <1>5. entry' \in [Key -> Entry] /\ \A key \in Key : Recent(key, entry'[key])
    BY <1>1, <1>3, <1>4 DEF AgesInv
  <1>6. ASSUME NEW q \in Reader
        PROVE  read'[q] \in Request /\ Placed(read'[q]) /\ Fresh(read'[q])
    <2>1. CASE q \notin Sharing(r)
      BY <1>1, <2>1 DEF AgesInv
    <2>2. CASE q \in Sharing(r)
      <3> DEFINE new == [read[q] EXCEPT !.pc = "sticky", !.value = v]
      <3>1. read[q].pc \in {"fetch", "wait"} /\ read'[q] = new
        BY <1>1, <2>2 DEF Sharing
      <3>2. /\ new \in Request /\ new.pc = "sticky" /\ new.at = read[q].at /\ new.path = read[q].path
            /\ new.value = v
        BY <1>2 DEF AgesInv, Request
      <3> HIDE DEF new
      <3>3. Placed(new)
        BY <3>1, <3>2 DEF AgesInv, Placed
      <3>4. Fresh(new)
        BY <1>2, <3>2, TtlTypes DEF Fresh, Lag
      <3> QED BY <3>1, <3>2, <3>3, <3>4
    <2> QED BY <2>1, <2>2
  <1>7. read' \in [Reader -> Request]
    <2>1. read' = [q \in Reader |-> read'[q]]
      BY <1>1
    <2> QED BY <1>6, <2>1
  <1> QED BY <1>5, <1>6, <1>7 DEF AgesInv

LEMMA CoverKeeps ==
    ASSUME AgesInv, NEW r \in Reader, CoverGap(r)
    PROVE  AgesInv'
  <1> DEFINE k == read[r]
             good == entry["lastgood"]
  <1>1. /\ k.pc = "sticky" /\ k \in Request /\ k.path \in Path /\ k.value \in Values /\ k.value.age \in Nat
        /\ k.at = Len(k.path) /\ k.value.age + Lag(k) <= FeedTtl /\ Lag(k) \in {0, 1}
    BY DEF CoverGap, AgesInv, Placed, Fresh, Request, Values, Lag
  <1>2. k.at \in 1 .. Len(k.path) /\ k.path[k.at] = "feed" /\ Oldest("feed") = FeedTtl + StickyTtl
    <2>1. Len(k.path) \in 1 .. 3 /\ k.path[Len(k.path)] = "feed"
      BY <1>1, Paths
    <2>2. Oldest("feed") = FeedTtl + StickyTtl
      BY TtlTypes DEF Oldest, Tracked
    <2> DEFINE n == Len(k.path)
    <2>3. k.at = n /\ n \in 1 .. 3 /\ k.path[n] = "feed"
      BY <1>1, <2>1
    <2> HIDE DEF k, n
    <2>4. k.at \in 1 .. n
      BY <2>3
    <2> QED BY <2>2, <2>3, <2>4 DEF n
  <1>3. good \in Entry /\ Recent("lastgood", good) /\ good.value \in Values /\ good.value.age \in Nat
        /\ good.left \in Nat
    BY DEF AgesInv, Key, Entry, Values
  <1>4. IF k.value.content # "empty"
        THEN /\ entry' = [entry EXCEPT !["lastgood"] = [value |-> k.value, left |-> StickyTtl]]
             /\ read' = [read EXCEPT ![r] = Up(k, k.value)]
        ELSE /\ read' = [read EXCEPT ![r] = Up(k, IF good.left > 0 THEN good.value ELSE k.value)]
             /\ UNCHANGED entry
    BY DEF CoverGap
  <1>5. Lifetimes("lastgood") = FeedTtl + StickyTtl
    BY TtlTypes DEF Lifetimes, Oldest, Tracked
  <1> HIDE DEF k, good
  <1>6. ASSUME NEW v \in Values, v.age + Lag(k) <= FeedTtl + StickyTtl
        PROVE  Up(k, v) \in Request /\ Placed(Up(k, v)) /\ Fresh(Up(k, v))
    BY <1>1, <1>2, <1>6, UpKeeps
  <1>7. k.value.age + Lag(k) <= FeedTtl + StickyTtl
    BY <1>1, TtlTypes
  <1>8. CASE k.value.content # "empty"
    <2> DEFINE e == [value |-> k.value, left |-> StickyTtl]
    <2>1. e \in Entry /\ e.value = k.value /\ e.left = StickyTtl
      BY <1>1, TtlTypes DEF Entry
    <2> HIDE DEF e
    <2>2. Recent("lastgood", e)
      BY <1>1, <1>5, <2>1, TtlTypes DEF Recent
    <2>3. entry' = [entry EXCEPT !["lastgood"] = e] /\ "lastgood" \in Key
      BY <1>4, <1>8 DEF e, Key
    <2>4. read' = [read EXCEPT ![r] = Up(k, k.value)]
      BY <1>4, <1>8
    <2> QED BY <1>1, <1>6, <1>7, <2>1, <2>2, <2>3, <2>4, OneRequest
  <1>9. CASE k.value.content = "empty"
    <2> DEFINE v == IF good.left > 0 THEN good.value ELSE k.value
    <2>1. v \in Values /\ v.age + Lag(k) <= FeedTtl + StickyTtl
      BY <1>1, <1>3, <1>5, <1>7, TtlTypes DEF Recent
    <2>2. read' = [read EXCEPT ![r] = Up(k, v)] /\ entry' = entry
      BY <1>4, <1>9
    <2> HIDE DEF v
    <2> QED BY <1>6, <2>1, <2>2, OneRequest
  <1> QED BY <1>8, <1>9

LEMMA StoreKeeps ==
    ASSUME AgesInv, NEW r \in Reader, StoreKey(r)
    PROVE  AgesInv'
  <1> DEFINE k == read[r]
             key == k.path[k.at]
             v == IF k.value.content = "others" THEN Empty ELSE k.value
             e == IF key \in Tracked /\ v.content = "empty" THEN Gone ELSE [value |-> v, left |-> Ttl(key)]
  <1>1. /\ k.pc = "store" /\ k \in Request /\ k.path \in Path /\ k.value \in Values /\ k.value.age \in Nat
        /\ k.at \in 1 .. Len(k.path) - 1 /\ k.value.age + Lag(k) <= Oldest(k.path[k.at + 1])
        /\ Lag(k) \in {0, 1}
    BY DEF StoreKey, AgesInv, Placed, Fresh, Request, Values, Lag
  <1>2. entry' = [entry EXCEPT ![key] = e] /\ read' = [read EXCEPT ![r] = Up(k, v)]
    BY DEF StoreKey
  <1>3. v \in Values /\ v.age \in Nat /\ v.age <= k.value.age
    <2> HIDE DEF k
    <2> QED BY <1>1, EmptyIsValue
  <1>4. /\ Len(k.path) \in 1 .. 3 /\ k.at \in 1 .. Len(k.path) /\ key \in Key /\ key # "feed"
        /\ k.path[k.at + 1] \in Key
        /\ Oldest(k.path[k.at + 1]) + Ttl(key) <= Oldest(key)
    BY <1>1, Paths
  <1>5. e \in Entry /\ (e = Gone \/ (e.value = v /\ e.left = Ttl(key)))
    <2> HIDE DEF k, v, key
    <2> QED BY <1>3, <1>4, EmptyIsValue, TtlTypes DEF Entry, Gone
  <1> DEFINE inner == Oldest(k.path[k.at + 1])
  <1>6. inner \in Nat /\ Oldest(key) \in Nat /\ Ttl(key) \in Nat /\ Ttl(key) > 0
    BY <1>4, TtlTypes
  <1>7. inner + Ttl(key) <= Oldest(key) /\ k.value.age + Lag(k) <= inner
    BY <1>1, <1>4
  <1> HIDE DEF k, v, key, e, inner
  <1>8. v.age + Lag(k) <= Oldest(key) /\ v.age + Ttl(key) <= Oldest(key)
    BY <1>1, <1>3, <1>6, <1>7
  <1>9. Recent(key, e)
    BY <1>4, <1>5, <1>8 DEF Recent, Lifetimes, Gone
  <1>10. Up(k, v) \in Request /\ Placed(Up(k, v)) /\ Fresh(Up(k, v))
    BY <1>1, <1>3, <1>4, <1>8, UpKeeps DEF key
  <1> QED BY <1>2, <1>4, <1>5, <1>9, <1>10, OneRequest

LEMMA FailKeeps ==
    ASSUME AgesInv, NEW r \in Reader, ReadFails(r)
    PROVE  AgesInv'
  <1> DEFINE hit == IF read[r].pc = "fetch" THEN Sharing(r) ELSE {r}
  <1>1. read' = [q \in Reader |-> IF q \in hit THEN Failed(read[q]) ELSE read[q]] /\ entry' = entry
    BY DEF ReadFails
  <1> HIDE DEF hit
  <1>2. ASSUME NEW k \in Request
        PROVE  Failed(k) \in Request /\ Placed(Failed(k)) /\ Fresh(Failed(k))
    <2> DEFINE new == Failed(k)
    <2>1. k.path \in Path /\ k.at \in 0 .. 3 /\ k.held \in BOOLEAN
      BY DEF Request
    <2>2. /\ Len(k.path) \in 1 .. 3 /\ k.path[Len(k.path)] = "feed" /\ k.path[1] \in Key
          /\ 2 \in 1 .. Len(k.path) => k.path[2] \in Key
      BY <2>1, Paths
    <2>3. CASE k.path[1] \in Tracked /\ k.at > 1
      <3>1. /\ new \in Request /\ new.pc = "store" /\ new.at = 1 /\ new.path = k.path /\ new.value = Empty
        <4>1. new = [k EXCEPT !.at = 1, !.pc = "store", !.value = Empty]
          BY <2>3 DEF Failed
        <4>2. Empty \in Values /\ 1 \in 0 .. 3
          BY EmptyIsValue
        <4> HIDE DEF new
        <4> QED BY <4>1, <4>2 DEF Request
      <3> HIDE DEF new
      <3>2. Len(k.path) # 1
        BY <2>2, <2>3 DEF Tracked
      <3>3. Oldest(k.path[2]) \in Nat /\ Oldest(k.path[2]) > 0
        BY <2>2, <3>2, TtlTypes DEF Oldest
      <3>4. Placed(new)
        <4>1. 1 \in 1 .. Len(k.path) - 1
          <5> DEFINE n == Len(k.path)
          <5>1. n \in 1 .. 3 /\ n # 1
            BY <2>2, <3>2
          <5> HIDE DEF n
          <5>2. 1 \in 1 .. n - 1
            BY <5>1
          <5> QED BY <5>2 DEF n
        <4> QED BY <3>1, <4>1 DEF Placed
      <3>5. Fresh(new)
        BY <3>1, <3>3, EmptyIsValue DEF Fresh, Lag
      <3> QED BY <3>1, <3>4, <3>5 DEF new
    <2>4. CASE ~(k.path[1] \in Tracked /\ k.at > 1)
      <3>1. new \in Request /\ new.pc = "answered" /\ new.path = k.path /\ new.value = Empty
        <4>1. new = [k EXCEPT !.at = 0, !.pc = "answered", !.value = Empty]
          BY <2>4 DEF Failed
        <4>2. Empty \in Values /\ 0 \in 0 .. 3
          BY EmptyIsValue
        <4> HIDE DEF new
        <4> QED BY <4>1, <4>2 DEF Request
      <3> HIDE DEF new
      <3>2. Oldest(k.path[1]) \in Nat /\ Oldest(k.path[1]) > 0
        BY <2>2, TtlTypes DEF Oldest
      <3>3. Placed(new) /\ Fresh(new)
        BY <3>1, <3>2, EmptyIsValue DEF Placed, Fresh, Lag
      <3> QED BY <3>1, <3>3 DEF new
    <2> QED BY <2>3, <2>4
  <1>3. ASSUME NEW q \in Reader
        PROVE  read'[q] \in Request /\ Placed(read'[q]) /\ Fresh(read'[q])
    BY <1>1, <1>2 DEF AgesInv
  <1>4. read' \in [Reader -> Request]
    <2>1. read' = [q \in Reader |-> read'[q]]
      BY <1>1
    <2> QED BY <1>3, <2>1
  <1> QED BY <1>1, <1>3, <1>4 DEF AgesInv

LEMMA OlderByOne ==
    ASSUME NEW v \in Values
    PROVE  Older(v) \in Values /\ Older(v).age <= v.age + 1
  BY TtlTypes DEF Older, Values

LEMMA FeedTickKeeps ==
    ASSUME AgesInv, FeedTick
    PROVE  AgesInv'
  <1>1. /\ \A r \in Reader : read[r].held => read[r].pc \in {"idle", "fetch", "wait"}
        /\ read' = [r \in Reader |-> IF read[r].pc \in {"idle", "fetch", "wait"} THEN read[r]
                                     ELSE [read[r] EXCEPT !.held = TRUE, !.value = Older(@)]]
        /\ entry' = [k \in Key |-> IF entry[k].left > 1
                                   THEN [value |-> Older(entry[k].value), left |-> entry[k].left - 1]
                                   ELSE Gone]
    BY DEF FeedTick
  <1>2. ASSUME NEW r \in Reader
        PROVE  read'[r] \in Request /\ Placed(read'[r]) /\ Fresh(read'[r])
    <2>1. CASE read[r].pc \in {"idle", "fetch", "wait"}
      BY <1>1, <2>1 DEF AgesInv
    <2>2. CASE read[r].pc \notin {"idle", "fetch", "wait"}
      <3> DEFINE k == read[r]
                 new == [k EXCEPT !.held = TRUE, !.value = Older(@)]
      <3>1. /\ k \in Request /\ Placed(k) /\ Fresh(k) /\ k.path \in Path /\ k.at \in 0 .. 3
            /\ k.value \in Values /\ k.value.age \in Nat
        BY DEF AgesInv, Request, Values
      <3>2. read'[r] = new /\ k.held = FALSE
        BY <1>1, <2>2, <3>1 DEF Request
      <3> HIDE DEF k
      <3>3. Older(k.value) \in Values /\ Older(k.value).age <= k.value.age + 1 /\ Older(k.value).age \in Nat
        BY <3>1, OlderByOne DEF Values
      <3>4. /\ new \in Request /\ new.pc = k.pc /\ new.at = k.at /\ new.path = k.path
            /\ new.value = Older(k.value) /\ new.held = TRUE
        BY <3>1, <3>3 DEF Request
      <3> HIDE DEF new
      <3>5. new.value.age + Lag(new) <= k.value.age + Lag(k) /\ new.value.age + Lag(new) \in Nat
            /\ k.value.age + Lag(k) \in Nat
        BY <3>1, <3>2, <3>3, <3>4 DEF Lag
      <3>6. Placed(new)
        BY <3>1, <3>4 DEF Placed
      <3>7. Fresh(new)
        <4> DEFINE a == new.value.age + Lag(new)
                   b == k.value.age + Lag(k)
        <4>1. a \in Nat /\ b \in Nat /\ a <= b
          BY <3>5
        <4>2. ASSUME new.pc = "sticky" PROVE a <= FeedTtl
          <5>1. b <= FeedTtl
            BY <3>1, <3>4, <4>2 DEF Fresh
          <5> HIDE DEF a, b
          <5> QED BY <4>1, <5>1, TtlTypes
        <4>3. ASSUME new.pc = "store" PROVE a <= Oldest(new.path[new.at + 1])
          <5> DEFINE o == Oldest(new.path[new.at + 1])
          <5>1. b <= o /\ k.at \in 1 .. Len(k.path) - 1
            BY <3>1, <3>4, <4>3 DEF Fresh, Placed
          <5>2. o \in Nat
            <6>1. k.path[k.at + 1] \in Key
              BY <3>1, <5>1, Paths
            <6> QED BY <3>4, <6>1, TtlTypes
          <5> HIDE DEF a, b, o
          <5>3. a <= o
            BY <4>1, <5>1, <5>2
          <5> QED BY <5>3 DEF o
        <4>4. ASSUME new.pc = "answered" PROVE a <= Oldest(new.path[1])
          <5> DEFINE o == Oldest(new.path[1])
          <5>1. b <= o
            BY <3>1, <3>4, <4>4 DEF Fresh
          <5>2. o \in Nat
            <6>1. k.path[1] \in Key
              BY <3>1, Paths
            <6> QED BY <3>4, <6>1, TtlTypes
          <5> HIDE DEF a, b, o
          <5>3. a <= o
            BY <4>1, <5>1, <5>2
          <5> QED BY <5>3 DEF o
        <4> QED BY <4>2, <4>3, <4>4 DEF Fresh
      <3> QED BY <3>2, <3>4, <3>6, <3>7
    <2> QED BY <2>1, <2>2
  <1>3. ASSUME NEW key \in Key
        PROVE  entry'[key] \in Entry /\ Recent(key, entry'[key])
    <2>1. CASE entry[key].left > 1
      <3> DEFINE e == entry[key]
                 new == [value |-> Older(e.value), left |-> e.left - 1]
      <3>1. /\ e \in Entry /\ Recent(key, e) /\ e.value \in Values /\ e.value.age \in Nat /\ e.left \in Nat
            /\ e.left > 1
        BY <2>1 DEF AgesInv, Entry, Values
      <3>2. entry'[key] = new
        BY <1>1, <2>1
      <3> HIDE DEF e
      <3>3. Older(e.value) \in Values /\ Older(e.value).age <= e.value.age + 1 /\ Older(e.value).age \in Nat
        BY <3>1, OlderByOne DEF Values
      <3>4. new \in Entry /\ new.value = Older(e.value) /\ new.left = e.left - 1
        BY <3>1, <3>3 DEF Entry
      <3> HIDE DEF new
      <3>5. Recent(key, new)
        BY <3>1, <3>3, <3>4, TtlTypes DEF Recent
      <3> QED BY <3>2, <3>4, <3>5
    <2>2. CASE ~(entry[key].left > 1)
      <3>1. entry'[key] = Gone
        BY <1>1, <2>2
      <3> QED BY <3>1, EmptyIsValue DEF Entry, Gone, Recent
    <2> QED BY <2>1, <2>2
  <1>4. read' \in [Reader -> Request] /\ entry' \in [Key -> Entry]
    <2>1. read' = [r \in Reader |-> read'[r]] /\ entry' = [key \in Key |-> entry'[key]]
      BY <1>1
    <2>2. read' \in [Reader -> Request]
      BY <1>2, <2>1
    <2>3. entry' \in [Key -> Entry]
      BY <1>3, <2>1
    <2> QED BY <2>2, <2>3
  <1> QED BY <1>2, <1>3, <1>4 DEF AgesInv

LEMMA AgesInductive == FeedSpec => []AgesInv
  <1>1. AgesInv /\ [FeedNext]_feedVars => AgesInv'
    <2> SUFFICES ASSUME AgesInv, [FeedNext]_feedVars PROVE AgesInv'
      OBVIOUS
    <2>1. ASSUME NEW r \in Reader, NEW path \in Path, BeginRead(r, path) PROVE AgesInv'
      BY <2>1, BeginKeeps DEF BeginRead
    <2>2. ASSUME NEW r \in Reader, BeginPoll(r) PROVE AgesInv'
      BY <2>2, BeginKeeps DEF BeginPoll, Path
    <2>3. ASSUME NEW r \in Reader, EndRead(r) PROVE AgesInv'
      <3>1. read' = [read EXCEPT ![r] = Quiet] /\ entry' = entry
        BY <2>3 DEF EndRead
      <3> QED BY <3>1, QuietIsRequest, OneRequest
    <2>4. CASE \E r \in Reader : ReadStep(r) \/ ReadFails(r) \/ BeginPoll(r)
      BY <2>2, <2>3, <2>4, LookUpKeeps, JoinKeeps, CoverKeeps, StoreKeeps, FailKeeps DEF ReadStep
    <2>5. CASE \E r \in Reader, content \in {"empty", "others", "trip"} : FetchEnds(r, content)
      BY <2>5, FetchKeeps
    <2>6. CASE FeedTick
      BY <2>6, FeedTickKeeps
    <2>7. CASE UNCHANGED <<entry, read>>
      BY <2>7 DEF AgesInv
    <2>8. CASE \E c \in Client : Subscribe(c) \/ Listen(c) \/ Unsubscribe(c)
      BY <2>7, <2>8 DEF Subscribe, Listen, Unsubscribe
    <2> QED BY <2>1, <2>4, <2>5, <2>6, <2>7, <2>8 DEF FeedNext, feedVars
  <1> QED BY <1>1, AgesInitInv, PTL DEF FeedSpec

\* No answer is older than the lifetimes of the caches on its path: a snapshot that
\* covers a gap is never taken for a new one (fetchWithStickyFallback).
THEOREM NoAnswerIsOld == FeedSpec => []AnswersAreRecent
  <1>1. AgesInv => AnswersAreRecent
    <2> SUFFICES ASSUME AgesInv, NEW r \in Reader, read[r].pc = "answered"
                 PROVE  read[r].value.age <= Oldest(read[r].path[1])
      BY DEF AnswersAreRecent
    <2> DEFINE k == read[r]
    <2>1. k.path \in Path /\ k.value.age \in Nat /\ k.value.age + Lag(k) <= Oldest(k.path[1])
      BY DEF AgesInv, Request, Values, Fresh
    <2>2. Oldest(k.path[1]) \in Nat
      BY <2>1, Paths, TtlTypes
    <2> HIDE DEF k
    <2> QED BY <2>1, <2>2 DEF Lag, k
  <1> QED BY <1>1, AgesInductive, PTL

-----------------------------------------------------------------------------
(* The live trip. *)

\* A sequence that holds a set of numbers, sorted.
IsSorting(s, S) ==
    /\ s \in [1 .. Cardinality(S) -> S] /\ Range(s) = S
    /\ \A i, j \in DOMAIN s : i < j => s[i] < s[j]

\* The least number, then the others.
LEMMA LeastFirst ==
    ASSUME NEW S \in SUBSET Nat, IsFiniteSet(S), NEW m \in S, \A i \in S : m <= i,
           NEW u, IsSorting(u, S \ {m})
    PROVE  \E v : IsSorting(v, S)
  <1> DEFINE k == Cardinality(S)
             U == S \ {m}
             v == [i \in 1 .. k |-> IF i = 1 THEN m ELSE u[i - 1]]
  <1>1. k \in Nat /\ k # 0 /\ Cardinality(U) = k - 1
    <2>1. k \in Nat /\ Cardinality(U) = k - 1
      BY FS_CardinalityType, FS_RemoveElement
    <2>2. Cardinality(U) \in Nat
      BY FS_CardinalityType, FS_RemoveElement
    <2> QED BY <2>1, <2>2
  <1>2. /\ DOMAIN u = 1 .. k - 1 /\ \A i \in 1 .. k - 1 : u[i] \in U
        /\ \A i, j \in 1 .. k - 1 : i < j => u[i] < u[j]
        /\ \A n \in U : \E i \in 1 .. k - 1 : u[i] = n
    <2>1. u \in [1 .. k - 1 -> U] /\ Range(u) = U
      BY <1>1 DEF IsSorting
    <2>2. DOMAIN u = 1 .. k - 1
      BY <2>1
    <2> HIDE DEF k, U
    <2> QED BY <2>1, <2>2 DEF IsSorting, Range
  <1>3. \A n \in U : n \in Nat /\ m < n
    OBVIOUS
  <1>4. /\ DOMAIN v = 1 .. k /\ v[1] = m /\ v = [i \in 1 .. k |-> v[i]]
        /\ \A i \in 2 .. k : v[i] = u[i - 1] /\ i - 1 \in 1 .. k - 1
    BY <1>1
  <1> HIDE DEF k, v
  <1>5. \A i \in 2 .. k : v[i] \in U
    BY <1>2, <1>4
  <1>6. \A i \in 1 .. k : i = 1 \/ i \in 2 .. k
    BY <1>1
  <1>7. \A i \in 1 .. k : v[i] \in S
    BY <1>4, <1>5, <1>6
  <1>8. S \subseteq Range(v)
    <2> SUFFICES ASSUME NEW n \in S PROVE \E i \in 1 .. k : v[i] = n
      BY <1>4 DEF Range
    <2>1. CASE n = m
      BY <1>1, <1>4, <2>1
    <2>2. CASE n # m
      <3>1. PICK i \in 1 .. k - 1 : u[i] = n
        BY <1>2, <2>2
      <3>2. i + 1 \in 2 .. k /\ (i + 1) - 1 = i /\ i + 1 \in 1 .. k
        BY <1>1
      <3> QED BY <1>4, <3>1, <3>2
    <2> QED BY <2>1, <2>2
  <1>9. ASSUME NEW i \in 1 .. k, NEW j \in 1 .. k, i < j PROVE v[i] < v[j]
    <2>1. j \in 2 .. k
      BY <1>1, <1>9
    <2>2. CASE i = 1
      BY <1>3, <1>4, <1>5, <2>1, <2>2
    <2>3. CASE i # 1
      <3>1. i \in 2 .. k /\ i - 1 < j - 1
        BY <1>1, <1>9, <2>3
      <3>2. /\ v[i] = u[i - 1] /\ i - 1 \in 1 .. k - 1
            /\ v[j] = u[j - 1] /\ j - 1 \in 1 .. k - 1
        BY <1>4, <2>1, <3>1
      <3>3. u[i - 1] < u[j - 1]
        BY <1>2, <3>1, <3>2
      <3> QED BY <3>2, <3>3
    <2> QED BY <2>2, <2>3
  <1>10. v \in [1 .. k -> S]
    BY <1>4, <1>7
  <1>11. Range(v) = S
    BY <1>4, <1>7, <1>8 DEF Range
  <1> QED BY <1>4, <1>9, <1>10, <1>11 DEF IsSorting, k

LEMMA CanBeSorted ==
    ASSUME NEW S \in SUBSET Nat, IsFiniteSet(S)
    PROVE  IsSorting(Ascending(S), S)
  <1> DEFINE Unsortable(T) == IsFiniteSet(T) /\ ~(\E s : IsSorting(s, T))
             Sizes == {n \in Nat : \E T \in SUBSET Nat : Unsortable(T) /\ Cardinality(T) = n}
  <1>1. Sizes = {}
    <2> SUFFICES ASSUME Sizes # {} PROVE FALSE
      OBVIOUS
    <2>1. PICK k \in Sizes : \A i \in Sizes : k <= i
      <3>1. Sizes \in SUBSET Nat
        OBVIOUS
      <3> HIDE DEF Sizes
      <3> QED BY <3>1, Least
    <2>2. PICK T \in SUBSET Nat : Unsortable(T) /\ Cardinality(T) = k
      BY <2>1
    <2>3. T # {}
      <3> SUFFICES ASSUME T = {} PROVE FALSE
        OBVIOUS
      <3> DEFINE none == [i \in 1 .. 0 |-> 0]
      <3>1. none \in [1 .. 0 -> T] /\ DOMAIN none = {}
        OBVIOUS
      <3> HIDE DEF none
      <3>2. Cardinality(T) = 0 /\ Range(none) = T
        BY <3>1, FS_EmptySet DEF Range
      <3>3. IsSorting(none, T)
        BY <3>1, <3>2 DEF IsSorting
      <3> QED BY <2>2, <3>3
    <2>4. PICK m \in T : \A i \in T : m <= i
      BY <2>2, <2>3, Least
    <2>5. /\ T \ {m} \in SUBSET Nat /\ IsFiniteSet(T \ {m})
          /\ Cardinality(T \ {m}) = k - 1 /\ Cardinality(T \ {m}) \in Nat
      BY <2>2, <2>4, FS_RemoveElement, FS_CardinalityType
    <2>6. PICK u : IsSorting(u, T \ {m})
      <3>1. k - 1 \notin Sizes
        BY <2>1, <2>5
      <3> QED BY <2>5, <3>1
    <2>7. \E v : IsSorting(v, T)
      BY <2>2, <2>4, <2>6, LeastFirst
    <2> QED BY <2>2, <2>7
  <1>2. PICK s : IsSorting(s, S)
    <2>1. Cardinality(S) \in Nat /\ Cardinality(S) \notin Sizes
      BY <1>1, FS_CardinalityType
    <2> QED BY <2>1
  <1> QED BY <1>2 DEF Ascending, IsSorting

\* The positions findRealtimeMatch has found, item by item.
Follows(best, items, ref) ==
    best = [n \in 0 .. Len(items) |->
              IF n = 0 THEN 0
              ELSE IF TierAt(items, n, ref) < TierAt(items, best[n - 1], ref) THEN n ELSE best[n - 1]]

LEMMA MatchFollows ==
    ASSUME NEW items \in Seq(Item), NEW ref
    PROVE  \E best : Follows(best, items, ref) /\ FindRealtimeMatch(items, ref) = best[Len(items)]
  <1> DEFINE N == Len(items)
             Next1(n, b) == IF TierAt(items, n, ref) < TierAt(items, b, ref) THEN n ELSE b
             Upto(u, k) == /\ u = [n \in 0 .. k |-> u[n]] /\ u[0] = 0
                           /\ \A n \in 1 .. k : u[n] = Next1(n, u[n - 1])
             Missing == {k \in Nat : k <= N /\ ~(\E u : Upto(u, k))}
  <1>1. N \in Nat
    OBVIOUS
  <1> HIDE DEF N, Next1
  <1>2. Missing = {}
    <2> SUFFICES ASSUME Missing # {} PROVE FALSE
      OBVIOUS
    <2>1. PICK m \in Missing : \A i \in Missing : m <= i
      <3>1. Missing \in SUBSET Nat
        OBVIOUS
      <3> HIDE DEF Missing
      <3> QED BY <3>1, Least
    <2>2. m \in Nat /\ m <= N /\ ~(\E u : Upto(u, m))
      BY <2>1
    <2>3. m # 0
      <3> DEFINE u == [n \in 0 .. 0 |-> 0]
      <3>1. u = [n \in 0 .. 0 |-> u[n]] /\ u[0] = 0
        OBVIOUS
      <3> HIDE DEF u
      <3>2. Upto(u, 0)
        BY <3>1
      <3> HIDE DEF Upto
      <3> QED BY <2>2, <3>2
    <2>4. PICK u : Upto(u, m - 1)
      <3>1. m - 1 \in Nat /\ m - 1 <= N /\ m - 1 \notin Missing
        BY <1>1, <2>1, <2>2, <2>3
      <3> HIDE DEF Upto
      <3> QED BY <3>1
    <2> DEFINE v == [n \in 0 .. m |-> IF n = m THEN Next1(m, u[m - 1]) ELSE u[n]]
    <2>5. /\ v = [n \in 0 .. m |-> v[n]] /\ v[m] = Next1(m, u[m - 1])
          /\ \A n \in 0 .. m - 1 : v[n] = u[n]
      BY <2>2, <2>3
    <2> HIDE DEF v
    <2>6. v[0] = 0
      <3>1. 0 \in 0 .. m - 1 /\ u[0] = 0
        BY <2>2, <2>3, <2>4
      <3> QED BY <2>5, <3>1
    <2>7. ASSUME NEW n \in 1 .. m PROVE v[n] = Next1(n, v[n - 1])
      <3>1. CASE n = m
        <4>1. m - 1 \in 0 .. m - 1
          BY <2>2, <2>3
        <4> QED BY <2>5, <3>1, <4>1
      <3>2. CASE n # m
        <4>1. n \in 1 .. m - 1 /\ n \in 0 .. m - 1 /\ n - 1 \in 0 .. m - 1
          BY <2>2, <3>2
        <4> QED BY <2>4, <2>5, <4>1
      <3> QED BY <3>1, <3>2
    <2>8. Upto(v, m)
      BY <2>5, <2>6, <2>7
    <2> HIDE DEF Upto
    <2> QED BY <2>2, <2>8
  <1>3. PICK w : Upto(w, N)
    <2>1. N \notin Missing
      BY <1>2
    <2> HIDE DEF Upto
    <2> QED BY <1>1, <2>1
  <1>4. Follows(w, items, ref)
    <2>1. ASSUME NEW n \in 0 .. N
          PROVE  w[n] = IF n = 0 THEN 0 ELSE Next1(n, w[n - 1])
      BY <1>1, <1>3
    <2>2. w = [n \in 0 .. N |-> w[n]]
      BY <1>3
    <2>3. w = [n \in 0 .. N |-> IF n = 0 THEN 0 ELSE Next1(n, w[n - 1])]
      BY <2>1, <2>2
    <2> QED BY <2>3 DEF Follows, N, Next1
  <1> DEFINE c == CHOOSE best : Follows(best, items, ref)
  <1>5. Follows(c, items, ref)
    BY <1>4
  <1>6. FindRealtimeMatch(items, ref) = c[Len(items)]
    BY DEF FindRealtimeMatch, Follows
  <1> QED BY <1>5, <1>6


\* The tiers are numbers, and the last is that of no match.
LEMMA Tiers ==
    ASSUME NEW items, NEW ref
    PROVE  /\ TierAt(items, 0, ref) = 5
           /\ \A i : TierAt(items, i, ref) \in 1 .. 5
           /\ \A i \in Nat \ {0} : TierAt(items, i, ref) = Tier(items[i], ref)
  <1>1. \A item : Tier(item, ref) \in {1, 2, 3, 4, 5}
    BY DEF Tier
  <1> QED BY <1>1 DEF TierAt

\* The best of the first n items: none of them beats it, and the ones before it are worse.
BestOf(items, ref, n, b) ==
    /\ b \in 0 .. n /\ (b # 0 => TierAt(items, b, ref) < 5)
    /\ \A i \in 1 .. n : /\ TierAt(items, b, ref) <= TierAt(items, i, ref)
                         /\ i < b => TierAt(items, b, ref) < TierAt(items, i, ref)

LEMMA MatchIsBest ==
    ASSUME NEW items \in Seq(Item), NEW ref
    PROVE  BestOf(items, ref, Len(items), FindRealtimeMatch(items, ref))
  <1> DEFINE N == Len(items)
             T(i) == TierAt(items, i, ref)
  <1>1. PICK best : Follows(best, items, ref) /\ FindRealtimeMatch(items, ref) = best[N]
    BY MatchFollows
  <1>2. N \in Nat
    OBVIOUS
  <1>3. /\ best[0] = 0
        /\ \A n \in 1 .. N : best[n] = IF T(n) < T(best[n - 1]) THEN n ELSE best[n - 1]
    BY <1>1, <1>2 DEF Follows
  <1>4. T(0) = 5 /\ \A i : T(i) \in 1 .. 5
    BY Tiers
  <1> HIDE DEF N, T
  <1> DEFINE Good(n, b) == /\ b \in 0 .. n /\ (b # 0 => T(b) < 5)
                           /\ \A i \in 1 .. n : T(b) <= T(i) /\ (i < b => T(b) < T(i))
             Bad == {n \in Nat : n <= N /\ ~Good(n, best[n])}
  <1>5. Bad = {}
    <2> SUFFICES ASSUME Bad # {} PROVE FALSE
      OBVIOUS
    <2>1. PICK m \in Bad : \A i \in Bad : m <= i
      <3>1. Bad \in SUBSET Nat
        OBVIOUS
      <3> HIDE DEF Bad
      <3> QED BY <3>1, Least
    <2>2. m \in Nat /\ m <= N /\ ~Good(m, best[m])
      BY <2>1
    <2>3. m # 0
      <3>1. Good(0, best[0])
        BY <1>3
      <3> HIDE DEF Good
      <3> QED BY <2>2, <3>1
    <2>4. m - 1 \in Nat /\ m - 1 <= N /\ m - 1 \notin Bad /\ m \in 1 .. N
      BY <1>2, <2>1, <2>2, <2>3
    <2>5. Good(m - 1, best[m - 1])
      <3> HIDE DEF Good
      <3> QED BY <2>4
    <2> DEFINE b == best[m - 1]
    <2>6. best[m] = IF T(m) < T(b) THEN m ELSE b
      BY <1>3, <2>4
    <2>7. b \in 0 .. m - 1 /\ (b # 0 => T(b) < 5)
          /\ \A i \in 1 .. m - 1 : T(b) <= T(i) /\ (i < b => T(b) < T(i))
      BY <2>5
    <2> HIDE DEF b
    <2>8. \A i \in 1 .. m : i \in 1 .. m - 1 \/ i = m
      BY <2>4
    <2>9. CASE T(m) < T(b)
      <3>1. T(m) < 5 /\ best[m] = m
        BY <1>4, <2>6, <2>9
      <3>2. ASSUME NEW i \in 1 .. m PROVE T(m) <= T(i) /\ (i < m => T(m) < T(i))
        <4>1. CASE i = m
          BY <1>4, <2>4, <4>1
        <4>2. CASE i \in 1 .. m - 1
          <5>1. T(b) <= T(i) /\ T(b) \in Int /\ T(i) \in Int /\ T(m) \in Int
            BY <1>4, <2>7, <4>2
          <5> QED BY <2>9, <5>1
        <4> QED BY <2>8, <4>1, <4>2
      <3>3. Good(m, m)
        BY <2>4, <3>1, <3>2
      <3> HIDE DEF Good
      <3> QED BY <2>2, <3>1, <3>3
    <2>10. CASE ~(T(m) < T(b))
      <3>1. T(b) <= T(m) /\ ~(m < b) /\ best[m] = b /\ b \in 0 .. m
        BY <1>4, <2>4, <2>6, <2>7, <2>10
      <3>2. ASSUME NEW i \in 1 .. m PROVE T(b) <= T(i) /\ (i < b => T(b) < T(i))
        BY <2>7, <2>8, <3>1
      <3>3. Good(m, b)
        BY <2>7, <3>1, <3>2
      <3> HIDE DEF Good
      <3> QED BY <2>2, <3>1, <3>3
    <2> QED BY <2>9, <2>10
  <1>6. Good(N, best[N])
    <2>1. N \in Nat /\ N <= N /\ N \notin Bad
      BY <1>2, <1>5
    <2> HIDE DEF Good
    <2> QED BY <2>1
  <1> QED BY <1>1, <1>6 DEF BestOf, N, T

LEMMA LastLive ==
    ASSUME NEW N \in Nat, NEW S \in SUBSET (1 .. N), S # {}
    PROVE  Max(S) \in S /\ \A j \in S : Max(S) >= j
  <1> DEFINE R == {N - j : j \in S}
  <1>1. PICK r \in R : \A q \in R : r <= q
    <2>1. \A j \in 1 .. N : N - j \in Nat
      OBVIOUS
    <2>2. R \in SUBSET Nat
      BY <2>1
    <2>3. R # {}
      OBVIOUS
    <2> HIDE DEF R
    <2> QED BY <2>2, <2>3, Least
  <1>2. PICK j \in S : r = N - j
    BY <1>1
  <1>3. \A i \in S : j >= i
    BY <1>1, <1>2
  <1> QED BY <1>3 DEF Max


\* The number that a stop of the answer stands for.
NumberOf(s, updates) == IF s.live THEN updates[s.of] ELSE s.of

\* Every planned stop is there, in order, or the live ones are as they came; and each
\* live stop is there, or a later one of its number.
StopsJoined(stops, updates, out) ==
    /\ \/ /\ \A n \in stops : \E i \in DOMAIN out : NumberOf(out[i], updates) = n
          /\ \A i, k \in DOMAIN out :
               NumberOf(out[i], updates) \in stops /\ NumberOf(out[k], updates) \in stops /\ i < k
                 => NumberOf(out[i], updates) < NumberOf(out[k], updates)
       \/ out = [j \in DOMAIN updates |-> LiveStop(j)]
    /\ \A j \in DOMAIN updates : \E i \in DOMAIN out :
         \/ out[i] = LiveStop(j)
         \/ out[i].live /\ updates[out[i].of] = updates[j] /\ out[i].of > j

LEMMA UnchangedJoins ==
    ASSUME NEW stops, NEW updates
    PROVE  StopsJoined(stops, updates, [j \in DOMAIN updates |-> LiveStop(j)])
  BY DEF StopsJoined

\* What stands in the answer for a planned stop: the last live update of its
\* number, or the stop of the plan.
LEMMA StopForIs ==
    ASSUME NEW updates \in Seq(Nat), NEW n \in Nat
    PROVE  \/ /\ StopFor(n, updates) = PlannedStop(n)
              /\ \A j \in DOMAIN updates : updates[j] # n
           \/ \E m \in DOMAIN updates :
                /\ StopFor(n, updates) = LiveStop(m) /\ m \in Nat /\ updates[m] = n
                /\ \A j \in DOMAIN updates : updates[j] = n => m = j \/ m > j
  <1> DEFINE at == {j \in DOMAIN updates : updates[j] = n}
  <1>1. Len(updates) \in Nat /\ DOMAIN updates = 1 .. Len(updates)
    OBVIOUS
  <1>2. StopFor(n, updates) = IF at = {} THEN PlannedStop(n) ELSE LiveStop(Max(at))
    BY DEF StopFor
  <1>3. CASE at = {}
    BY <1>2, <1>3
  <1>4. CASE at # {}
    <2> DEFINE m == Max(at)
    <2>1. m \in at /\ \A j \in at : m >= j
      <3>1. at \in SUBSET (1 .. Len(updates))
        BY <1>1
      <3> HIDE DEF at
      <3> QED BY <1>1, <1>4, <3>1, LastLive
    <2>2. StopFor(n, updates) = LiveStop(m)
      BY <1>2, <1>4
    <2> HIDE DEF m
    <2>3. m \in DOMAIN updates /\ m \in Nat /\ updates[m] = n
      BY <1>1, <2>1
    <2>4. ASSUME NEW j \in DOMAIN updates, updates[j] = n
          PROVE  m = j \/ m > j
      <3>1. m >= j /\ j \in Nat
        BY <1>1, <2>1, <2>4
      <3> QED BY <2>3, <3>1
    <2> QED BY <2>2, <2>3, <2>4
  <1> QED BY <1>3, <1>4

LEMMA StopForFacts ==
    ASSUME NEW updates \in Seq(Nat), NEW n \in Nat
    PROVE  /\ StopFor(n, updates) \in [live : BOOLEAN, of : Nat]
           /\ NumberOf(StopFor(n, updates), updates) = n
  <1>1. CASE StopFor(n, updates) = PlannedStop(n)
    BY <1>1 DEF PlannedStop, NumberOf
  <1>2. ASSUME NEW m \in Nat, StopFor(n, updates) = LiveStop(m), updates[m] = n
        PROVE  /\ StopFor(n, updates) \in [live : BOOLEAN, of : Nat]
               /\ NumberOf(StopFor(n, updates), updates) = n
    BY <1>2 DEF LiveStop, NumberOf
  <1> QED BY <1>1, <1>2, StopForIs

LEMMA StopForLive ==
    ASSUME NEW updates \in Seq(Nat), NEW n \in Nat, NEW j \in DOMAIN updates, updates[j] = n
    PROVE  \/ StopFor(n, updates) = LiveStop(j)
           \/ /\ StopFor(n, updates).live /\ updates[StopFor(n, updates).of] = updates[j]
              /\ StopFor(n, updates).of > j
  <1>1. PICK m \in DOMAIN updates : /\ StopFor(n, updates) = LiveStop(m) /\ updates[m] = n
                                    /\ m = j \/ m > j
    BY StopForIs
  <1>2. LiveStop(m).live /\ LiveStop(m).of = m
    BY DEF LiveStop
  <1> QED BY <1>1, <1>2

LEMMA EnrichJoins ==
    ASSUME NEW stops \in SUBSET (Nat \ {0}), IsFiniteSet(stops), stops # {}, NEW updates \in Seq(Nat)
    PROVE  StopsJoined(stops, updates, EnrichStopTimeUpdates(stops, updates))
  <1> DEFINE extra == {j \in DOMAIN updates : updates[j] \notin stops}
             A == Ascending(stops)
             B == Ascending(extra)
             n == Cardinality(stops)
             m == Cardinality(extra)
             Stop == [live : BOOLEAN, of : Nat]
             X == [i \in DOMAIN A |-> StopFor(A[i], updates)]
             Y == [k \in DOMAIN B |-> LiveStop(B[k])]
             out == X \o Y
  <1>1. EnrichStopTimeUpdates(stops, updates) = out
    BY DEF EnrichStopTimeUpdates
  <1>2. IsSorting(A, stops) /\ n \in Nat
    BY CanBeSorted, FS_CardinalityType
  <1>3. IsSorting(B, extra) /\ m \in Nat
    <2>1. Len(updates) \in Nat /\ extra \in SUBSET (1 .. Len(updates))
      OBVIOUS
    <2>2. IsFiniteSet(1 .. Len(updates)) /\ 1 .. Len(updates) \in SUBSET Nat
      BY <2>1, FS_Interval
    <2> HIDE DEF extra
    <2>3. IsFiniteSet(extra) /\ extra \in SUBSET Nat
      BY <2>1, <2>2, FS_Subset
    <2> QED BY <2>3, CanBeSorted, FS_CardinalityType
  <1>4. /\ DOMAIN A = 1 .. n /\ \A i \in 1 .. n : A[i] \in stops
        /\ \A x \in stops : \E i \in 1 .. n : A[i] = x
        /\ \A i, k \in 1 .. n : i < k => A[i] < A[k]
    <2> HIDE DEF A, n
    <2>1. A \in [1 .. n -> stops] /\ Range(A) = stops
      BY <1>2 DEF IsSorting, n
    <2>2. DOMAIN A = 1 .. n
      BY <2>1
    <2> QED BY <1>2, <2>1, <2>2 DEF IsSorting, Range
  <1>5. /\ DOMAIN B = 1 .. m /\ \A k \in 1 .. m : B[k] \in extra
        /\ \A x \in extra : \E k \in 1 .. m : B[k] = x
    <2> HIDE DEF B, m, extra
    <2>1. B \in [1 .. m -> extra] /\ Range(B) = extra
      BY <1>3 DEF IsSorting, m
    <2>2. DOMAIN B = 1 .. m
      BY <2>1
    <2> QED BY <2>1, <2>2 DEF Range
  <1>6. \A j \in extra : j \in DOMAIN updates /\ j \in Nat /\ updates[j] \notin stops
    OBVIOUS
  <1>7. \A j \in DOMAIN updates : updates[j] \in stops \/ j \in extra
    OBVIOUS
  <1> HIDE DEF A, B, n, m, extra
  <1>8. /\ X \in Seq(Stop) /\ Len(X) = n /\ \A i \in 1 .. n : X[i] = StopFor(A[i], updates)
    <2>1. \A i \in 1 .. n : StopFor(A[i], updates) \in Stop
      BY <1>4, StopForFacts
    <2>2. X \in [1 .. n -> Stop]
      BY <1>4, <2>1
    <2> HIDE DEF Stop
    <2> QED BY <1>2, <1>4, <2>2
  <1>9. /\ Y \in Seq(Stop) /\ Len(Y) = m /\ \A k \in 1 .. m : Y[k] = LiveStop(B[k])
    <2>1. \A k \in 1 .. m : LiveStop(B[k]) \in Stop
      BY <1>5, <1>6 DEF LiveStop
    <2>2. Y \in [1 .. m -> Stop]
      BY <1>5, <2>1
    <2> HIDE DEF Stop
    <2> QED BY <1>3, <1>5, <2>2
  <1> HIDE DEF X, Y, Stop
  <1>10. /\ DOMAIN out = 1 .. n + m /\ \A i \in 1 .. n : out[i] = StopFor(A[i], updates)
         /\ \A k \in 1 .. m : out[n + k] = LiveStop(B[k])
    <2>1. out \in Seq(Stop) /\ Len(out) = n + m
      BY <1>8, <1>9
    <2>2. \A i \in 1 .. n + m : out[i] = IF i <= n THEN X[i] ELSE Y[i - n]
      <3>1. X \in Seq(Stop) /\ Y \in Seq(Stop) /\ Len(X) = n /\ Len(Y) = m
        BY <1>8, <1>9
      <3>2. \A i \in 1 .. Len(X) + Len(Y) :
              (X \o Y)[i] = IF i <= Len(X) THEN X[i] ELSE Y[i - Len(X)]
        BY <3>1, ConcatProperties
      <3> QED BY <3>1, <3>2
    <2> HIDE DEF out
    <2>3. DOMAIN out = 1 .. n + m
      BY <2>1
    <2>4. ASSUME NEW i \in 1 .. n PROVE out[i] = StopFor(A[i], updates)
      <3>1. i \in 1 .. n + m /\ i <= n
        BY <1>2, <1>3
      <3> QED BY <1>8, <2>2, <3>1
    <2>5. ASSUME NEW k \in 1 .. m PROVE out[n + k] = LiveStop(B[k])
      <3>1. n + k \in 1 .. n + m /\ ~(n + k <= n) /\ (n + k) - n = k
        BY <1>2, <1>3
      <3>2. out[n + k] = Y[(n + k) - n]
        BY <2>2, <3>1
      <3> QED BY <1>9, <3>1, <3>2
    <2> QED BY <2>3, <2>4, <2>5
  <1>11. \A i \in 1 .. n + m : i \in 1 .. n \/ \E k \in 1 .. m : i = n + k
    <2> SUFFICES ASSUME NEW i \in 1 .. n + m, i \notin 1 .. n PROVE i - n \in 1 .. m /\ i = n + (i - n)
      OBVIOUS
    <2> QED BY <1>2, <1>3
  <1>12. \A i \in 1 .. n : i \in 1 .. n + m
    BY <1>2, <1>3
  <1>13. \A k \in 1 .. m : n + k \in 1 .. n + m
    BY <1>2, <1>3
  <1> HIDE DEF out
  <1> DEFINE num(i) == NumberOf(out[i], updates)
  <1>14. ASSUME NEW i \in 1 .. n PROVE num(i) = A[i]
    <2>1. out[i] = StopFor(A[i], updates) /\ A[i] \in Nat
      BY <1>4, <1>10
    <2>2. NumberOf(StopFor(A[i], updates), updates) = A[i]
      BY <2>1, StopForFacts
    <2> QED BY <2>1, <2>2
  <1>15. \A k \in 1 .. m : num(n + k) \notin stops
    <2> SUFFICES ASSUME NEW k \in 1 .. m PROVE NumberOf(LiveStop(B[k]), updates) \notin stops
      BY <1>10
    <2> QED BY <1>5, <1>6 DEF NumberOf, LiveStop
  <1>16. \A i \in 1 .. n + m : num(i) \in stops => i \in 1 .. n
    BY <1>11, <1>15
  <1>17. \A x \in stops : \E i \in 1 .. n + m : num(i) = x
    BY <1>4, <1>12, <1>14
  <1>18. ASSUME NEW i \in 1 .. n + m, NEW k \in 1 .. n + m, num(i) \in stops, num(k) \in stops, i < k
         PROVE  num(i) < num(k)
    BY <1>4, <1>14, <1>16, <1>18
  <1> HIDE DEF num
  <1>19. ASSUME NEW j \in DOMAIN updates
         PROVE  \E i \in 1 .. n + m :
                  \/ out[i] = LiveStop(j)
                  \/ out[i].live /\ updates[out[i].of] = updates[j] /\ out[i].of > j
    <2>1. CASE updates[j] \in stops
      <3>1. PICK i \in 1 .. n : A[i] = updates[j]
        BY <1>4, <2>1
      <3>2. out[i] = StopFor(updates[j], updates)
        BY <1>10, <3>1
      <3>3. \/ out[i] = LiveStop(j)
            \/ out[i].live /\ updates[out[i].of] = updates[j] /\ out[i].of > j
        <4> DEFINE no == updates[j]
        <4>1. no \in Nat /\ updates[j] = no /\ out[i] = StopFor(no, updates)
          BY <2>1, <3>2
        <4> HIDE DEF no
        <4> QED BY <4>1, StopForLive
      <3> QED BY <1>12, <3>3
    <2>2. CASE j \in extra
      <3>1. PICK k \in 1 .. m : B[k] = j
        BY <1>5, <2>2
      <3> QED BY <1>10, <1>13, <3>1
    <2> QED BY <1>7, <2>1, <2>2
  <1> QED BY <1>1, <1>10, <1>17, <1>18, <1>19 DEF StopsJoined, num

TripInv ==
    /\ feed \in Seq(Item) /\ planned \subseteq StopSequence /\ live \in Seq(Nat)
    /\ answer.given => /\ BestOf(feed, asked, Len(feed), answer.found)
                       /\ StopsJoined(planned, live, answer.stops)

LEMMA TripInductive == TripSpec => []TripInv
  <1>1. TripInit => TripInv
    <2> SUFFICES ASSUME TripInit PROVE TripInv
      OBVIOUS
    <2>1. live \in Seq(Nat)
      <3>1. StopSequence \cup {0} \subseteq Nat
        BY TripAssumption
      <3>2. PICK k \in 0 .. MaxStops : live \in [1 .. k -> StopSequence \cup {0}]
        BY DEF TripInit, BoundedSeq, SeqOf
      <3>3. k \in Nat
        BY TripAssumption
      <3>4. live \in [1 .. k -> Nat]
        BY <3>1, <3>2
      <3> QED BY <3>3, <3>4
    <2> QED BY <2>1, TripAssumption DEF TripInit, TripInv, NotAsked
  <1>2. TripInv /\ [TripNext]_tripVars => TripInv'
    <2> SUFFICES ASSUME TripInv, [TripNext]_tripVars PROVE TripInv'
      OBVIOUS
    <2>1. CASE UNCHANGED tripVars
      BY <2>1 DEF TripInv, tripVars
    <2>2. CASE TripNext
      <3>1. PICK readable \in BOOLEAN :
              answer' = [found |-> FindRealtimeMatch(feed, asked), given |-> TRUE,
                         stops |-> IF live = <<>> THEN <<>>
                                   ELSE EnrichStopTimeUpdates(IF readable THEN planned ELSE {}, live)]
        BY <2>2 DEF TripNext, TrackTrip
      <3>2. asked' = asked /\ feed' = feed /\ planned' = planned /\ live' = live
        BY <2>2 DEF TripNext, TrackTrip
      <3>3. BestOf(feed, asked, Len(feed), answer'.found)
        BY <3>1, MatchIsBest DEF TripInv
      <3>4. StopsJoined(planned, live, answer'.stops)
        <4>1. CASE live = <<>>
          <5>1. answer'.stops = [j \in DOMAIN live |-> LiveStop(j)]
            BY <3>1, <4>1
          <5> QED BY <5>1, UnchangedJoins
        <4>2. CASE live # <<>> /\ (~readable \/ planned = {})
          <5>1. EnrichStopTimeUpdates({}, live) = [j \in DOMAIN live |-> LiveStop(j)]
            BY DEF EnrichStopTimeUpdates
          <5>2. answer'.stops = EnrichStopTimeUpdates({}, live)
            BY <3>1, <4>2
          <5> QED BY <5>1, <5>2, UnchangedJoins
        <4>3. CASE live # <<>> /\ readable /\ planned # {}
          <5>1. answer'.stops = EnrichStopTimeUpdates(planned, live)
            BY <3>1, <4>3
          <5>2. planned \in SUBSET (Nat \ {0}) /\ IsFiniteSet(planned)
            BY TripAssumption, FS_Subset DEF TripInv
          <5> QED BY <4>3, <5>1, <5>2, EnrichJoins DEF TripInv
        <4> QED BY <4>1, <4>2, <4>3
      <3> QED BY <3>2, <3>3, <3>4 DEF TripInv
    <2> QED BY <2>1, <2>2
  <1> QED BY <1>1, <1>2, PTL DEF TripSpec

\* The answer for a trip is the first item of the feed that no other beats, by a rule
\* that applies to it; its stops are every planned stop, once and in order, and no live
\* stop is lost but for a later one of its number (findRealtimeMatch,
\* enrichStopTimeUpdates).
THEOREM TripIsAlwaysJoined == TripSpec => []TripIsJoined
  <1>1. TripInv => TripIsJoined
    <2> SUFFICES ASSUME TripInv, answer.given PROVE TripIsJoined
      BY DEF TripIsJoined
    <2> DEFINE applies == {i \in DOMAIN feed : Tier(feed[i], asked) < 5}
               found == answer.found
    <2>1. BestOf(feed, asked, Len(feed), found) /\ StopsJoined(planned, live, answer.stops)
      BY DEF TripInv
    <2>2. Len(feed) \in Nat /\ DOMAIN feed = 1 .. Len(feed)
      BY DEF TripInv
    <2>3. \A i \in 1 .. Len(feed) : TierAt(feed, i, asked) = Tier(feed[i], asked) /\ TierAt(feed, i, asked) \in 1 .. 5
      <3>1. \A i \in 1 .. Len(feed) : i \in Nat \ {0}
        BY <2>2
      <3> QED BY <3>1, Tiers
    <2>4. TierAt(feed, 0, asked) = 5
      BY Tiers
    <2>5. IF applies = {} THEN found = 0
          ELSE /\ found \in applies
               /\ \A i \in applies :
                    \/ Tier(feed[found], asked) < Tier(feed[i], asked)
                    \/ Tier(feed[found], asked) = Tier(feed[i], asked) /\ found <= i
      <3> HIDE DEF found
      <3>1. found = 0 \/ found \in applies
        BY <2>1, <2>2, <2>3 DEF BestOf
      <3>2. found \in Nat
        BY <2>1, <2>2 DEF BestOf
      <3>3. ASSUME NEW i \in applies
            PROVE  /\ TierAt(feed, found, asked) <= TierAt(feed, i, asked)
                   /\ i < found => TierAt(feed, found, asked) < TierAt(feed, i, asked)
                   /\ i \in 1 .. Len(feed) /\ TierAt(feed, i, asked) < 5
        BY <2>1, <2>2, <2>3 DEF BestOf
      <3>4. applies # {} => found # 0
        BY <2>3, <2>4, <3>3
      <3>5. ASSUME NEW i \in applies, found \in applies
            PROVE  \/ Tier(feed[found], asked) < Tier(feed[i], asked)
                   \/ Tier(feed[found], asked) = Tier(feed[i], asked) /\ found <= i
        <4>1. /\ TierAt(feed, found, asked) = Tier(feed[found], asked) /\ TierAt(feed, found, asked) \in 1 .. 5
              /\ TierAt(feed, i, asked) = Tier(feed[i], asked) /\ TierAt(feed, i, asked) \in 1 .. 5
          BY <2>2, <2>3, <3>5
        <4>2. i \in Nat
          BY <2>2
        <4> QED BY <3>2, <3>3, <4>1, <4>2
      <3> QED BY <3>1, <3>4, <3>5
    <2> HIDE DEF applies, found
    <2> DEFINE shown == [i \in DOMAIN answer.stops |-> NumberOf(answer.stops[i], live)]
               inPlan == {i \in DOMAIN shown : shown[i] \in planned}
    <2>6. \/ /\ planned \subseteq Range(shown)
             /\ \A i, k \in inPlan : i < k => shown[i] < shown[k]
          \/ answer.stops = [j \in DOMAIN live |-> LiveStop(j)]
      <3>1. ASSUME \A n \in planned : \E i \in DOMAIN answer.stops : NumberOf(answer.stops[i], live) = n
            PROVE  planned \subseteq Range(shown)
        <4> SUFFICES ASSUME NEW n \in planned PROVE \E i \in DOMAIN shown : shown[i] = n
          BY DEF Range
        <4> QED BY <3>1
      <3> QED BY <2>1, <3>1 DEF StopsJoined
    <2>7. \A j \in DOMAIN live :
            \E i \in DOMAIN answer.stops :
              \/ answer.stops[i] = LiveStop(j)
              \/ answer.stops[i].live /\ live[answer.stops[i].of] = live[j] /\ answer.stops[i].of > j
      BY <2>1 DEF StopsJoined
    <2>8. shown = [i \in DOMAIN answer.stops |->
                     IF answer.stops[i].live THEN live[answer.stops[i].of] ELSE answer.stops[i].of]
      BY DEF NumberOf
    <2> HIDE DEF shown
    <2> QED BY <2>5, <2>6, <2>7, <2>8, Zenon DEF TripIsJoined, applies, found
  <1> QED BY <1>1, TripInductive, PTL
=============================================================================
