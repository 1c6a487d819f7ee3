--------------------------- MODULE HistoryProofs ---------------------------
(***************************************************************************)
(* Of the sampler, for any feeds and overlapping runs: what it notes as    *)
(* counted, it has counted; it counts no trip twice a day, but once more   *)
(* for each fault; and a rebuilt day is the sum of its snapshots.  Of the  *)
(* scan, for any lines, processes and overlapping scans: a process pushes  *)
(* once a cooldown, and a line has no more open alerts than processes, but *)
(* for those that each mishap adds.  Of the figures: a row that was added  *)
(* up is what a backfill makes of the snapshots, and what is reported of   *)
(* the rows stays within its scale and in its order.                       *)
(***************************************************************************)
EXTENDS HistorySampler, LineAlerts, LinePerformance, FiniteSetTheorems, WellFoundedInduction,
        TLAPS

-----------------------------------------------------------------------------
(* The sampler. *)

RunType == [pc : {"idle", "collect", "known", "persist", "noteC", "noteS"}, at : Slot,
            known : SUBSET Incident, new : SUBSET Incident]

SamplerShapes ==
    /\ now \in Slot
    /\ noted \in [Day -> SUBSET Incident]
    /\ run \in [Sampler -> RunType]
    /\ counted \in [Day -> [Incident -> Nat]]

\* What a run read was counted, and so is what is new once it is committed.
ReadIsCounted ==
    \A r \in Sampler :
      LET d == DayOf(run[r].at)
      IN  /\ \A i \in run[r].known : counted[d][i] > 0
          /\ run[r].pc \in {"noteC", "noteS"} => \A i \in run[r].new : counted[d][i] > 0

SamplerInv == SamplerShapes /\ ReadIsCounted /\ NotedIsCounted

LEMMA DayOfSlot == \A t \in Slot : DayOf(t) \in Day
  <1>1. Days \in Nat \ {0}
    BY SamplerAssumption
  <1> QED BY <1>1 DEF Slot, DayOf, Day

LEMMA NotRunningType == NotRunning \in RunType /\ NotRunning.pc = "idle" /\ NotRunning.known = {}
  <1>1. 0 \in Slot
    BY SamplerAssumption DEF Slot
  <1> QED BY <1>1 DEF NotRunning, RunType

LEMMA SamplerInitInv == SamplerInit => SamplerInv
  <1> SUFFICES ASSUME SamplerInit PROVE SamplerInv
    OBVIOUS
  <1>1. SamplerShapes
    BY NotRunningType DEF SamplerInit, SamplerShapes
  <1>2. ReadIsCounted /\ NotedIsCounted
    BY NotRunningType DEF SamplerInit, ReadIsCounted, NotedIsCounted
  <1> QED BY <1>1, <1>2 DEF SamplerInv

\* Only one run changes, and nothing is counted or noted.
LEMMA RunKeeps ==
    ASSUME SamplerInv, NEW r \in Sampler, UNCHANGED <<noted, counted>>, now' \in Slot,
           run' \in [Sampler -> RunType], \A q \in Sampler : q # r => run'[q] = run[q],
           \A i \in run'[r].known : counted[DayOf(run'[r].at)][i] > 0,
           run'[r].pc \in {"noteC", "noteS"} => \A i \in run'[r].new : counted[DayOf(run'[r].at)][i] > 0
    PROVE  SamplerInv'
  BY DEF SamplerInv, SamplerShapes, ReadIsCounted, NotedIsCounted

\* A run that ends, or has not read anything yet.
LEMMA EndKeeps ==
    ASSUME SamplerInv, NEW r \in Sampler, UNCHANGED <<noted, counted, now>>, Done(r)
    PROVE  SamplerInv'
  <1>1. run' \in [Sampler -> RunType] /\ run'[r] = NotRunning
          /\ \A q \in Sampler : q # r => run'[q] = run[q]
    BY NotRunningType DEF SamplerInv, SamplerShapes, Done
  <1>2. now' \in Slot
    BY DEF SamplerInv, SamplerShapes
  <1> QED BY <1>1, <1>2, NotRunningType, RunKeeps

LEMMA TickKeeps ==
    ASSUME SamplerInv, NEW r \in Sampler, Tick(r)
    PROVE  SamplerInv'
  <1> DEFINE new == [NotRunning EXCEPT !.pc = "collect", !.at = now]
  <1>1. now \in Slot /\ UNCHANGED <<noted, counted, now>> /\ run' = [run EXCEPT ![r] = new]
    BY DEF SamplerInv, SamplerShapes, Tick, clock, ghosts
  <1>2. new \in RunType /\ new.pc = "collect" /\ new.known = {}
    <2>1. NotRunning \in RunType /\ NotRunning.known = {}
      BY NotRunningType
    <2> QED BY <1>1, <2>1 DEF RunType
  <1> HIDE DEF new
  <1>3. run' \in [Sampler -> RunType] /\ run'[r] = new
          /\ \A q \in Sampler : q # r => run'[q] = run[q]
    BY <1>1, <1>2 DEF SamplerInv, SamplerShapes
  <1> QED BY <1>1, <1>2, <1>3, RunKeeps

LEMMA ReadNotedKeeps ==
    ASSUME SamplerInv, NEW r \in Sampler, NEW feed \in (SUBSET Cancelled) \cup (SUBSET Skipped),
           ReadNoted(r, feed)
    PROVE  SamplerInv'
  <1> DEFINE d    == DayOf(run[r].at)
             seen == noted[d] \cap KeyOf(run[r].pc)
             pc   == IF run[r].pc = "collect" THEN "known" ELSE "persist"
             new  == [run[r] EXCEPT !.known = @ \cup seen, !.new = @ \cup (feed \ seen), !.pc = pc]
  <1>1. /\ UNCHANGED <<noted, counted, now>> /\ run' = [run EXCEPT ![r] = new]
    BY DEF ReadNoted, redis, clock, ghosts
  <1>2. run[r] \in RunType /\ d \in Day
    BY DayOfSlot DEF SamplerInv, SamplerShapes, RunType
  <1>3. seen \in SUBSET Incident /\ seen \subseteq noted[d] /\ feed \in SUBSET Incident
    BY <1>2 DEF SamplerInv, SamplerShapes, Incident
  <1>4. pc \in {"known", "persist"}
    OBVIOUS
  <1> HIDE DEF d, seen, pc
  <1>5. /\ new \in RunType /\ new.pc = pc /\ new.at = run[r].at
        /\ new.known = run[r].known \cup seen
    BY <1>2, <1>3, <1>4 DEF RunType
  <1> HIDE DEF new
  <1>6. run' \in [Sampler -> RunType] /\ run'[r] = new
          /\ \A q \in Sampler : q # r => run'[q] = run[q]
    BY <1>1, <1>5 DEF SamplerInv, SamplerShapes
  <1>7. \A i \in new.known : counted[DayOf(new.at)][i] > 0
    BY <1>2, <1>3, <1>5 DEF SamplerInv, ReadIsCounted, NotedIsCounted, d
  <1>8. now' \in Slot
    BY <1>1 DEF SamplerInv, SamplerShapes
  <1> QED BY <1>1, <1>4, <1>5, <1>6, <1>7, <1>8, RunKeeps

LEMMA PersistKeeps ==
    ASSUME SamplerInv, NEW r \in Sampler, Persist(r)
    PROVE  SamplerInv'
  <1> DEFINE d == DayOf(run[r].at)
  <1>1. /\ UNCHANGED <<noted, now>> /\ (Goto(r, "noteC") \/ Done(r))
        /\ counted' = [counted EXCEPT ![d] =
                         [i \in Incident |-> IF i \in run[r].new THEN @[i] + 1 ELSE @[i]]]
    BY DEF Persist, Commit, redis, clock
  <1>2. run[r] \in RunType /\ d \in Day /\ run[r].new \in SUBSET Incident
    BY DayOfSlot DEF SamplerInv, SamplerShapes, RunType
  <1> HIDE DEF d
  <1>3. /\ counted' \in [Day -> [Incident -> Nat]]
        /\ \A i \in Incident : counted'[d][i] = IF i \in run[r].new THEN counted[d][i] + 1 ELSE counted[d][i]
        /\ \A e \in Day : e # d => counted'[e] = counted[e]
    BY <1>1, <1>2 DEF SamplerInv, SamplerShapes
  <1>4. \A e \in Day, i \in Incident : counted[e][i] > 0 => counted'[e][i] > 0
    BY <1>3 DEF SamplerInv, SamplerShapes
  <1>5. \A i \in run[r].new : counted'[d][i] > 0
    BY <1>2, <1>3 DEF SamplerInv, SamplerShapes
  <1>6. /\ run' \in [Sampler -> RunType]
        /\ \A q \in Sampler : q # r => run'[q] = run[q]
        /\ \/ run'[r] = NotRunning
           \/ run'[r].pc = "noteC" /\ run'[r].at = run[r].at /\ run'[r].known = run[r].known
                /\ run'[r].new = run[r].new
    <2>1. CASE Goto(r, "noteC")
      <3>1. [run[r] EXCEPT !.pc = "noteC"] \in RunType
        BY <1>2 DEF RunType
      <3> QED BY <2>1, <3>1 DEF SamplerInv, SamplerShapes, Goto, RunType
    <2>2. CASE Done(r)
      BY <2>2, NotRunningType DEF SamplerInv, SamplerShapes, Done
    <2> QED BY <1>1, <2>1, <2>2
  <1>7. \A q \in Sampler : run[q] \in RunType /\ DayOf(run[q].at) \in Day
    BY DayOfSlot DEF SamplerInv, SamplerShapes, RunType
  <1>8. ReadIsCounted'
    <2> SUFFICES ASSUME NEW q \in Sampler
                 PROVE  /\ \A i \in run'[q].known : counted'[DayOf(run'[q].at)][i] > 0
                        /\ run'[q].pc \in {"noteC", "noteS"}
                             => \A i \in run'[q].new : counted'[DayOf(run'[q].at)][i] > 0
      BY DEF ReadIsCounted
    <2>1. /\ \A i \in run[q].known : i \in Incident /\ counted[DayOf(run[q].at)][i] > 0
          /\ run[q].pc \in {"noteC", "noteS"}
               => \A i \in run[q].new : i \in Incident /\ counted[DayOf(run[q].at)][i] > 0
      BY <1>7 DEF SamplerInv, ReadIsCounted, RunType
    <2>2. CASE q # r
      BY <1>4, <1>6, <1>7, <2>1, <2>2
    <2>3. CASE q = r
      BY <1>4, <1>5, <1>6, <1>7, <2>1, <2>3, NotRunningType DEF d
    <2> QED BY <2>2, <2>3
  <1>9. NotedIsCounted'
    BY <1>1, <1>4 DEF SamplerInv, SamplerShapes, NotedIsCounted
  <1> QED BY <1>1, <1>3, <1>6, <1>8, <1>9 DEF SamplerInv, SamplerShapes

LEMMA NoteKeeps ==
    ASSUME SamplerInv, NEW r \in Sampler, Note(r)
    PROVE  SamplerInv'
  <1> DEFINE Kind == IF run[r].pc = "noteC" THEN Cancelled ELSE Skipped
             d == DayOf(run[r].at)
             all == run[r].known \cup run[r].new
  <1>1. /\ UNCHANGED <<counted, now>> /\ (Goto(r, "noteS") \/ Done(r)) /\ run[r].pc \in {"noteC", "noteS"}
        /\ noted' = [noted EXCEPT ![d] =
              IF run[r].new \cap Kind = {} THEN @ ELSE (@ \ Kind) \cup (all \cap Kind)]
    BY DEF Note, clock, ghosts
  <1>2. run[r] \in RunType /\ d \in Day /\ all \in SUBSET Incident
    BY DayOfSlot DEF SamplerInv, SamplerShapes, RunType
  <1>3. \A i \in all : counted[d][i] > 0
    BY <1>1 DEF SamplerInv, ReadIsCounted
  <1> HIDE DEF Kind, d, all
  <1>4. /\ noted' \in [Day -> SUBSET Incident]
        /\ noted'[d] \subseteq noted[d] \cup all
        /\ \A e \in Day : e # d => noted'[e] = noted[e]
    BY <1>1, <1>2 DEF SamplerInv, SamplerShapes
  <1>5. /\ run' \in [Sampler -> RunType]
        /\ \A q \in Sampler : q # r => run'[q] = run[q]
        /\ \/ run'[r] = NotRunning
           \/ run'[r].at = run[r].at /\ run'[r].known = run[r].known /\ run'[r].new = run[r].new
    <2>1. CASE Goto(r, "noteS")
      <3>1. [run[r] EXCEPT !.pc = "noteS"] \in RunType
        BY <1>2 DEF RunType
      <3> QED BY <2>1, <3>1 DEF SamplerInv, SamplerShapes, Goto, RunType
    <2>2. CASE Done(r)
      BY <2>2, NotRunningType DEF SamplerInv, SamplerShapes, Done
    <2> QED BY <1>1, <2>1, <2>2
  <1>6. NotedIsCounted'
    BY <1>1, <1>2, <1>3, <1>4 DEF SamplerInv, NotedIsCounted
  <1>7. ReadIsCounted'
    BY <1>1, <1>5, NotRunningType DEF SamplerInv, ReadIsCounted
  <1> QED BY <1>1, <1>4, <1>5, <1>6, <1>7 DEF SamplerInv, SamplerShapes

\* Keys expire or are flushed, time passes, and the tables are rebuilt or purged.
LEMMA OutsideKeeps ==
    ASSUME SamplerInv, UNCHANGED <<run, counted>>, now' \in Slot,
           noted' = noted \/ noted' \in [Day -> SUBSET Incident],
           \A d \in Day : noted'[d] \subseteq noted[d]
    PROVE  SamplerInv'
  BY DEF SamplerInv, SamplerShapes, ReadIsCounted, NotedIsCounted

LEMMA SamplerInductive == SamplerSpec => []SamplerInv
  <1>1. SamplerInv /\ [SamplerNext]_samplerVars => SamplerInv'
    <2> SUFFICES ASSUME SamplerInv, [SamplerNext]_samplerVars PROVE SamplerInv'
      OBVIOUS
    <2>1. CASE UNCHANGED samplerVars
      BY <2>1 DEF samplerVars, SamplerInv, SamplerShapes, ReadIsCounted, NotedIsCounted
    <2>2. CASE \E r \in Sampler : SampleStep(r)
      <3>1. PICK r \in Sampler : SampleStep(r)
        BY <2>2
      <3>2. CASE Tick(r)
        BY <3>2, TickKeeps
      <3>3. CASE \E feed \in (SUBSET Cancelled) \cup (SUBSET Skipped) : ReadNoted(r, feed)
        BY <3>3, ReadNotedKeeps
      <3>4. CASE Persist(r)
        BY <3>4, PersistKeeps
      <3>5. CASE Note(r)
        BY <3>5, NoteKeeps
      <3>6. CASE SkipSample(r) \/ SampleFails(r) \/ SamplerCrash(r)
        <4>1. Done(r) /\ UNCHANGED <<noted, counted, now>>
          BY <3>6 DEF SkipSample, SampleFails, SamplerCrash, redis, clock, ghosts
        <4> QED BY <4>1, EndKeeps
      <3> QED BY <3>1, <3>2, <3>3, <3>4, <3>5, <3>6 DEF SampleStep
    <2>3. CASE LockExpires \/ BackfillFails \/ PurgeAll \/ Pass
      <3>1. UNCHANGED <<run, counted, noted>> /\ now' \in Slot
        BY <2>3 DEF LockExpires, BackfillFails, PurgeAll, Pass, redis, clock, ghosts, SamplerInv, SamplerShapes
      <3> QED BY <3>1, OutsideKeeps
    <2>4. CASE \/ \E window \in BOOLEAN, from, to \in Day : BackfillRead(window, from, to)
               \/ \E d \in Day : BackfillUpsert(d)
               \/ \E from, to \in Day : Purge(from, to)
      <3>1. UNCHANGED <<run, counted, noted>> /\ now' \in Slot
        BY <2>4 DEF BackfillRead, BackfillUpsert, Purge, redis, clock, ghosts, SamplerInv, SamplerShapes
      <3> QED BY <3>1, OutsideKeeps
    <2>5. CASE FlushCache \/ \E d \in Day : NotesExpire(d)
      <3>1. UNCHANGED <<run, counted>> /\ now' \in Slot
        BY <2>5 DEF FlushCache, NotesExpire, clock, ghosts, SamplerInv, SamplerShapes
      <3>2. noted' \in [Day -> SUBSET Incident] /\ \A d \in Day : noted'[d] \subseteq noted[d]
        BY <2>5 DEF FlushCache, NotesExpire, SamplerInv, SamplerShapes
      <3> QED BY <3>1, <3>2, OutsideKeeps
    <2> QED BY <2>1, <2>2, <2>3, <2>4, <2>5 DEF SamplerNext
  <1> QED BY <1>1, SamplerInitInv, PTL DEF SamplerSpec

\* A trip noted for a day was counted that day: nothing makes the sampler skip a
\* cancellation it never stored (sample: the notes follow the transaction).
THEOREM NotedWasCounted == SamplerSpec => []NotedIsCounted
  <1>1. SamplerInv => NotedIsCounted
    BY DEF SamplerInv
  <1> QED BY <1>1, SamplerInductive, PTL

-----------------------------------------------------------------------------
(* A trip is counted at most once a day, and once more for each fault. *)

\* What a run may still do to the count of trip i on day d: it has not read
\* whether i is noted; it will count i; it has counted i and will note it; it
\* read that i is not noted, and by writing the set back erases a note of i.
Part(k, d, i) ==
    IF k.pc = "idle" \/ DayOf(k.at) # d \/ i \in k.known THEN "none"
    ELSE IF i \in k.new
         THEN IF k.pc \in {"known", "persist"} THEN "counts"
              ELSE IF k.pc = "noteC" \/ i \in Skipped THEN "notes" ELSE "none"
    ELSE IF k.pc = "collect" \/ (k.pc = "known" /\ i \in Skipped) THEN "unread"
    ELSE IF k.pc \in {"known", "persist", "noteC"} \/ i \in Skipped THEN "erases" ELSE "none"

Parts == {"none", "unread", "counts", "notes", "erases"}
Busy  == {"unread", "counts", "erases"}

Who(S, d, i) == {r \in Running : Part(run[r], d, i) \in S}

\* How often i may still be counted without another fault: once by each run that
\* is busy with it; by none of the runs yet to read, if i is noted and stays so,
\* but for the first that could follow a run that erases the note; and once by
\* a run to come, while the day lasts.
Weight(in, U, A, B, may) ==
    IF in /\ A = U /\ B = {} THEN IF U = {} THEN 0 ELSE Cardinality(U) - 1
    ELSE IF ~in /\ A = {} /\ B = {} /\ may THEN 1 ELSE Cardinality(A)

Put(X, r, yes) == IF yes THEN X \cup {r} ELSE X \ {r}

\* What the weight becomes when the part of r goes from s to t and the note from in to
\* in2.
Moved(in, in2, U, A, B, r, s, t, may) ==
    LET W  == Weight(in, U, A, B, may)
        W2 == Weight(in2, Put(U, r, t = "unread"), Put(A, r, t \in Busy), Put(B, r, t = "notes"), may)
    IN  /\ W \in Nat /\ W2 \in Nat
        /\ t = s /\ (in2 = in \/ in2) => W2 <= W
        /\ t = "none" /\ in2 = in => W2 <= W + 1
        /\ s \in {"counts", "erases"} /\ t = "none" /\ (in2 = in \/ ~in2) => W2 <= W
        /\ s = "none" /\ t = "unread" /\ in2 = in =>
             W2 <= W + 1 /\ (A = {} /\ B = {} /\ (in \/ may) => W2 <= W)
        /\ s = "unread" /\ t = "none" /\ in /\ in2 => W2 <= W
        /\ s = "unread" /\ t \in {"counts", "erases"} /\ ~in /\ ~in2 => W2 <= W
        /\ s = "counts" /\ t = "notes" /\ in2 = in => W2 + 1 <= W
        /\ s = "notes" /\ t = "none" /\ in2 => W2 <= W

LEMMA Moves ==
    ASSUME NEW U, NEW A, NEW B, NEW r, NEW s \in Parts, NEW t \in Parts,
           NEW in \in BOOLEAN, NEW in2 \in BOOLEAN, NEW may \in BOOLEAN,
           IsFiniteSet(A), U \subseteq A,
           r \in U <=> s = "unread", r \in A <=> s \in Busy, r \in B <=> s = "notes"
    PROVE  Moved(in, in2, U, A, B, r, s, t, may)
  <1> DEFINE U2 == Put(U, r, t = "unread")
             A2 == Put(A, r, t \in Busy)
             B2 == Put(B, r, t = "notes")
             a == Cardinality(A)  u == Cardinality(U)
             a2 == Cardinality(A2)  u2 == Cardinality(U2)
  <1>1. IsFiniteSet(U) /\ a \in Nat /\ u \in Nat /\ u <= a
    BY FS_Subset, FS_CardinalityType
  <1>2. (A = {} <=> a = 0) /\ (U = {} <=> u = 0) /\ (A = U <=> a = u)
    BY <1>1, FS_EmptySet, FS_Subset
  <1>3. /\ a2 = IF t \in Busy THEN IF s \in Busy THEN a ELSE a + 1
                ELSE IF s \in Busy THEN a - 1 ELSE a
        /\ IsFiniteSet(A2)
    BY FS_AddElement, FS_RemoveElement, <1>1, ZenonT(60) DEF Put
  <1>4. /\ u2 = IF t = "unread" THEN IF s = "unread" THEN u ELSE u + 1
                ELSE IF s = "unread" THEN u - 1 ELSE u
        /\ IsFiniteSet(U2)
    BY FS_AddElement, FS_RemoveElement, <1>1 DEF Put
  <1>5. U2 \subseteq A2
    BY DEF Put, Busy
  <1>6. a2 \in Nat /\ u2 \in Nat /\ u2 <= a2
    BY <1>3, <1>4, <1>5, FS_Subset, FS_CardinalityType
  <1>7. (A2 = {} <=> a2 = 0) /\ (U2 = {} <=> u2 = 0) /\ (A2 = U2 <=> a2 = u2)
    BY <1>3, <1>4, <1>5, <1>6, FS_EmptySet, FS_Subset
  <1>8. /\ (t = s => B2 = B) /\ (t = "notes" => B2 # {})
        /\ (B = {} /\ t # "notes" => B2 = {}) /\ (s # "notes" /\ t # "notes" => B2 = B)
    BY DEF Put
  <1>9. s = "notes" => B # {}
    OBVIOUS
  <1> HIDE DEF U2, A2, B2, a, u, a2, u2
  <1>10. Weight(in, U, A, B, may) =
           IF in /\ A = U /\ B = {} THEN IF U = {} THEN 0 ELSE u - 1
           ELSE IF ~in /\ A = {} /\ B = {} /\ may THEN 1 ELSE a
    BY DEF Weight, a, u
  <1>11. Weight(in2, U2, A2, B2, may) =
           IF in2 /\ A2 = U2 /\ B2 = {} THEN IF U2 = {} THEN 0 ELSE u2 - 1
           ELSE IF ~in2 /\ A2 = {} /\ B2 = {} /\ may THEN 1 ELSE a2
    BY DEF Weight, a2, u2
  <1> DEFINE W == Weight(in, U, A, B, may)
             W2 == Weight(in2, U2, A2, B2, may)
  <1> HIDE DEF W, W2
  <1>12. W = IF in /\ a = u /\ B = {} THEN IF u = 0 THEN 0 ELSE u - 1
             ELSE IF ~in /\ a = 0 /\ B = {} /\ may THEN 1 ELSE a
    BY <1>2, <1>10 DEF W
  <1>13. W2 = IF in2 /\ a2 = u2 /\ B2 = {} THEN IF u2 = 0 THEN 0 ELSE u2 - 1
             ELSE IF ~in2 /\ a2 = 0 /\ B2 = {} /\ may THEN 1 ELSE a2
    BY <1>7, <1>11 DEF W2
  <1>14. W \in Nat /\ W2 \in Nat
    BY <1>1, <1>6, <1>12, <1>13
  <1>a. t = s /\ (in2 = in \/ in2) => W2 <= W
    BY <1>1, <1>3, <1>4, <1>6, <1>8, <1>12, <1>13
  <1>b. t = "none" /\ in2 = in => W2 <= W + 1
    BY <1>1, <1>3, <1>4, <1>6, <1>8, <1>9, <1>12, <1>13 DEF Busy, Parts
  <1>c. s \in {"counts", "erases"} /\ t = "none" /\ (in2 = in \/ ~in2) => W2 <= W
    BY <1>1, <1>3, <1>4, <1>6, <1>8, <1>9, <1>12, <1>13 DEF Busy, Parts
  <1>d. s = "none" /\ t = "unread" /\ in2 = in =>
                    W2 <= W + 1 /\ (A = {} /\ B = {} /\ (in \/ may) => W2 <= W)
    BY <1>1, <1>2, <1>3, <1>4, <1>6, <1>8, <1>9, <1>12, <1>13 DEF Busy, Parts
  <1>e. s = "unread" /\ t = "none" /\ in /\ in2 => W2 <= W
    BY <1>1, <1>3, <1>4, <1>6, <1>8, <1>9, <1>12, <1>13 DEF Busy, Parts
  <1>f. s = "unread" /\ t \in {"counts", "erases"} /\ ~in /\ ~in2 => W2 <= W
    BY <1>1, <1>3, <1>4, <1>6, <1>8, <1>9, <1>12, <1>13 DEF Busy, Parts
  <1>g. s = "counts" /\ t = "notes" /\ in2 = in => W2 + 1 <= W
    BY <1>1, <1>3, <1>4, <1>6, <1>8, <1>9, <1>12, <1>13 DEF Busy, Parts
  <1>h. s = "notes" /\ t = "none" /\ in2 => W2 <= W
    BY <1>1, <1>3, <1>4, <1>6, <1>8, <1>9, <1>12, <1>13 DEF Busy, Parts
  <1> QED BY <1>14, <1>a, <1>b, <1>c, <1>d, <1>e, <1>f, <1>g, <1>h DEF W, W2, U2, A2, B2, Moved

ReadsInOrder ==
    \A r \in Sampler :
      /\ run[r].pc = "collect" => run[r].known = {} /\ run[r].new = {}
      /\ run[r].pc = "known" => run[r].known \cup run[r].new \subseteq Cancelled
      /\ run[r].known \cap run[r].new = {}

Due(d, i) == Weight(i \in noted[d], Who({"unread"}, d, i), Who(Busy, d, i), Who({"notes"}, d, i),
                    DayOf(now) <= d)

Budget == \A d \in Day, i \in Incident : counted[d][i] + Due(d, i) <= 1 + faults

CountInv == faults \in Nat /\ IsFiniteSet(Running) /\ ReadsInOrder /\ Budget

LEMMA PartIn == \A k, d, i : Part(k, d, i) \in Parts
  BY DEF Part, Parts

LEMMA Gathered ==
    ASSUME IsFiniteSet(Running), NEW d, NEW i
    PROVE  /\ IsFiniteSet(Who(Busy, d, i)) /\ Who({"unread"}, d, i) \subseteq Who(Busy, d, i)
           /\ \A r \in Sampler : /\ r \in Who({"unread"}, d, i) <=> Part(run[r], d, i) = "unread"
                                 /\ r \in Who(Busy, d, i) <=> Part(run[r], d, i) \in Busy
                                 /\ r \in Who({"notes"}, d, i) <=> Part(run[r], d, i) = "notes"
  <1>1. Who(Busy, d, i) \subseteq Running
    BY DEF Who
  <1>2. IsFiniteSet(Who(Busy, d, i))
    BY <1>1, FS_Subset
  <1>3. Who({"unread"}, d, i) \subseteq Who(Busy, d, i)
    BY DEF Who, Busy
  <1>4. \A r \in Sampler : run[r].pc = "idle" => Part(run[r], d, i) = "none"
    BY DEF Part
  <1> QED BY <1>2, <1>3, <1>4 DEF Who, Running, Busy

\* Only run r changes.
LEMMA Shifted ==
    ASSUME NEW r \in Sampler, \A q \in Sampler : q # r => run'[q] = run[q], NEW d, NEW i
    PROVE  /\ Who({"unread"}, d, i)' = Put(Who({"unread"}, d, i), r, Part(run'[r], d, i) = "unread")
           /\ Who(Busy, d, i)' = Put(Who(Busy, d, i), r, Part(run'[r], d, i) \in Busy)
           /\ Who({"notes"}, d, i)' = Put(Who({"notes"}, d, i), r, Part(run'[r], d, i) = "notes")
  <1>1. run'[r].pc = "idle" => Part(run'[r], d, i) = "none"
    BY DEF Part
  <1>2. \A S : "none" \notin S =>
          {q \in Running : Part(run[q], d, i) \in S}' =
             Put({q \in Running : Part(run[q], d, i) \in S}, r, Part(run'[r], d, i) \in S)
    <2> SUFFICES ASSUME NEW S, "none" \notin S
                 PROVE  {q \in Running' : Part(run'[q], d, i) \in S} =
                          Put({q \in Running : Part(run[q], d, i) \in S}, r, Part(run'[r], d, i) \in S)
      OBVIOUS
    <2>1. CASE Part(run'[r], d, i) \in S
      BY <1>1, <2>1 DEF Put, Running
    <2>2. CASE Part(run'[r], d, i) \notin S
      BY <1>1, <2>2 DEF Put, Running
    <2> QED BY <2>1, <2>2
  <1>3. "none" \notin {"unread"} /\ "none" \notin Busy /\ "none" \notin {"notes"}
    BY DEF Busy
  <1>4. /\ (Part(run'[r], d, i) \in {"unread"}) = (Part(run'[r], d, i) = "unread")
        /\ (Part(run'[r], d, i) \in {"notes"}) = (Part(run'[r], d, i) = "notes")
    OBVIOUS
  <1> QED BY <1>2, <1>3, <1>4 DEF Who

LEMMA StillFinite ==
    ASSUME IsFiniteSet(Running), NEW r \in Sampler, \A q \in Sampler : q # r => run'[q] = run[q]
    PROVE  IsFiniteSet(Running')
  <1>1. Running' \subseteq Running \cup {r}
    BY DEF Running
  <1>2. IsFiniteSet(Running \cup {r})
    BY FS_AddElement
  <1> QED BY <1>1, <1>2, FS_Subset

\* What a step of one run does to what is due.
LEMMA DueMoves ==
    ASSUME IsFiniteSet(Running), NEW r \in Sampler, \A q \in Sampler : q # r => run'[q] = run[q],
           now' = now, NEW d, NEW i,
           NEW s, NEW t, s = Part(run[r], d, i), t = Part(run'[r], d, i)
    PROVE  /\ Due(d, i) \in Nat /\ Due(d, i)' \in Nat
           /\ t = s /\ ((i \in noted'[d]) = (i \in noted[d]) \/ i \in noted'[d]) => Due(d, i)' <= Due(d, i)
           /\ t = "none" /\ (i \in noted'[d]) = (i \in noted[d]) => Due(d, i)' <= Due(d, i) + 1
           /\ s \in {"counts", "erases"} /\ t = "none"
                /\ ((i \in noted'[d]) = (i \in noted[d]) \/ i \notin noted'[d]) => Due(d, i)' <= Due(d, i)
           /\ s = "none" /\ t = "unread" /\ (i \in noted'[d]) = (i \in noted[d]) =>
                /\ Due(d, i)' <= Due(d, i) + 1
                /\ Running = {} /\ DayOf(now) <= d => Due(d, i)' <= Due(d, i)
           /\ s = "unread" /\ t = "none" /\ i \in noted[d] /\ i \in noted'[d] => Due(d, i)' <= Due(d, i)
           /\ s = "unread" /\ t \in {"counts", "erases"} /\ i \notin noted[d] /\ i \notin noted'[d] =>
                Due(d, i)' <= Due(d, i)
           /\ s = "counts" /\ t = "notes" /\ (i \in noted'[d]) = (i \in noted[d]) => Due(d, i)' + 1 <= Due(d, i)
           /\ s = "notes" /\ t = "none" /\ i \in noted'[d] => Due(d, i)' <= Due(d, i)
  <1> DEFINE U == Who({"unread"}, d, i)
             A == Who(Busy, d, i)
             B == Who({"notes"}, d, i)
             in == (i \in noted[d])
             in2 == (i \in noted'[d])
             may == (DayOf(now) <= d)
  <1>1. IsFiniteSet(A) /\ U \subseteq A
    BY Gathered
  <1>2. r \in U <=> s = "unread"
    BY Gathered
  <1>3. r \in A <=> s \in Busy
    BY Gathered
  <1>4. r \in B <=> s = "notes"
    BY Gathered
  <1>5. s \in Parts /\ t \in Parts
    BY PartIn
  <1>6. in \in BOOLEAN /\ in2 \in BOOLEAN /\ may \in BOOLEAN
    OBVIOUS
  <1>7. U' = Put(U, r, t = "unread") /\ A' = Put(A, r, t \in Busy) /\ B' = Put(B, r, t = "notes")
    BY Shifted
  <1>8. Due(d, i) = Weight(in, U, A, B, may)
    BY DEF Due
  <1>9. Due(d, i)' = Weight(in2, U', A', B', may)
    BY DEF Due
  <1>10. Due(d, i)' = Weight(in2, Put(U, r, t = "unread"), Put(A, r, t \in Busy), Put(B, r, t = "notes"), may)
    BY <1>7, <1>9
  <1>11. Running = {} => A = {} /\ B = {}
    BY DEF Who
  <1>12. (may <=> DayOf(now) <= d) /\ (in <=> i \in noted[d]) /\ (in2 <=> i \in noted'[d])
    OBVIOUS
  <1>13. in2 = in <=> (i \in noted'[d]) = (i \in noted[d])
    OBVIOUS
  <1> HIDE DEF U, A, B, in, in2, may
  <1>14. Moved(in, in2, U, A, B, r, s, t, may)
    BY <1>1, <1>2, <1>3, <1>4, <1>5, <1>6, Moves
  <1> DEFINE W  == Weight(in, U, A, B, may)
             W2 == Weight(in2, Put(U, r, t = "unread"), Put(A, r, t \in Busy), Put(B, r, t = "notes"), may)
  <1>15. Due(d, i) = W /\ Due(d, i)' = W2
    BY <1>8, <1>10
  <1>16. /\ W \in Nat /\ W2 \in Nat
         /\ t = s /\ (in2 = in \/ in2) => W2 <= W
         /\ t = "none" /\ in2 = in => W2 <= W + 1
         /\ s \in {"counts", "erases"} /\ t = "none" /\ (in2 = in \/ ~in2) => W2 <= W
         /\ s = "none" /\ t = "unread" /\ in2 = in =>
              W2 <= W + 1 /\ (A = {} /\ B = {} /\ (in \/ may) => W2 <= W)
         /\ s = "unread" /\ t = "none" /\ in /\ in2 => W2 <= W
         /\ s = "unread" /\ t \in {"counts", "erases"} /\ ~in /\ ~in2 => W2 <= W
         /\ s = "counts" /\ t = "notes" /\ in2 = in => W2 + 1 <= W
         /\ s = "notes" /\ t = "none" /\ in2 => W2 <= W
    BY <1>14 DEF Moved
  <1> HIDE DEF W, W2
  <1> QED BY <1>11, <1>12, <1>13, <1>15, <1>16

\* A step of one run.
LEMMA RunStepCounts ==
    ASSUME CountInv, NEW r \in Sampler, \A q \in Sampler : q # r => run'[q] = run[q],
           faults' \in Nat,
           run'[r].pc = "collect" => run'[r].known = {} /\ run'[r].new = {},
           run'[r].pc = "known" => run'[r].known \cup run'[r].new \subseteq Cancelled,
           run'[r].known \cap run'[r].new = {},
           \A d \in Day, i \in Incident : counted'[d][i] + Due(d, i)' <= 1 + faults'
    PROVE  CountInv'
  <1>1. IsFiniteSet(Running')
    BY StillFinite DEF CountInv
  <1>2. ReadsInOrder'
    BY DEF CountInv, ReadsInOrder
  <1> QED BY <1>1, <1>2 DEF CountInv, Budget

LEMMA TickCounts ==
    ASSUME CountInv, SamplerShapes, NEW r \in Sampler, Tick(r)
    PROVE  CountInv'
  <1> DEFINE new == [NotRunning EXCEPT !.pc = "collect", !.at = now]
  <1>1. /\ run[r].pc = "idle" /\ run' = [run EXCEPT ![r] = new]
        /\ IF Running = {} THEN UNCHANGED faults ELSE Fault
        /\ noted' = noted /\ counted' = counted /\ now' = now
    BY DEF Tick, clock, ghosts
  <1>2. new.pc = "collect" /\ new.at = now /\ new.known = {} /\ new.new = {}
    BY DEF NotRunning
  <1> HIDE DEF new
  <1>3. run'[r] = new /\ \A q \in Sampler : q # r => run'[q] = run[q]
    BY <1>1 DEF SamplerShapes
  <1>4. faults \in Nat /\ faults' \in Nat /\ (Running # {} => faults' = faults + 1) /\ faults <= faults'
    BY <1>1 DEF CountInv, Fault
  <1>5. ASSUME NEW d \in Day, NEW i \in Incident
        PROVE  counted'[d][i] + Due(d, i)' <= 1 + faults'
    <2>1. Part(run[r], d, i) = "none"
      BY <1>1 DEF Part
    <2>2. Part(run'[r], d, i) = IF DayOf(now) = d THEN "unread" ELSE "none"
      BY <1>2, <1>3 DEF Part
    <2>3. counted'[d][i] \in Nat /\ counted'[d][i] = counted[d][i] /\ noted'[d] = noted[d]
      BY <1>1 DEF SamplerShapes
    <2>4. counted[d][i] + Due(d, i) <= 1 + faults
      BY DEF CountInv, Budget
    <2>5. CASE DayOf(now) = d
      <3>1. DayOf(now) <= d
        BY <2>5 DEF Day
      <3>2. /\ Due(d, i) \in Nat /\ Due(d, i)' \in Nat /\ Due(d, i)' <= Due(d, i) + 1
            /\ Running = {} => Due(d, i)' <= Due(d, i)
        BY <1>1, <1>3, <2>1, <2>2, <2>3, <2>5, <3>1, DueMoves DEF CountInv
      <3> QED BY <1>4, <2>3, <2>4, <3>2
    <2>6. CASE DayOf(now) # d
      <3>1. Due(d, i) \in Nat /\ Due(d, i)' \in Nat /\ Due(d, i)' <= Due(d, i)
        BY <1>1, <1>3, <2>1, <2>2, <2>3, <2>6, DueMoves DEF CountInv
      <3> QED BY <1>4, <2>3, <2>4, <3>1
    <2> QED BY <2>5, <2>6
  <1> QED BY <1>2, <1>3, <1>4, <1>5, RunStepCounts

\* A run stops: a busy one that wrote nothing back, or by a fault.
LEMMA StopCounts ==
    ASSUME CountInv, SamplerShapes, NEW r \in Sampler, Done(r), UNCHANGED <<noted, counted, now>>,
           \/ run[r].pc = "persist" /\ UNCHANGED faults
           \/ Fault
    PROVE  CountInv'
  <1>1. /\ run'[r] = NotRunning /\ \A q \in Sampler : q # r => run'[q] = run[q]
        /\ noted' = noted /\ counted' = counted /\ now' = now
    BY DEF SamplerShapes, Done
  <1>2. NotRunning.pc = "idle" /\ NotRunning.known = {} /\ NotRunning.new = {}
    BY DEF NotRunning
  <1>3. faults \in Nat /\ faults' \in Nat /\ (run[r].pc # "persist" => faults' = faults + 1)
          /\ (faults' = faults \/ faults' = faults + 1)
    BY DEF CountInv, Fault
  <1>4. ASSUME NEW d \in Day, NEW i \in Incident
        PROVE  counted'[d][i] + Due(d, i)' <= 1 + faults'
    <2>1. Part(run'[r], d, i) = "none"
      BY <1>1, <1>2 DEF Part
    <2>2. run[r].pc = "persist" => Part(run[r], d, i) \in {"none", "counts", "erases"}
      BY DEF Part
    <2>3. counted'[d][i] \in Nat /\ counted'[d][i] = counted[d][i] /\ noted'[d] = noted[d]
      BY <1>1 DEF SamplerShapes
    <2>4. counted[d][i] + Due(d, i) <= 1 + faults
      BY DEF CountInv, Budget
    <2>5. /\ Due(d, i) \in Nat /\ Due(d, i)' \in Nat /\ Due(d, i)' <= Due(d, i) + 1
          /\ run[r].pc = "persist" => Due(d, i)' <= Due(d, i)
      BY <1>1, <2>1, <2>2, <2>3, DueMoves DEF CountInv
    <2> QED BY <1>3, <2>3, <2>4, <2>5
  <1> QED BY <1>1, <1>2, <1>3, <1>4, RunStepCounts

LEMMA ReadCounts ==
    ASSUME CountInv, SamplerShapes, NEW r \in Sampler,
           NEW feed \in (SUBSET Cancelled) \cup (SUBSET Skipped), ReadNoted(r, feed)
    PROVE  CountInv'
  <1> DEFINE k    == run[r]
             Kind == KeyOf(k.pc)
             seen == noted[DayOf(k.at)] \cap Kind
             new  == run'[r]
  <1>1. /\ noted' = noted /\ counted' = counted /\ now' = now /\ faults' = faults
        /\ k.pc \in {"collect", "known"} /\ feed \subseteq Kind
        /\ run' = [run EXCEPT ![r].known = @ \cup seen, ![r].new = @ \cup (feed \ seen),
                              ![r].pc = IF @ = "collect" THEN "known" ELSE "persist"]
    BY DEF ReadNoted, redis, clock, ghosts
  <1>2. k \in RunType
    BY DEF SamplerShapes
  <1>3. /\ \A q \in Sampler : q # r => run'[q] = run[q]
        /\ new.known = k.known \cup seen /\ new.new = k.new \cup (feed \ seen)
        /\ new.pc = (IF k.pc = "collect" THEN "known" ELSE "persist") /\ new.at = k.at
    BY <1>1, <1>2 DEF SamplerShapes, RunType
  <1>4. /\ k.pc = "collect" => k.known = {} /\ k.new = {}
        /\ k.pc = "known" => k.known \cup k.new \subseteq Cancelled
        /\ k.known \cap k.new = {} /\ faults \in Nat
    BY DEF CountInv, ReadsInOrder
  <1>5. /\ Cancelled \cap Skipped = {}
        /\ Kind = (IF k.pc = "known" THEN Skipped ELSE Cancelled) /\ seen \subseteq Kind
    BY SamplerAssumption DEF KeyOf
  <1>6. k.pc = "known" => (k.known \cup k.new) \cap Kind = {}
    BY <1>4, <1>5
  <1>7. /\ new.pc # "collect"
        /\ new.pc = "known" => new.known \cup new.new \subseteq Cancelled
        /\ new.known \cap new.new = {}
    <2> HIDE DEF new, seen, k, Kind
    <2>1. (k.known \cup k.new) \cap Kind = {}
      BY <1>1, <1>4, <1>6
    <2>2. new.pc # "collect" /\ (new.pc = "known" => Kind = Cancelled /\ k.known = {} /\ k.new = {})
      BY <1>1, <1>3, <1>4, <1>5
    <2> QED BY <1>1, <1>3, <1>4, <1>5, <2>1, <2>2
  <1>8. ASSUME NEW d \in Day, NEW i \in Incident
        PROVE  counted'[d][i] + Due(d, i)' <= 1 + faults'
    <2> DEFINE s == Part(k, d, i)
               t == Part(new, d, i)
    <2>1. \/ t = s
          \/ s = "unread" /\ t = "none" /\ i \in noted[d]
          \/ s = "unread" /\ t \in {"counts", "erases"} /\ i \notin noted[d]
      <3>1. CASE DayOf(k.at) # d
        BY <1>3, <3>1 DEF Part
      <3>2. CASE DayOf(k.at) = d /\ i \notin Kind
        <4>1. /\ i \in new.known <=> i \in k.known
              /\ i \in new.new <=> i \in k.new
          BY <1>1, <1>3, <1>5, <3>2
        <4>2. CASE k.pc = "collect"
          <5>1. i \notin k.known /\ i \notin k.new /\ i \in Skipped /\ new.pc = "known"
            BY <1>3, <1>4, <1>5, <3>2, <4>2 DEF Incident
          <5> QED BY <1>3, <3>2, <4>1, <4>2, <5>1 DEF Part
        <4>3. CASE k.pc = "known"
          <5>1. i \notin Skipped /\ new.pc = "persist"
            BY <1>3, <1>5, <3>2, <4>3
          <5> QED BY <1>3, <3>2, <4>1, <4>3, <5>1 DEF Part
        <4> QED BY <1>1, <4>2, <4>3
      <3>3. CASE DayOf(k.at) = d /\ i \in Kind
        <4>1. i \notin k.known /\ i \notin k.new
          BY <1>1, <1>4, <1>6, <3>3
        <4>2. s = "unread"
          BY <1>1, <1>5, <3>3, <4>1 DEF Part
        <4>3. i \in seen <=> i \in noted[d]
          BY <3>3
        <4>4. CASE i \in noted[d]
          BY <1>3, <4>2, <4>3, <4>4 DEF Part
        <4>5. CASE i \notin noted[d]
          <5>1. i \notin new.known /\ new.at = k.at
            BY <1>3, <4>1, <4>3, <4>5
          <5>2. new.pc = "known" => i \notin Skipped
            BY <1>1, <1>3, <1>5, <3>3
          <5>3. new.pc \in {"known", "persist"}
            BY <1>1, <1>3
          <5>4. t \in {"counts", "erases"}
            BY <3>3, <5>1, <5>2, <5>3 DEF Part
          <5> QED BY <4>2, <4>5, <5>4
        <4> QED BY <4>4, <4>5
      <3> QED BY <3>1, <3>2, <3>3
    <2>2. counted'[d][i] \in Nat /\ counted'[d][i] = counted[d][i] /\ noted'[d] = noted[d]
      BY <1>1 DEF SamplerShapes
    <2>3. counted[d][i] + Due(d, i) <= 1 + faults
      BY DEF CountInv, Budget
    <2> HIDE DEF s, t
    <2>4. Due(d, i) \in Nat /\ Due(d, i)' \in Nat /\ Due(d, i)' <= Due(d, i)
      BY <1>1, <1>3, <2>1, <2>2, DueMoves DEF CountInv, s, t
    <2> QED BY <1>1, <1>4, <2>2, <2>3, <2>4
  <1> QED BY <1>1, <1>3, <1>4, <1>7, <1>8, RunStepCounts

LEMMA PersistCounts ==
    ASSUME CountInv, SamplerShapes, SamplerShapes', NEW r \in Sampler, Persist(r)
    PROVE  CountInv'
  <1> DEFINE k == run[r]
             e == DayOf(k.at)
  <1>1. /\ noted' = noted /\ now' = now /\ k.pc = "persist"
        /\ counted' = [counted EXCEPT ![e] = [i \in Incident |-> IF i \in k.new THEN @[i] + 1 ELSE @[i]]]
        /\ \/ Goto(r, "noteC") /\ faults' = faults
           \/ Done(r) /\ Fault
    BY DEF Persist, Commit, redis, clock
  <1>2. k \in RunType /\ e \in Day
    BY DayOfSlot DEF SamplerShapes, RunType
  <1> HIDE DEF e
  <1>3. /\ \A i \in Incident : counted'[e][i] = IF i \in k.new THEN counted[e][i] + 1 ELSE counted[e][i]
        /\ \A d \in Day : d # e => counted'[d] = counted[d]
    BY <1>1, <1>2 DEF SamplerShapes
  <1>4. /\ \A q \in Sampler : q # r => run'[q] = run[q]
        /\ \/ /\ run'[r].pc = "noteC" /\ run'[r].at = k.at /\ run'[r].known = k.known
              /\ run'[r].new = k.new /\ faults' = faults
           \/ run'[r] = NotRunning /\ faults' = faults + 1
    <2>1. CASE Goto(r, "noteC") /\ faults' = faults
      <3>1. run' = [run EXCEPT ![r] = [k EXCEPT !.pc = "noteC"]]
        BY <2>1 DEF Goto
      <3>2. /\ [k EXCEPT !.pc = "noteC"].pc = "noteC" /\ [k EXCEPT !.pc = "noteC"].at = k.at
            /\ [k EXCEPT !.pc = "noteC"].known = k.known /\ [k EXCEPT !.pc = "noteC"].new = k.new
        BY <1>2 DEF RunType
      <3> QED BY <2>1, <3>1, <3>2 DEF SamplerShapes
    <2>2. CASE Done(r) /\ Fault
      BY <2>2 DEF Done, Fault, SamplerShapes
    <2> QED BY <1>1, <2>1, <2>2
  <1>5. NotRunning.pc = "idle" /\ NotRunning.known = {} /\ NotRunning.new = {}
    BY DEF NotRunning
  <1>6. k.known \cap k.new = {} /\ faults \in Nat /\ faults' \in Nat
    BY <1>4 DEF CountInv, ReadsInOrder
  <1>7. ASSUME NEW d \in Day, NEW i \in Incident
        PROVE  counted'[d][i] + Due(d, i)' <= 1 + faults'
    <2> DEFINE s == Part(k, d, i)
               t == Part(run'[r], d, i)
    <2>1. /\ s \in {"none", "counts", "erases"} /\ (s = "counts" <=> d = e /\ i \in k.new)
          /\ \/ t = "none" /\ faults' = faults + 1
             \/ t = (IF s = "counts" THEN "notes" ELSE s) /\ faults' = faults
      <3>1. s = IF e # d \/ i \in k.known THEN "none" ELSE IF i \in k.new THEN "counts" ELSE "erases"
        BY <1>1 DEF Part, e
      <3>2. CASE run'[r] = NotRunning
        <4>1. t = "none"
          BY <1>5, <3>2 DEF Part
        <4>2. faults' = faults + 1
          BY <1>4, <1>5, <3>2
        <4>3. s \in {"none", "counts", "erases"} /\ (s = "counts" <=> d = e /\ i \in k.new)
          BY <1>6, <3>1
        <4> HIDE DEF s, t
        <4> QED BY <4>1, <4>2, <4>3
      <3>3. CASE run'[r] # NotRunning
        <4>1. t = IF e # d \/ i \in k.known THEN "none" ELSE IF i \in k.new THEN "notes" ELSE "erases"
          BY <1>4, <3>3 DEF Part, e
        <4> QED BY <1>4, <1>6, <3>1, <3>3, <4>1
      <3> QED BY <3>2, <3>3
    <2>2. /\ counted'[d][i] = (IF s = "counts" THEN counted[d][i] + 1 ELSE counted[d][i])
          /\ counted[d][i] \in Nat /\ noted'[d] = noted[d]
      BY <1>1, <1>3, <2>1 DEF SamplerShapes
    <2>3. counted[d][i] + Due(d, i) <= 1 + faults
      BY DEF CountInv, Budget
    <2> HIDE DEF s, t
    <2>4. /\ Due(d, i) \in Nat /\ Due(d, i)' \in Nat
          /\ t = s => Due(d, i)' <= Due(d, i)
          /\ s \in {"counts", "erases"} /\ t = "none" => Due(d, i)' <= Due(d, i)
          /\ s = "counts" /\ t = "notes" => Due(d, i)' + 1 <= Due(d, i)
      BY <1>1, <1>4, <2>1, <2>2, DueMoves DEF CountInv, s, t
    <2> QED BY <1>6, <2>1, <2>2, <2>3, <2>4
  <1> QED BY <1>4, <1>5, <1>6, <1>7, RunStepCounts

LEMMA NoteCounts ==
    ASSUME CountInv, SamplerShapes, SamplerShapes', NEW r \in Sampler, Note(r)
    PROVE  CountInv'
  <1> DEFINE k    == run[r]
             Kind == IF k.pc = "noteC" THEN Cancelled ELSE Skipped
             e    == DayOf(k.at)
  <1>1. /\ counted' = counted /\ now' = now /\ faults' = faults /\ k.pc \in {"noteC", "noteS"}
        /\ noted' = [noted EXCEPT ![e] =
              IF k.new \cap Kind = {} THEN @ ELSE (@ \ Kind) \cup ((k.known \cup k.new) \cap Kind)]
        /\ IF k.pc = "noteC" THEN Goto(r, "noteS") ELSE Done(r)
    BY DEF Note, clock, ghosts
  <1>2. k \in RunType /\ e \in Day
    BY DayOfSlot DEF SamplerShapes, RunType
  <1>3. Cancelled \cap Skipped = {} /\ Incident = Cancelled \cup Skipped
    BY SamplerAssumption DEF Incident
  <1>4. k.known \cap k.new = {} /\ faults \in Nat
    BY DEF CountInv, ReadsInOrder
  <1>5. NotRunning.pc = "idle" /\ NotRunning.known = {} /\ NotRunning.new = {}
    BY DEF NotRunning
  <1>6. /\ \A q \in Sampler : q # r => run'[q] = run[q]
        /\ k.pc = "noteC" => /\ run'[r].pc = "noteS" /\ run'[r].at = k.at /\ run'[r].known = k.known
                             /\ run'[r].new = k.new
        /\ k.pc = "noteS" => run'[r] = NotRunning
    <2>1. CASE k.pc = "noteC"
      <3>1. run' = [run EXCEPT ![r] = [k EXCEPT !.pc = "noteS"]]
        BY <1>1, <2>1 DEF Goto
      <3>2. /\ [k EXCEPT !.pc = "noteS"].pc = "noteS" /\ [k EXCEPT !.pc = "noteS"].at = k.at
            /\ [k EXCEPT !.pc = "noteS"].known = k.known /\ [k EXCEPT !.pc = "noteS"].new = k.new
        BY <1>2 DEF RunType
      <3> QED BY <2>1, <3>1, <3>2 DEF SamplerShapes
    <2>2. CASE k.pc = "noteS"
      BY <1>1, <2>2 DEF Done, SamplerShapes
    <2> QED BY <1>1, <2>1, <2>2
  <1>7. /\ noted'[e] = IF k.new \cap Kind = {} THEN noted[e]
                       ELSE (noted[e] \ Kind) \cup ((k.known \cup k.new) \cap Kind)
        /\ \A d \in Day : d # e => noted'[d] = noted[d]
    <2> HIDE DEF e, Kind, k
    <2> QED BY <1>1, <1>2 DEF SamplerShapes
  <1>8. /\ run'[r].pc # "collect" /\ run'[r].pc # "known" /\ run'[r].known \cap run'[r].new = {}
    BY <1>1, <1>4, <1>5, <1>6
  <1>9. ASSUME NEW d \in Day, NEW i \in Incident
        PROVE  counted'[d][i] + Due(d, i)' <= 1 + faults'
    <2> DEFINE s == Part(k, d, i)
               t == Part(run'[r], d, i)
    <2>1. /\ s = IF e # d \/ i \in k.known THEN "none"
                 ELSE IF k.pc = "noteC" \/ i \in Skipped THEN IF i \in k.new THEN "notes" ELSE "erases"
                 ELSE "none"
          /\ t = IF k.pc = "noteS" \/ e # d \/ i \in k.known \/ i \notin Skipped THEN "none"
                 ELSE IF i \in k.new THEN "notes" ELSE "erases"
      <3>1. CASE k.pc = "noteC"
        BY <1>6, <3>1 DEF Part
      <3>2. CASE k.pc = "noteS"
        BY <1>5, <1>6, <3>2 DEF Part
      <3> QED BY <1>1, <3>1, <3>2
    <2>2. i \in Kind <=> IF k.pc = "noteC" THEN i \notin Skipped ELSE i \in Skipped
      BY <1>3
    <2>3. \/ i \in noted'[d] <=> i \in noted[d]
          \/ e = d /\ i \in Kind /\ k.new \cap Kind # {} /\ (i \in noted'[d] <=> i \in k.known \cup k.new)
      <3>1. CASE d # e \/ k.new \cap Kind = {}
        BY <1>7, <3>1
      <3>2. CASE d = e /\ k.new \cap Kind # {}
        BY <1>7, <3>2
      <3> QED BY <3>1, <3>2
    <2>4. e = d /\ i \in Kind /\ i \in k.new => i \in noted'[d]
      BY <1>7
    <2> HIDE DEF Kind
    <2>5. \/ t = s /\ ((i \in noted'[d] <=> i \in noted[d]) \/ i \in noted'[d])
          \/ s = "notes" /\ t = "none" /\ i \in noted'[d]
          \/ s = "erases" /\ t = "none" /\ ((i \in noted'[d] <=> i \in noted[d]) \/ i \notin noted'[d])
      <3> HIDE DEF s, t, k, e
      <3>1. CASE e # d
        BY <2>1, <2>3, <3>1
      <3>2. CASE e = d /\ i \in k.known
        BY <2>1, <2>3, <3>2
      <3>3. CASE e = d /\ i \notin k.known /\ i \in k.new
        BY <1>1, <2>1, <2>2, <2>3, <2>4, <3>3
      <3>4. CASE e = d /\ i \notin k.known /\ i \notin k.new
        BY <1>1, <2>1, <2>2, <2>3, <3>4
      <3> QED BY <3>1, <3>2, <3>3, <3>4
    <2>6. counted'[d][i] \in Nat /\ counted'[d][i] = counted[d][i]
      BY <1>1 DEF SamplerShapes
    <2>7. counted[d][i] + Due(d, i) <= 1 + faults
      BY DEF CountInv, Budget
    <2> HIDE DEF s, t
    <2>8. (i \in noted'[d]) = (i \in noted[d]) <=> (i \in noted'[d] <=> i \in noted[d])
      OBVIOUS
    <2>9. Due(d, i) \in Nat /\ Due(d, i)' \in Nat /\ Due(d, i)' <= Due(d, i)
      BY <1>1, <1>6, <2>5, <2>8, DueMoves DEF CountInv, s, t
    <2> QED BY <1>1, <1>4, <2>6, <2>7, <2>9
  <1> QED BY <1>1, <1>4, <1>6, <1>8, <1>9, RunStepCounts

\* The keys of a day expire once none of its runs is left.
LEMMA ExpiryCounts ==
    ASSUME CountInv, SamplerShapes, NEW e \in Day, NotesExpire(e)
    PROVE  CountInv'
  <1>1. /\ DayOf(now) > e /\ \A r \in Running : run[r].at > 3 * e + 2
        /\ noted' = [noted EXCEPT ![e] = {}]
        /\ run' = run /\ now' = now /\ counted' = counted /\ faults' = faults
    BY DEF NotesExpire, clock, ghosts
  <1>2. \A r \in Running : DayOf(run[r].at) # e
    <2>1. \A r \in Running : run[r].at \in Int
      BY DEF SamplerShapes, RunType, Running, Slot
    <2>2. e \in Int
      BY DEF Day
    <2> QED BY <1>1, <2>1, <2>2 DEF DayOf
  <1>3. ASSUME NEW d \in Day, NEW i \in Incident
        PROVE  counted'[d][i] + Due(d, i)' <= 1 + faults'
    <2>1. counted[d][i] + Due(d, i) <= 1 + faults
      BY DEF CountInv, Budget
    <2>2. CASE d # e
      <3>1. noted'[d] = noted[d]
        BY <1>1, <2>2 DEF SamplerShapes
      <3>2. Due(d, i)' = Due(d, i)
        BY <1>1, <3>1 DEF Due, Who, Running
      <3> QED BY <1>1, <2>1, <3>2
    <2>3. CASE d = e
      <3>1. \A S : "none" \notin S => Who(S, d, i) = {}
        BY <1>2, <2>3 DEF Who, Part
      <3>2. Who({"unread"}, d, i) = {} /\ Who(Busy, d, i) = {} /\ Who({"notes"}, d, i) = {}
        BY <3>1 DEF Busy
      <3>3. noted'[d] = {} /\ ~(DayOf(now) <= d)
        <4>1. e \in Int /\ DayOf(now) \in Int
          BY DayOfSlot DEF Day, SamplerShapes
        <4> QED BY <1>1, <2>3, <4>1 DEF SamplerShapes
      <3>4. Due(d, i)' = Weight(FALSE, {}, {}, {}, FALSE)
        <4>1. /\ Who({"unread"}, d, i)' = {} /\ Who(Busy, d, i)' = {} /\ Who({"notes"}, d, i)' = {}
          BY <1>1, <3>2 DEF Who, Running
        <4>2. (i \in noted'[d]) = FALSE /\ (DayOf(now') <= d) = FALSE
          BY <1>1, <3>3
        <4>3. Due(d, i)' = Weight(i \in noted'[d], Who({"unread"}, d, i)', Who(Busy, d, i)',
                                  Who({"notes"}, d, i)', DayOf(now') <= d)
          BY DEF Due, Who
        <4> QED BY <4>1, <4>2, <4>3
      <3>5. Weight(FALSE, {}, {}, {}, FALSE) = 0
        BY FS_EmptySet DEF Weight
      <3>6. Due(d, i) \in Nat
        <4>1. Due(d, i) = Weight(i \in noted[d], {}, {}, {}, DayOf(now) <= d)
          BY <3>2 DEF Due
        <4> QED BY <4>1, FS_EmptySet DEF Weight
      <3>7. counted'[d][i] = counted[d][i] /\ counted[d][i] \in Nat
        BY <1>1 DEF SamplerShapes
      <3>8. faults' = faults /\ faults \in Nat /\ Due(d, i)' = 0
        BY <1>1, <3>4, <3>5 DEF CountInv
      <3> QED BY <2>1, <3>6, <3>7, <3>8
    <2> QED BY <2>2, <2>3
  <1>4. ReadsInOrder' /\ Running' = Running
    BY <1>1 DEF CountInv, ReadsInOrder, Running
  <1> QED BY <1>1, <1>3, <1>4 DEF CountInv, Budget

\* The notes are flushed, or time passes.
LEMMA FlushedWeight ==
    ASSUME NEW U, NEW A, NEW B, NEW in \in BOOLEAN, NEW may \in BOOLEAN, NEW may2 \in BOOLEAN,
           IsFiniteSet(A), U \subseteq A
    PROVE  LET W == Weight(in, U, A, B, may)
           IN  /\ W \in Nat /\ Weight(FALSE, U, A, B, may) \in Nat /\ Weight(in, U, A, B, may2) \in Nat
               /\ Weight(FALSE, U, A, B, may) <= W + 1
               /\ (may2 => may) => Weight(in, U, A, B, may2) <= W
  <1>1. /\ IsFiniteSet(U) /\ Cardinality(A) \in Nat /\ Cardinality(U) \in Nat
        /\ Cardinality(U) <= Cardinality(A)
    BY FS_Subset, FS_CardinalityType
  <1>2. (A = {} <=> Cardinality(A) = 0) /\ (U = {} <=> Cardinality(U) = 0)
    BY <1>1, FS_EmptySet
  <1> QED BY <1>1, <1>2 DEF Weight

LEMMA FlushCounts ==
    ASSUME CountInv, SamplerShapes, FlushCache
    PROVE  CountInv'
  <1>1. /\ noted' = [d \in Day |-> {}] /\ faults' = faults + 1
        /\ run' = run /\ now' = now /\ counted' = counted
    BY DEF FlushCache, Fault, clock, ghosts
  <1>2. ASSUME NEW d \in Day, NEW i \in Incident
        PROVE  counted'[d][i] + Due(d, i)' <= 1 + faults'
    <2> DEFINE U == Who({"unread"}, d, i)
               A == Who(Busy, d, i)
               B == Who({"notes"}, d, i)
               in == (i \in noted[d])
               may == (DayOf(now) <= d)
    <2>1. counted[d][i] + Due(d, i) <= 1 + faults /\ faults \in Nat
      BY DEF CountInv, Budget
    <2>2. counted'[d][i] = counted[d][i] /\ counted[d][i] \in Nat
      BY <1>1 DEF SamplerShapes
    <2>3. Due(d, i) = Weight(in, U, A, B, may)
      BY DEF Due
    <2>4. (i \in noted'[d]) = FALSE
      BY <1>1
    <2>5. Due(d, i)' = Weight(i \in noted'[d], U, A, B, may)
      BY <1>1 DEF Due, Who, Running
    <2>6. IsFiniteSet(A) /\ U \subseteq A
      BY Gathered DEF CountInv
    <2>7. in \in BOOLEAN /\ may \in BOOLEAN
      OBVIOUS
    <2> HIDE DEF U, A, B, in, may
    <2>8. /\ Weight(in, U, A, B, may) \in Nat /\ Weight(FALSE, U, A, B, may) \in Nat
          /\ Weight(FALSE, U, A, B, may) <= Weight(in, U, A, B, may) + 1
      BY <2>6, <2>7, FlushedWeight
    <2> DEFINE W  == Weight(in, U, A, B, may)
               W2 == Weight(FALSE, U, A, B, may)
    <2>9. Due(d, i)' = W2 /\ Due(d, i) = W /\ W \in Nat /\ W2 \in Nat /\ W2 <= W + 1
      BY <2>3, <2>4, <2>5, <2>8
    <2> HIDE DEF W, W2
    <2>10. faults' = faults + 1
      BY <1>1
    <2> QED BY <2>1, <2>2, <2>9, <2>10
  <1>3. ReadsInOrder' /\ Running' = Running
    BY <1>1 DEF CountInv, ReadsInOrder, Running
  <1> QED BY <1>1, <1>2, <1>3 DEF CountInv, Budget

LEMMA OutsideCounts ==
    ASSUME CountInv, SamplerShapes, UNCHANGED <<run, counted, noted>>, now' \in {now, now + 1},
           faults' \in {faults, faults + 1}
    PROVE  CountInv'
  <1>1. faults \in Nat /\ faults' \in Nat /\ faults <= faults'
    BY DEF CountInv
  <1>2. ASSUME NEW d \in Day, NEW i \in Incident
        PROVE  counted'[d][i] + Due(d, i)' <= 1 + faults'
    <2> DEFINE U == Who({"unread"}, d, i)
               A == Who(Busy, d, i)
               B == Who({"notes"}, d, i)
               in == (i \in noted[d])
               may == (DayOf(now) <= d)
               may2 == (DayOf(now') <= d)
    <2>1. counted[d][i] + Due(d, i) <= 1 + faults
      BY DEF CountInv, Budget
    <2>2. counted'[d][i] = counted[d][i] /\ counted[d][i] \in Nat
      BY DEF SamplerShapes
    <2>3. Due(d, i) = Weight(in, U, A, B, may)
      BY DEF Due
    <2>4. Due(d, i)' = Weight(in, U, A, B, may2)
      BY DEF Due, Who, Running
    <2>5. IsFiniteSet(A) /\ U \subseteq A
      BY Gathered DEF CountInv
    <2>6. in \in BOOLEAN /\ may \in BOOLEAN /\ may2 \in BOOLEAN
      OBVIOUS
    <2>7. may2 => may
      <3>1. now \in Nat /\ d \in Nat
        BY DEF SamplerShapes, Slot, Day
      <3>2. now \div 3 \in Nat /\ (now + 1) \div 3 \in Nat /\ now \div 3 <= (now + 1) \div 3
        BY <3>1
      <3>3. DayOf(now') = now \div 3 \/ DayOf(now') = (now + 1) \div 3
        BY DEF DayOf
      <3>4. DayOf(now) = now \div 3
        BY DEF DayOf
      <3> QED BY <3>1, <3>2, <3>3, <3>4
    <2> HIDE DEF U, A, B, in, may, may2
    <2>8. /\ Weight(in, U, A, B, may) \in Nat /\ Weight(in, U, A, B, may2) \in Nat
          /\ Weight(in, U, A, B, may2) <= Weight(in, U, A, B, may)
      BY <2>5, <2>6, <2>7, FlushedWeight
    <2> QED BY <1>1, <2>1, <2>2, <2>3, <2>4, <2>8
  <1>3. ReadsInOrder' /\ Running' = Running
    BY DEF CountInv, ReadsInOrder, Running
  <1> QED BY <1>1, <1>2, <1>3 DEF CountInv, Budget

LEMMA CountInitInv == SamplerInit => CountInv
  <1> SUFFICES ASSUME SamplerInit PROVE CountInv
    OBVIOUS
  <1>1. \A r \in Sampler : run[r].pc = "idle" /\ run[r].known = {} /\ run[r].new = {}
    BY DEF SamplerInit, NotRunning
  <1>2. Running = {} /\ IsFiniteSet({}) /\ Cardinality({}) = 0
    BY <1>1, FS_EmptySet DEF Running
  <1>3. \A S, d, i : Who(S, d, i) = {}
    BY <1>2 DEF Who
  <1>4. \A d \in Day, i \in Incident : counted[d][i] = 0 /\ Due(d, i) \in {0, 1}
    BY <1>2, <1>3 DEF SamplerInit, Due, Weight
  <1>5. faults = 0
    BY DEF SamplerInit
  <1> QED BY <1>1, <1>2, <1>4, <1>5 DEF CountInv, Budget, ReadsInOrder

LEMMA CountInductive == SamplerSpec => []CountInv
  <1>1. SamplerInv /\ SamplerInv' /\ CountInv /\ [SamplerNext]_samplerVars => CountInv'
    <2> SUFFICES ASSUME SamplerInv, SamplerInv', CountInv, [SamplerNext]_samplerVars PROVE CountInv'
      OBVIOUS
    <2>a. SamplerShapes /\ SamplerShapes'
      BY DEF SamplerInv
    <2>1. CASE UNCHANGED samplerVars
      BY <2>1, <2>a, OutsideCounts DEF samplerVars
    <2>2. CASE \E r \in Sampler : SampleStep(r)
      <3>1. PICK r \in Sampler : SampleStep(r)
        BY <2>2
      <3>2. CASE Tick(r)
        BY <2>a, <3>2, TickCounts
      <3>3. CASE \E feed \in (SUBSET Cancelled) \cup (SUBSET Skipped) : ReadNoted(r, feed)
        BY <2>a, <3>3, ReadCounts
      <3>4. CASE Persist(r)
        BY <2>a, <3>4, PersistCounts
      <3>5. CASE Note(r)
        BY <2>a, <3>5, NoteCounts
      <3>6. CASE SkipSample(r) \/ SampleFails(r) \/ SamplerCrash(r)
        <4>1. /\ Done(r) /\ UNCHANGED <<noted, counted, now>>
              /\ (run[r].pc = "persist" /\ UNCHANGED faults) \/ Fault
          BY <3>6 DEF SkipSample, SampleFails, SamplerCrash, redis, clock, ghosts
        <4> QED BY <2>a, <4>1, StopCounts
      <3> QED BY <3>1, <3>2, <3>3, <3>4, <3>5, <3>6 DEF SampleStep
    <2>3. CASE LockExpires \/ BackfillFails \/ PurgeAll \/ Pass
      <3>1. UNCHANGED <<run, counted, noted>> /\ now' \in {now, now + 1} /\ faults' \in {faults, faults + 1}
        BY <2>3 DEF LockExpires, BackfillFails, PurgeAll, Pass, redis, clock, ghosts, Fault
      <3> QED BY <2>a, <3>1, OutsideCounts
    <2>4. CASE \/ \E window \in BOOLEAN, from, to \in Day : BackfillRead(window, from, to)
               \/ \E d \in Day : BackfillUpsert(d)
               \/ \E from, to \in Day : Purge(from, to)
      <3>1. UNCHANGED <<run, counted, noted, now, faults>>
        BY <2>4 DEF BackfillRead, BackfillUpsert, Purge, redis, clock, ghosts
      <3> QED BY <2>a, <3>1, OutsideCounts
    <2>5. CASE FlushCache
      BY <2>a, <2>5, FlushCounts
    <2>6. CASE \E d \in Day : NotesExpire(d)
      BY <2>a, <2>6, ExpiryCounts
    <2> QED BY <2>1, <2>2, <2>3, <2>4, <2>5, <2>6 DEF SamplerNext
  <1> QED BY <1>1, CountInitInv, SamplerInductive, PTL DEF SamplerSpec

\* However many runs overlap, fail or crash, and whatever is flushed, a trip is
\* counted at most once a day and once more for each such fault (sampler.sample
\* reads the notes before the transaction and writes them back after it).
THEOREM CountsOncePerFault == SamplerSpec => []CountedOnce
  <1>1. CountInv /\ SamplerInv => CountedOnce
    <2> SUFFICES ASSUME CountInv, SamplerInv, NEW d \in Day, NEW i \in Incident
                 PROVE  counted[d][i] <= 1 + faults
      BY DEF CountedOnce
    <2>1. counted[d][i] \in Nat /\ counted[d][i] + Due(d, i) <= 1 + faults /\ faults \in Nat
      BY DEF CountInv, Budget, SamplerInv, SamplerShapes
    <2>2. Due(d, i) \in Nat
      <3>1. IsFiniteSet(Who(Busy, d, i)) /\ Who({"unread"}, d, i) \subseteq Who(Busy, d, i)
        BY Gathered DEF CountInv
      <3>2. (i \in noted[d]) \in BOOLEAN /\ (DayOf(now) <= d) \in BOOLEAN
        OBVIOUS
      <3> QED BY <3>1, <3>2, FlushedWeight DEF Due
    <2> QED BY <2>1, <2>2
  <1> QED BY <1>1, CountInductive, SamplerInductive, PTL

-----------------------------------------------------------------------------
(* The rebuild. *)

\* A day still to be written has its whole rollup ready.
RebuildInv ==
    /\ DOMAIN daily = Day /\ daily = [d \in Day |-> daily[d]]
    /\ \A s \in snapshots : s.at \in Slot
    /\ DOMAIN rebuild = {"todo", "rows", "read", "window"}
    /\ \A d \in rebuild.todo : (rebuild.window => summer = 0) =>
         rebuild.rows[d] = Rollup(SnapsOf(rebuild.read, d))

LEMMA RebuildKeeps ==
    ASSUME RebuildInv, UNCHANGED <<rebuild, summer>>,
           daily' = daily \/ daily' = [d \in Day |-> daily'[d]],
           \A s \in snapshots' : s.at \in Slot
    PROVE  RebuildInv'
  <1>1. DOMAIN daily' = Day /\ daily' = [d \in Day |-> daily'[d]]
    BY DEF RebuildInv
  <1>2. \A d \in rebuild'.todo : (rebuild'.window => summer' = 0) =>
           rebuild'.rows[d] = Rollup(SnapsOf(rebuild'.read, d))
    BY DEF RebuildInv
  <1> QED BY <1>1, <1>2 DEF RebuildInv

LEMMA ReadIsWhole ==
    ASSUME RebuildInv, NEW window \in BOOLEAN, NEW from \in Day, NEW to \in Day,
           BackfillRead(window, from, to)
    PROVE  RebuildInv'
  <1> DEFINE S == {s \in snapshots : ~window \/ s.at \in Window(from, to)}
  <1>1. /\ rebuild'.todo = {DayOf(s.at) : s \in S}
        /\ rebuild'.rows = [d \in Day |-> Rollup(SnapsOf(S, d))]
        /\ rebuild'.read = snapshots /\ rebuild'.window = window
        /\ DOMAIN rebuild' = {"todo", "rows", "read", "window"}
        /\ daily' = daily /\ snapshots' = snapshots /\ summer' = summer
    BY DEF BackfillRead, tables, clock
  <1>2. ASSUME NEW d \in rebuild'.todo, window => summer = 0
        PROVE  rebuild'.rows[d] = Rollup(SnapsOf(rebuild'.read, d))
    <2>1. PICK s \in S : d = DayOf(s.at)
      BY <1>1
    <2>2. s \in snapshots /\ s.at \in Slot
      BY <2>1 DEF RebuildInv
    <2>3. d \in Day
      BY <2>1, <2>2, DayOfSlot
    <2>4. ASSUME NEW x \in snapshots, DayOf(x.at) = d
          PROVE  x \in S
      <3>1. CASE ~window
        BY <3>1
      <3>2. CASE window
        <4>1. x.at \in Slot /\ s.at \in Window(from, to) /\ summer = 0
          BY <1>2, <2>1, <3>2 DEF RebuildInv
        <4>2. 3 * from + 0 <= s.at /\ s.at < 3 * (to + 1) + 0
          BY <4>1 DEF Window
        <4>3. x.at \in Nat /\ s.at \in Nat /\ from \in Nat /\ to \in Nat
          BY <2>2, <4>1 DEF Slot, Day
        <4>4. x.at \div 3 = s.at \div 3
          BY <2>1, <2>4 DEF DayOf
        <4>5. 3 * from <= x.at /\ x.at < 3 * (to + 1)
          BY <4>2, <4>3, <4>4
        <4> QED BY <4>1, <4>5, <4>3 DEF Window
      <3> QED BY <3>1, <3>2
    <2>5. SnapsOf(S, d) = SnapsOf(snapshots, d)
      BY <2>4 DEF SnapsOf
    <2> HIDE DEF S
    <2>6. rebuild'.rows[d] = Rollup(SnapsOf(S, d))
      BY <1>1, <2>3
    <2> QED BY <1>1, <2>5, <2>6
  <1>3. DOMAIN daily' = Day /\ daily' = [d \in Day |-> daily'[d]] /\ \A s \in snapshots' : s.at \in Slot
    BY <1>1 DEF RebuildInv
  <1> QED BY <1>1, <1>2, <1>3 DEF RebuildInv

LEMMA UpsertKeeps ==
    ASSUME RebuildInv, NEW d \in Day, BackfillUpsert(d)
    PROVE  RebuildInv'
  <1>1. /\ daily' = [daily EXCEPT ![d] = rebuild.rows[d]]
        /\ snapshots' = snapshots /\ summer' = summer
        /\ rebuild' = IF rebuild.todo = {d} THEN NoRebuild ELSE [rebuild EXCEPT !.todo = @ \ {d}]
    BY DEF BackfillUpsert, clock
  <1>2. DOMAIN daily' = Day /\ daily' = [e \in Day |-> daily'[e]]
    BY <1>1 DEF RebuildInv
  <1>3. CASE rebuild.todo = {d}
    BY <1>1, <1>2, <1>3 DEF RebuildInv, NoRebuild
  <1>4. CASE rebuild.todo # {d}
    <2>1. rebuild' = [rebuild EXCEPT !.todo = @ \ {d}]
      BY <1>1, <1>4
    <2>2. /\ rebuild'.todo = rebuild.todo \ {d} /\ rebuild'.rows = rebuild.rows
          /\ rebuild'.read = rebuild.read /\ rebuild'.window = rebuild.window
          /\ DOMAIN rebuild' = DOMAIN rebuild
      BY <2>1 DEF RebuildInv
    <2>3. \A s \in snapshots' : s.at \in Slot
      BY <1>1 DEF RebuildInv
    <2>4. \A e \in rebuild'.todo : (rebuild'.window => summer' = 0) =>
             rebuild'.rows[e] = Rollup(SnapsOf(rebuild'.read, e))
      BY <1>1, <2>2 DEF RebuildInv
    <2>5. DOMAIN rebuild' = {"todo", "rows", "read", "window"}
      BY <2>2 DEF RebuildInv
    <2> QED BY <1>2, <2>3, <2>4, <2>5 DEF RebuildInv
  <1> QED BY <1>3, <1>4

LEMMA RebuildInitInv == SamplerInit => RebuildInv
  BY DEF SamplerInit, RebuildInv, NoRebuild

LEMMA RebuildInductive == SamplerSpec => []RebuildInv
  <1>1. SamplerInv /\ RebuildInv /\ [SamplerNext]_samplerVars => RebuildInv'
    <2> SUFFICES ASSUME SamplerInv, RebuildInv, [SamplerNext]_samplerVars PROVE RebuildInv'
      OBVIOUS
    <2>1. CASE UNCHANGED samplerVars
      BY <2>1 DEF samplerVars, tables, clock, RebuildInv
    <2>2. CASE \E r \in Sampler : SampleStep(r)
      <3>1. PICK r \in Sampler : SampleStep(r)
        BY <2>2
      <3>2. CASE Persist(r)
        <4>1. UNCHANGED <<rebuild, summer>>
          BY <3>2 DEF Persist, clock
        <4>2. run[r].at \in Slot
          BY DEF SamplerInv, SamplerShapes, RunType
        <4>3. /\ snapshots' = Recent(snapshots \cup {[id |-> taken + 1, at |-> run[r].at, new |-> run[r].new]})
              /\ daily' = [daily EXCEPT ![DayOf(run[r].at)] = AddTo(@, Cardinality(run[r].new))]
          BY <3>2 DEF Persist, Commit
        <4>4. \A s \in snapshots' : s.at \in Slot
          BY <4>2, <4>3 DEF RebuildInv, Recent
        <4>5. daily' = [d \in Day |-> daily'[d]]
          BY <4>3 DEF RebuildInv
        <4> QED BY <4>1, <4>4, <4>5, RebuildKeeps
      <3>3. CASE ~Persist(r)
        <4>1. UNCHANGED <<rebuild, summer, daily, snapshots>>
          BY <3>1, <3>3 DEF SampleStep, Tick, ReadNoted, SkipSample, Note, SampleFails, SamplerCrash,
                            tables, clock
        <4>2. \A s \in snapshots' : s.at \in Slot
          BY <4>1 DEF RebuildInv
        <4> QED BY <4>1, <4>2, RebuildKeeps
      <3> QED BY <3>2, <3>3
    <2>3. CASE LockExpires \/ FlushCache \/ Pass \/ \E d \in Day : NotesExpire(d)
      <3>1. UNCHANGED <<rebuild, summer, daily, snapshots>>
        BY <2>3 DEF LockExpires, FlushCache, Pass, NotesExpire, tables, clock
      <3>2. \A s \in snapshots' : s.at \in Slot
        BY <3>1 DEF RebuildInv
      <3> QED BY <3>1, <3>2, RebuildKeeps
    <2>4. CASE \E window \in BOOLEAN, from, to \in Day : BackfillRead(window, from, to)
      BY <2>4, ReadIsWhole
    <2>5. CASE \E d \in Day : BackfillUpsert(d)
      BY <2>5, UpsertKeeps
    <2>6. CASE BackfillFails
      BY <2>6 DEF BackfillFails, tables, clock, RebuildInv, NoRebuild
    <2>7. CASE \/ \E from, to \in Day : Purge(from, to)
               \/ PurgeAll
      <3>1. UNCHANGED <<rebuild, summer>> /\ snapshots' \subseteq snapshots
        BY <2>7 DEF Purge, PurgeAll, clock
      <3>2. daily' = [d \in Day |-> daily'[d]]
        BY <2>7 DEF Purge, PurgeAll
      <3>3. \A s \in snapshots' : s.at \in Slot
        BY <3>1 DEF RebuildInv
      <3> QED BY <3>1, <3>2, <3>3, RebuildKeeps
    <2> QED BY <2>1, <2>2, <2>3, <2>4, <2>5, <2>6, <2>7 DEF SamplerNext
  <1> QED BY <1>1, RebuildInitInv, SamplerInductive, PTL DEF SamplerSpec

\* A rebuild writes the sum of a day's snapshots, unless they changed since they
\* were read, or it is summer and the window is given in dates
\* (backfillFromSnapshots, whose window starts at a fixed offset).
THEOREM RebuildIsTheSum == SamplerSpec => RebuildRestores
  <1> DEFINE Restored ==
               \A d \in Day :
                 /\ BackfillUpsert(d)
                 /\ SnapsOf(rebuild.read, d) = SnapsOf(snapshots, d)
                 /\ rebuild.window => summer = 0
                 => daily'[d] = Rollup(SnapsOf(snapshots, d))
  <1>1. RebuildInv => Restored
    <2> SUFFICES ASSUME RebuildInv, NEW d \in Day, BackfillUpsert(d),
                        SnapsOf(rebuild.read, d) = SnapsOf(snapshots, d),
                        rebuild.window => summer = 0
                 PROVE  daily'[d] = Rollup(SnapsOf(snapshots, d))
      OBVIOUS
    <2>1. d \in rebuild.todo /\ daily' = [daily EXCEPT ![d] = rebuild.rows[d]]
      BY DEF BackfillUpsert
    <2>2. rebuild.rows[d] = Rollup(SnapsOf(rebuild.read, d))
      BY <2>1 DEF RebuildInv
    <2>3. daily'[d] = rebuild.rows[d]
      BY <2>1 DEF RebuildInv
    <2> QED BY <2>2, <2>3
  <1>2. RebuildInv /\ [SamplerNext]_samplerVars => [Restored]_samplerVars
    BY <1>1
  <1> QED BY <1>2, RebuildInductive, PTL DEF SamplerSpec, RebuildRestores

-----------------------------------------------------------------------------
(* The scan. *)

\* While a line cools down, the last push is the only one beyond the restarts.
CoolingInv ==
    /\ mishaps \in Nat
    /\ cooling \in [Replica -> [Line -> Nat]]
    /\ pushed \in [Replica -> [Line -> Nat]]
    /\ OnePushPerCooldown
    /\ \A p \in Replica, l \in Line : cooling[p][l] = 0 => pushed[p][l] <= mishaps

LEMMA CountDown == \A n \in Nat : Max({n - 1, 0}) \in Nat
  <1> SUFFICES ASSUME NEW n \in Nat PROVE Max({n - 1, 0}) \in Nat
    OBVIOUS
  <1>1. \E x \in {n - 1, 0} : \A y \in {n - 1, 0} : x >= y
    <2>1. CASE n = 0
      BY <2>1
    <2>2. CASE n > 0
      BY <2>2
    <2> QED BY <2>1, <2>2
  <1>2. Max({n - 1, 0}) \in {n - 1, 0} /\ Max({n - 1, 0}) >= 0
    BY <1>1 DEF Max
  <1> QED BY <1>2

\* Steps that neither push nor touch a cooldown.
LEMMA NoPushKeeps ==
    ASSUME CoolingInv, UNCHANGED <<cooling, pushed>>, mishaps' \in {mishaps, mishaps + 1}
    PROVE  CoolingInv'
  <1>1. mishaps' \in Nat /\ mishaps' >= mishaps
    BY DEF CoolingInv
  <1> QED BY <1>1 DEF CoolingInv, OnePushPerCooldown

LEMMA PushKeeps ==
    ASSUME CoolingInv, NEW s \in Scan, PushLine(s)
    PROVE  CoolingInv'
  <1> DEFINE p == Owner[s]
             l == scan[s].at
  <1>1. p \in Replica /\ Cooldown \in Nat /\ Cooldown > 0
    BY AlertAssumption
  <1>2. UNCHANGED mishaps
    BY DEF PushLine
  <1>a. CASE l \notin Line
    <2>1. \E m, n : pushed' = [pushed EXCEPT ![p][l] = m] /\ cooling' = [cooling EXCEPT ![p][l] = n]
      BY DEF PushLine
    <2> HIDE DEF p, l
    <2>2. pushed[p] \in [Line -> Nat] /\ cooling[p] \in [Line -> Nat]
      BY <1>1 DEF CoolingInv
    <2>3. \A m, n : [pushed[p] EXCEPT ![l] = m] = pushed[p] /\ [cooling[p] EXCEPT ![l] = n] = cooling[p]
      BY <1>a, <2>2
    <2>4. PICK m, n : pushed' = [pushed EXCEPT ![p][l] = m] /\ cooling' = [cooling EXCEPT ![p][l] = n]
      BY <2>1
    <2>5. /\ pushed' = [pushed EXCEPT ![p] = [pushed[p] EXCEPT ![l] = m]]
          /\ cooling' = [cooling EXCEPT ![p] = [cooling[p] EXCEPT ![l] = n]]
      BY <2>4
    <2>6. /\ pushed' = [pushed EXCEPT ![p] = pushed[p]]
          /\ cooling' = [cooling EXCEPT ![p] = cooling[p]]
      BY <2>3, <2>5
    <2>7. pushed' = pushed /\ cooling' = cooling
      BY <1>1, <2>6 DEF CoolingInv
    <2> QED BY <1>2, <2>7, NoPushKeeps
  <1>3. CASE l \in Line /\ (quiet \/ cooling[p][l] # 0)
    <2>1. pushed' = [pushed EXCEPT ![p][l] = @] /\ cooling' = [cooling EXCEPT ![p][l] = @]
      BY <1>3 DEF PushLine
    <2>2. pushed' = pushed /\ cooling' = cooling
      BY <1>1, <1>3, <2>1 DEF CoolingInv
    <2> QED BY <1>2, <2>2, NoPushKeeps
  <1>4. CASE l \in Line /\ ~quiet /\ cooling[p][l] = 0
    <2>1. pushed' = [pushed EXCEPT ![p][l] = @ + 1] /\ cooling' = [cooling EXCEPT ![p][l] = Cooldown]
      BY <1>4 DEF PushLine
    <2>2. pushed[p][l] <= mishaps
      BY <1>1, <1>4 DEF CoolingInv
    <2> HIDE DEF p, l
    <2>a. pushed[p][l] \in Nat /\ pushed[p] \in [Line -> Nat] /\ cooling[p] \in [Line -> Nat]
      BY <1>1, <1>4 DEF CoolingInv
    <2>3. /\ pushed' \in [Replica -> [Line -> Nat]] /\ cooling' \in [Replica -> [Line -> Nat]]
          /\ pushed'[p][l] = pushed[p][l] + 1 /\ cooling'[p][l] = Cooldown
          /\ \A q \in Replica, m \in Line : q # p \/ m # l =>
               pushed'[q][m] = pushed[q][m] /\ cooling'[q][m] = cooling[q][m]
      BY <1>1, <1>4, <2>1, <2>a DEF CoolingInv
    <2>4. ASSUME NEW q \in Replica, NEW m \in Line
          PROVE  /\ pushed'[q][m] <= 1 + mishaps
                 /\ cooling'[q][m] = 0 => pushed'[q][m] <= mishaps
      <3>1. CASE q = p /\ m = l
        BY <1>1, <2>2, <2>3, <2>a, <3>1 DEF CoolingInv
      <3>2. CASE q # p \/ m # l
        BY <2>3, <3>2 DEF CoolingInv, OnePushPerCooldown
      <3> QED BY <3>1, <3>2
    <2> QED BY <1>2, <2>3, <2>4 DEF CoolingInv, OnePushPerCooldown
  <1> QED BY <1>a, <1>3, <1>4

LEMMA FiveMinutesKeeps ==
    ASSUME CoolingInv, FiveMinutes
    PROVE  CoolingInv'
  <1>1. /\ cooling' = [p \in Replica |-> [l \in Line |-> Max({cooling[p][l] - 1, 0})]]
        /\ pushed' = [p \in Replica |-> [l \in Line |-> IF cooling'[p][l] = 0 THEN 0 ELSE pushed[p][l]]]
        /\ mishaps' \in {mishaps, mishaps + 1}
    BY DEF FiveMinutes, Mishap
  <1>2. \A p \in Replica, l \in Line : Max({cooling[p][l] - 1, 0}) \in Nat
    BY CountDown DEF CoolingInv
  <1>3. cooling' \in [Replica -> [Line -> Nat]]
    BY <1>1, <1>2
  <1>4. \A p \in Replica, l \in Line :
          pushed'[p][l] = IF cooling'[p][l] = 0 THEN 0 ELSE pushed[p][l]
    BY <1>1
  <1>5. pushed' \in [Replica -> [Line -> Nat]]
    <2>1. \A p \in Replica, l \in Line : (IF cooling'[p][l] = 0 THEN 0 ELSE pushed[p][l]) \in Nat
      BY DEF CoolingInv
    <2> QED BY <1>1, <2>1
  <1>6. mishaps' \in Nat /\ mishaps' >= mishaps
    BY <1>1 DEF CoolingInv
  <1>7. ASSUME NEW p \in Replica, NEW l \in Line
        PROVE  /\ pushed'[p][l] <= 1 + mishaps'
               /\ cooling'[p][l] = 0 => pushed'[p][l] <= mishaps'
    <2>1. pushed[p][l] \in Nat /\ pushed[p][l] <= 1 + mishaps /\ mishaps \in Nat
      BY DEF CoolingInv, OnePushPerCooldown
    <2> QED BY <1>4, <1>6, <2>1
  <1> QED BY <1>3, <1>5, <1>6, <1>7 DEF CoolingInv, OnePushPerCooldown

\* A restarted process has forgotten its cooldowns.
LEMMA RestartKeeps ==
    ASSUME CoolingInv, NEW p \in Replica, RestartReplica(p)
    PROVE  CoolingInv'
  <1>1. /\ mishaps' = mishaps + 1 /\ pushed' = pushed
        /\ cooling' = [cooling EXCEPT ![p] = [l \in Line |-> 0]]
    BY DEF RestartReplica, Mishap
  <1>2. cooling' \in [Replica -> [Line -> Nat]] /\ mishaps' \in Nat
    BY <1>1 DEF CoolingInv
  <1>3. \A q \in Replica, l \in Line : pushed'[q][l] <= mishaps'
    BY <1>1 DEF CoolingInv, OnePushPerCooldown
  <1> QED BY <1>1, <1>2, <1>3 DEF CoolingInv, OnePushPerCooldown

LEMMA CoolingInductive == AlertSpec => []CoolingInv
  <1>1. AlertInit => CoolingInv
    <2>1. 0 \in Nat /\ 0 <= 1 + 0
      OBVIOUS
    <2> QED BY <2>1 DEF AlertInit, CoolingInv, OnePushPerCooldown
  <1>2. CoolingInv /\ [AlertNext]_alertVars => CoolingInv'
    <2> SUFFICES ASSUME CoolingInv, [AlertNext]_alertVars PROVE CoolingInv'
      OBVIOUS
    <2>1. CASE UNCHANGED alertVars
      BY <2>1, NoPushKeeps DEF alertVars
    <2>2. CASE FiveMinutes
      BY <2>2, FiveMinutesKeeps
    <2>3. CASE \E s \in Scan : ScanStep(s) \/ ScanFails(s)
      <3>1. PICK s \in Scan : ScanStep(s) \/ ScanFails(s)
        BY <2>3
      <3>2. CASE PushLine(s)
        BY <3>2, PushKeeps
      <3>3. CASE ~PushLine(s)
        <4>1. UNCHANGED <<cooling, pushed>> /\ mishaps' \in {mishaps, mishaps + 1}
          BY <3>1, <3>3 DEF ScanStep, Evaluate, SelectOpen, Upsert, ResolveCleared,
                            ResolveExpired, ScanFails, Mishap
        <4> QED BY <4>1, NoPushKeeps
      <3> QED BY <3>2, <3>3
    <2>4. CASE \E p \in Replica : RestartReplica(p)
      BY <2>4, RestartKeeps
    <2>5. CASE \/ \E l \in Line, snap \in Snapshot : Sampled(l, snap)
               \/ \E p \in Replica : EvaluateFails(p)
               \/ \E l \in Line : ResolveManually(l)
      <3>1. UNCHANGED <<cooling, pushed>> /\ mishaps' \in {mishaps, mishaps + 1}
        BY <2>5 DEF Sampled, EvaluateFails, ResolveManually, Mishap
      <3> QED BY <3>1, NoPushKeeps
    <2> QED BY <2>1, <2>2, <2>3, <2>4, <2>5 DEF AlertNext
  <1> QED BY <1>1, <1>2, PTL DEF AlertSpec

\* A process pushes a line's notification at most once within a cooldown, or once
\* more for each mishap, whatever scans overlap (sendToLine, lastAlertAt).
THEOREM PushesOncePerCooldown == AlertSpec => []OnePushPerCooldown
  <1>1. CoolingInv => OnePushPerCooldown
    BY DEF CoolingInv
  <1> QED BY <1>1, CoolingInductive, PTL

-----------------------------------------------------------------------------
(* The alerts. *)

Bound == Cardinality(Replica) * (1 + mishaps)

\* The scans about to open an alert of the line.
Openers(l) == {s \in Scan : scan[s].pc = "upsert" /\ scan[s].at = l /\ scan[s].found = 0}

RowFields  == {"id", "line", "left", "severity"}
ScanFields == {"pc", "read", "todo", "at", "found"}

\* No more scans are busy or due than replicas and mishaps account for; while a
\* line has no alert each of them may open one, and after that only those
\* that had looked before.
AlertsInv ==
    /\ mishaps \in Nat
    /\ IsFiniteSet(BusyScan) /\ due \subseteq Replica
    /\ Cardinality(BusyScan) + Cardinality(due) <= Bound
    /\ DOMAIN scan = Scan /\ scan = [s \in Scan |-> scan[s]]
    /\ \A s \in Scan : DOMAIN scan[s] = ScanFields
    /\ IsFiniteSet(open) /\ \A a \in open : DOMAIN a = RowFields /\ a.id # 0
    /\ \A l \in Line : IsFiniteSet(OpenOf(l))
                         /\ Cardinality(OpenOf(l)) + Cardinality(Openers(l)) <= Bound

LEMMA ReplicasFinite ==
    IsFiniteSet(Replica) /\ Cardinality(Replica) \in Nat
  BY AlertAssumption, FS_CardinalityType

\* What a finite set is mapped to is no larger.
LEMMA ImageIsSmaller ==
    ASSUME NEW S, IsFiniteSet(S), NEW g, DOMAIN g = S, NEW T, T \subseteq {g[x] : x \in S}
    PROVE  IsFiniteSet(T) /\ Cardinality(T) <= Cardinality(S)
  <1> DEFINE R == {g[x] : x \in S}
             f == [x \in S |-> g[x]]
  <1>1. f \in Surjection(S, R)
    BY DEF Surjection
  <1>2. IsFiniteSet(R) /\ Cardinality(R) <= Cardinality(S)
    BY <1>1, FS_Surjection
  <1>3. IsFiniteSet(T) /\ Cardinality(T) <= Cardinality(R)
    BY <1>2, FS_Subset
  <1>4. Cardinality(T) \in Nat /\ Cardinality(R) \in Nat /\ Cardinality(S) \in Nat
    BY <1>2, <1>3, FS_CardinalityType
  <1> QED BY <1>2, <1>3, <1>4

LEMMA AlertCounts ==
    ASSUME AlertsInv, NEW l \in Line
    PROVE  /\ IsFiniteSet(due) /\ Openers(l) \subseteq BusyScan /\ IsFiniteSet(Openers(l))
           /\ Cardinality(BusyScan) \in Nat /\ Cardinality(due) \in Nat
           /\ Cardinality(OpenOf(l)) \in Nat /\ Cardinality(Openers(l)) \in Nat
           /\ Cardinality(Openers(l)) <= Cardinality(BusyScan)
  <1>1. IsFiniteSet(due)
    BY ReplicasFinite, FS_Subset DEF AlertsInv
  <1>2. Openers(l) \subseteq BusyScan
    BY DEF Openers, BusyScan
  <1>3. IsFiniteSet(BusyScan) /\ IsFiniteSet(OpenOf(l))
    BY DEF AlertsInv
  <1>4. IsFiniteSet(Openers(l)) /\ Cardinality(Openers(l)) <= Cardinality(BusyScan)
    BY <1>2, <1>3, FS_Subset
  <1> QED BY <1>1, <1>2, <1>3, <1>4, FS_CardinalityType

LEMMA BoundType ==
    ASSUME mishaps \in Nat, mishaps' \in {mishaps, mishaps + 1}
    PROVE  /\ Bound \in Nat /\ Bound' \in Nat /\ Bound <= Bound'
           /\ mishaps' = mishaps + 1 => Bound' = Bound + Cardinality(Replica)
  <1> DEFINE R == Cardinality(Replica)
  <1>1. R \in Nat
    BY ReplicasFinite
  <1>2. Bound = R * (1 + mishaps) /\ Bound' = R * (1 + mishaps')
    BY DEF Bound
  <1> HIDE DEF R
  <1>3. R * (1 + mishaps) \in Nat /\ R * (1 + (mishaps + 1)) = R * (1 + mishaps) + R
    BY <1>1
  <1> QED BY <1>1, <1>2, <1>3 DEF R

\* Alerts are only closed or refreshed, no scan starts, and none is about to open.
LEMMA ClosesKeeps ==
    ASSUME AlertsInv, mishaps' \in {mishaps, mishaps + 1},
           BusyScan' \subseteq BusyScan, due' \subseteq due,
           scan' = [s \in Scan |-> scan'[s]], \A s \in Scan : DOMAIN scan'[s] = ScanFields,
           IsFiniteSet(open'), \A a \in open' : DOMAIN a = RowFields /\ a.id # 0,
           \A l \in Line : Openers(l)' \subseteq Openers(l),
           \A l \in Line : IsFiniteSet(OpenOf(l)') /\ Cardinality(OpenOf(l)') <= Cardinality(OpenOf(l))
    PROVE  AlertsInv'
  <1>1. Bound \in Nat /\ Bound' \in Nat /\ Bound <= Bound' /\ mishaps' \in Nat
    BY BoundType DEF AlertsInv
  <1>2. IsFiniteSet(BusyScan) /\ IsFiniteSet(due)
    BY ReplicasFinite, FS_Subset DEF AlertsInv
  <1>3. /\ IsFiniteSet(BusyScan') /\ Cardinality(BusyScan') <= Cardinality(BusyScan)
        /\ IsFiniteSet(due') /\ Cardinality(due') <= Cardinality(due)
    BY <1>2, FS_Subset
  <1>4. /\ Cardinality(BusyScan) \in Nat /\ Cardinality(due) \in Nat
        /\ Cardinality(BusyScan') \in Nat /\ Cardinality(due') \in Nat
    BY <1>2, <1>3, FS_CardinalityType
  <1>5. Cardinality(BusyScan') + Cardinality(due') <= Bound'
    BY <1>1, <1>3, <1>4 DEF AlertsInv
  <1>6. ASSUME NEW l \in Line
        PROVE  Cardinality(OpenOf(l)') + Cardinality(Openers(l)') <= Bound'
    <2>1. IsFiniteSet(Openers(l)) /\ Cardinality(Openers(l)) \in Nat /\ Cardinality(OpenOf(l)) \in Nat
      BY AlertCounts
    <2>2. IsFiniteSet(Openers(l)') /\ Cardinality(Openers(l)') <= Cardinality(Openers(l))
      BY <2>1, FS_Subset
    <2>3. Cardinality(Openers(l)') \in Nat /\ Cardinality(OpenOf(l)') \in Nat
      BY <2>2, FS_CardinalityType
    <2>4. Cardinality(OpenOf(l)) + Cardinality(Openers(l)) <= Bound
      BY DEF AlertsInv
    <2> HIDE DEF Bound
    <2> QED BY <1>1, <2>1, <2>2, <2>3, <2>4
  <1>7. due' \subseteq Replica
    BY DEF AlertsInv
  <1> QED BY <1>1, <1>3, <1>5, <1>6, <1>7 DEF AlertsInv

\* One scan goes on.
LEMMA ScanGoesOn ==
    ASSUME AlertsInv, NEW s \in Scan, NEW new, DOMAIN new = ScanFields, scan' = [scan EXCEPT ![s] = new]
    PROVE  /\ scan' = [q \in Scan |-> scan'[q]] /\ \A q \in Scan : DOMAIN scan'[q] = ScanFields
           /\ scan'[s] = new /\ \A q \in Scan : q # s => scan'[q] = scan[q]
  BY DEF AlertsInv

LEMMA RestingShape == DOMAIN Resting = ScanFields /\ Resting.pc = "idle"
  BY DEF Resting, ScanFields

LEMMA StaysOpen ==
    ASSUME AlertsInv, UNCHANGED open
    PROVE  /\ IsFiniteSet(open') /\ \A a \in open' : DOMAIN a = RowFields /\ a.id # 0
           /\ \A l \in Line : IsFiniteSet(OpenOf(l)') /\ Cardinality(OpenOf(l)') <= Cardinality(OpenOf(l))
                               /\ OpenOf(l)' = OpenOf(l)
  <1>1. \A l \in Line : OpenOf(l)' = OpenOf(l)
    BY DEF OpenOf
  <1>2. \A l \in Line : IsFiniteSet(OpenOf(l)) /\ Cardinality(OpenOf(l)) \in Nat
    BY FS_CardinalityType DEF AlertsInv
  <1>3. IsFiniteSet(open') /\ \A a \in open' : DOMAIN a = RowFields /\ a.id # 0
    BY DEF AlertsInv
  <1> QED BY <1>1, <1>2, <1>3

LEMMA FewerOpen ==
    ASSUME AlertsInv, open' \subseteq open
    PROVE  /\ IsFiniteSet(open') /\ \A a \in open' : DOMAIN a = RowFields /\ a.id # 0
           /\ \A l \in Line : IsFiniteSet(OpenOf(l)') /\ Cardinality(OpenOf(l)') <= Cardinality(OpenOf(l))
  <1>1. \A l \in Line : OpenOf(l)' \subseteq OpenOf(l) /\ IsFiniteSet(OpenOf(l))
    BY DEF OpenOf, AlertsInv
  <1>2. IsFiniteSet(open') /\ \A a \in open' : DOMAIN a = RowFields /\ a.id # 0
    BY FS_Subset DEF AlertsInv
  <1> QED BY <1>1, <1>2, FS_Subset

\* Alerts are changed one by one, and keep their lines.
LEMMA Refreshed ==
    ASSUME AlertsInv, NEW g, DOMAIN g = open, open' = {g[a] : a \in open},
           \A a \in open : DOMAIN g[a] = RowFields /\ g[a].line = a.line /\ g[a].id = a.id
    PROVE  /\ IsFiniteSet(open') /\ \A a \in open' : DOMAIN a = RowFields /\ a.id # 0
           /\ \A l \in Line : IsFiniteSet(OpenOf(l)') /\ Cardinality(OpenOf(l)') <= Cardinality(OpenOf(l))
  <1>1. ASSUME NEW l \in Line
        PROVE  IsFiniteSet(OpenOf(l)') /\ Cardinality(OpenOf(l)') <= Cardinality(OpenOf(l))
    <2> DEFINE S == OpenOf(l)
               h == [a \in S |-> g[a]]
               T == OpenOf(l)'
    <2>1. T \subseteq {h[a] : a \in S}
      <3>1. \A b \in T : \E a \in open : b = g[a] /\ a.line = l
        BY DEF OpenOf
      <3> QED BY <3>1 DEF OpenOf
    <2>2. IsFiniteSet(S) /\ DOMAIN h = S
      BY DEF AlertsInv
    <2> HIDE DEF S, h, T
    <2>3. IsFiniteSet(T) /\ Cardinality(T) <= Cardinality(S)
      BY <2>1, <2>2, ImageIsSmaller
    <2> QED BY <2>3 DEF S, T
  <1>2. IsFiniteSet(open')
    BY ImageIsSmaller DEF AlertsInv
  <1>3. \A a \in open' : DOMAIN a = RowFields /\ a.id # 0
    BY DEF AlertsInv
  <1> QED BY <1>1, <1>2, <1>3

\* A scan that is no opener goes on to something that is not, or ends.
LEMMA QuietStep ==
    ASSUME AlertsInv, NEW s \in Scan, NEW new, DOMAIN new = ScanFields, scan' = [scan EXCEPT ![s] = new],
           scan[s].pc # "idle", new.pc # "upsert" \/ new.found # 0,
           mishaps' \in {mishaps, mishaps + 1}, due' = due,
           IsFiniteSet(open'), \A a \in open' : DOMAIN a = RowFields /\ a.id # 0,
           \A l \in Line : IsFiniteSet(OpenOf(l)') /\ Cardinality(OpenOf(l)') <= Cardinality(OpenOf(l))
    PROVE  AlertsInv'
  <1>1. /\ scan' = [q \in Scan |-> scan'[q]] /\ \A q \in Scan : DOMAIN scan'[q] = ScanFields
        /\ scan'[s] = new /\ \A q \in Scan : q # s => scan'[q] = scan[q]
    BY ScanGoesOn
  <1>2. BusyScan' \subseteq BusyScan
    BY <1>1 DEF BusyScan
  <1>3. \A l \in Line : Openers(l)' \subseteq Openers(l)
    BY <1>1 DEF Openers
  <1> QED BY <1>1, <1>2, <1>3, ClosesKeeps

LEMMA EvaluateKeeps ==
    ASSUME AlertsInv, NEW s \in Scan, Evaluate(s)
    PROVE  AlertsInv'
  <1> DEFINE new == [Resting EXCEPT !.pc = "lines", !.read = latest,
                       !.todo = {l \in Line : Degraded(latest[l])}]
  <1>1. /\ scan[s].pc = "idle" /\ Owner[s] \in due /\ scan' = [scan EXCEPT ![s] = new]
        /\ due' = due \ {Owner[s]} /\ open' = open /\ mishaps' = mishaps
    BY DEF Evaluate
  <1>2. DOMAIN new = ScanFields /\ new.pc = "lines"
    BY DEF Resting, ScanFields
  <1> HIDE DEF new
  <1>3. /\ scan' = [q \in Scan |-> scan'[q]] /\ \A q \in Scan : DOMAIN scan'[q] = ScanFields
        /\ scan'[s] = new /\ \A q \in Scan : q # s => scan'[q] = scan[q]
    BY <1>1, <1>2, ScanGoesOn
  <1>4. BusyScan' = BusyScan \cup {s} /\ s \notin BusyScan
    BY <1>1, <1>2, <1>3 DEF BusyScan
  <1>5. IsFiniteSet(BusyScan) /\ IsFiniteSet(due)
    BY ReplicasFinite, FS_Subset DEF AlertsInv
  <1>6. /\ IsFiniteSet(BusyScan') /\ Cardinality(BusyScan') = Cardinality(BusyScan) + 1
        /\ Cardinality(due') = Cardinality(due) - 1 /\ Cardinality(BusyScan) \in Nat /\ Cardinality(due) \in Nat
    BY <1>1, <1>4, <1>5, FS_AddElement, FS_RemoveElement, FS_CardinalityType
  <1>7. Bound' = Bound /\ due' \subseteq Replica /\ mishaps' \in Nat
    BY <1>1 DEF Bound, AlertsInv
  <1>8. Cardinality(BusyScan') + Cardinality(due') <= Bound'
    BY <1>6, <1>7 DEF AlertsInv
  <1>9. \A l \in Line : Openers(l)' = Openers(l) /\ OpenOf(l)' = OpenOf(l)
    BY <1>1, <1>2, <1>3 DEF Openers, OpenOf
  <1>10. /\ IsFiniteSet(open') /\ \A a \in open' : DOMAIN a = RowFields /\ a.id # 0
         /\ \A l \in Line : IsFiniteSet(OpenOf(l)')
                              /\ Cardinality(OpenOf(l)') + Cardinality(Openers(l)') <= Bound'
    BY <1>1, <1>7, <1>9 DEF AlertsInv
  <1> QED BY <1>3, <1>6, <1>7, <1>8, <1>10 DEF AlertsInv

LEMMA SelectKeeps ==
    ASSUME AlertsInv, NEW s \in Scan, NEW l \in Line, SelectOpen(s, l)
    PROVE  AlertsInv'
  <1>1. PICK id \in IF OpenOf(l) = {} THEN {0} ELSE {a.id : a \in OpenOf(l)} :
          scan' = [scan EXCEPT ![s].pc = "upsert", ![s].at = l, ![s].found = id, ![s].todo = @ \ {l}]
    BY DEF SelectOpen
  <1> DEFINE new == [scan[s] EXCEPT !.pc = "upsert", !.at = l, !.found = id, !.todo = @ \ {l}]
  <1>2. scan[s].pc = "lines" /\ due' = due /\ open' = open /\ mishaps' = mishaps
    BY DEF SelectOpen
  <1>3. DOMAIN new = ScanFields /\ new.pc = "upsert" /\ new.at = l /\ new.found = id
    BY DEF AlertsInv, ScanFields
  <1>4. scan' = [scan EXCEPT ![s] = new]
    BY <1>1 DEF AlertsInv
  <1> HIDE DEF new
  <1>5. /\ scan' = [q \in Scan |-> scan'[q]] /\ \A q \in Scan : DOMAIN scan'[q] = ScanFields
        /\ scan'[s] = new /\ \A q \in Scan : q # s => scan'[q] = scan[q]
    BY <1>3, <1>4, ScanGoesOn
  <1>6. BusyScan' = BusyScan
    BY <1>2, <1>3, <1>5 DEF BusyScan
  <1>7. Bound' = Bound
    BY <1>2 DEF Bound
  <1>8. ASSUME NEW m \in Line
        PROVE  IsFiniteSet(OpenOf(m)') /\ Cardinality(OpenOf(m)') + Cardinality(Openers(m)') <= Bound'
    <2>1. OpenOf(m)' = OpenOf(m)
      BY <1>2 DEF OpenOf
    <2>2. CASE m = l /\ OpenOf(l) = {}
      <3>1. Openers(m)' \subseteq BusyScan
        BY <1>6 DEF Openers, BusyScan
      <3>2. Cardinality(OpenOf(m)') = 0 /\ IsFiniteSet(OpenOf(m)')
        BY <2>1, <2>2, FS_EmptySet
      <3>3. IsFiniteSet(BusyScan) /\ Cardinality(BusyScan) \in Nat /\ Cardinality(due) \in Nat
        BY AlertCounts DEF AlertsInv
      <3>4. IsFiniteSet(Openers(m)') /\ Cardinality(Openers(m)') <= Cardinality(BusyScan)
        BY <3>1, <3>3, FS_Subset
      <3>5. Cardinality(Openers(m)') \in Nat
        BY <3>4, FS_CardinalityType
      <3>6. Cardinality(BusyScan) + Cardinality(due) <= Bound /\ Bound \in Nat
        BY BoundType, <1>2 DEF AlertsInv
      <3> HIDE DEF Bound
      <3> QED BY <1>7, <3>2, <3>3, <3>4, <3>5, <3>6
    <2>3. CASE m # l \/ OpenOf(l) # {}
      <3>1. Openers(m)' = Openers(m)
        <4>1. CASE m # l
          BY <1>2, <1>3, <1>5, <4>1 DEF Openers
        <4>2. CASE m = l /\ OpenOf(l) # {}
          <5>1. id # 0
            BY <1>1, <4>2 DEF OpenOf, AlertsInv
          <5> QED BY <1>2, <1>3, <1>5, <5>1 DEF Openers
        <4> QED BY <2>3, <4>1, <4>2
      <3> QED BY <1>7, <2>1, <3>1 DEF AlertsInv
    <2> QED BY <2>2, <2>3
  <1> QED BY <1>2, <1>5, <1>6, <1>7, <1>8 DEF AlertsInv

\* A new alert gets a number of its own.
LEMMA NewIdIsNumber ==
    ASSUME AlertsInv
    PROVE  NewId # 0
  <1> DEFINE ids == {a.id : a \in open}
             found == {scan[s].found : s \in Scan}
             used == ids \cup found
             n == Cardinality(used)
  <1>1. IsFiniteSet(ids)
    <2> DEFINE g == [a \in open |-> a.id]
    <2>1. DOMAIN g = open /\ ids \subseteq {g[a] : a \in open} /\ IsFiniteSet(open)
      BY DEF AlertsInv
    <2> HIDE DEF g, ids
    <2> QED BY <2>1, ImageIsSmaller
  <1>2. IsFiniteSet(found)
    <2> DEFINE g == [s \in Scan |-> scan[s].found]
    <2>1. DOMAIN g = Scan /\ found \subseteq {g[s] : s \in Scan} /\ IsFiniteSet(Scan)
      BY AlertAssumption
    <2> HIDE DEF g, found
    <2> QED BY <2>1, ImageIsSmaller
  <1> HIDE DEF ids, found
  <1>3. IsFiniteSet(used) /\ n \in Nat
    BY <1>1, <1>2, FS_Union, FS_CardinalityType
  <1>4. Cardinality(1 .. n + 1) = n + 1
    BY <1>3, FS_Interval
  <1>5. \E m \in 1 .. n + 1 : m \notin used
    <2> SUFFICES ASSUME 1 .. n + 1 \subseteq used PROVE FALSE
      OBVIOUS
    <2>1. n + 1 <= n
      <3> HIDE DEF used
      <3> QED BY <1>3, <1>4, FS_Subset
    <2> QED BY <1>3, <2>1
  <1>6. NewId = CHOOSE m \in 1 .. n + 1 : m \notin used
    BY DEF NewId, ids, found
  <1> HIDE DEF n, used
  <1>7. NewId \in 1 .. n + 1
    BY <1>5, <1>6
  <1> QED BY <1>3, <1>7

LEMMA AlertUpsertKeeps ==
    ASSUME AlertsInv, NEW s \in Scan, Upsert(s)
    PROVE  AlertsInv'
  <1> DEFINE l == scan[s].at
             sev == Severity(scan[s].read[l])
             row == [id |-> NewId, line |-> l, left |-> AlertTtl, severity |-> sev]
             new == [scan[s] EXCEPT !.pc = "push"]
  <1>1. /\ scan[s].pc = "upsert" /\ due' = due /\ mishaps' = mishaps
        /\ open' = IF scan[s].found = 0 THEN open \cup {row}
                   ELSE {IF a.id = scan[s].found /\ a.line = l
                         THEN [a EXCEPT !.severity = sev, !.left = AlertTtl] ELSE a : a \in open}
        /\ scan' = [scan EXCEPT ![s].pc = "push"]
    BY DEF Upsert
  <1>2. DOMAIN new = ScanFields /\ new.pc = "push"
    BY DEF AlertsInv, ScanFields
  <1>3. scan' = [scan EXCEPT ![s] = new]
    BY <1>1
  <1> HIDE DEF new
  <1>4. CASE scan[s].found # 0
    <2> DEFINE g == [a \in open |-> IF a.id = scan[s].found /\ a.line = l
                                    THEN [a EXCEPT !.severity = sev, !.left = AlertTtl] ELSE a]
    <2>1. DOMAIN g = open /\ open' = {g[a] : a \in open}
      BY <1>1, <1>4
    <2>2. \A a \in open : DOMAIN g[a] = RowFields /\ g[a].line = a.line /\ g[a].id = a.id
      <3> SUFFICES ASSUME NEW a \in open
                   PROVE  DOMAIN g[a] = RowFields /\ g[a].line = a.line /\ g[a].id = a.id
        OBVIOUS
      <3> HIDE DEF sev, l
      <3>1. DOMAIN a = RowFields /\ "line" \in RowFields /\ "id" \in RowFields
        BY DEF AlertsInv, RowFields
      <3>2. LET b == [a EXCEPT !.severity = sev, !.left = AlertTtl]
            IN  DOMAIN b = RowFields /\ b.line = a.line /\ b.id = a.id
        BY <3>1
      <3> QED BY <3>1, <3>2
    <2> HIDE DEF g
    <2>3. /\ IsFiniteSet(open') /\ \A a \in open' : DOMAIN a = RowFields /\ a.id # 0
          /\ \A m \in Line : IsFiniteSet(OpenOf(m)') /\ Cardinality(OpenOf(m)') <= Cardinality(OpenOf(m))
      BY <2>1, <2>2, Refreshed
    <2> QED BY <1>1, <1>2, <1>3, <2>3, QuietStep
  <1>5. CASE scan[s].found = 0
    <2>1. /\ scan' = [q \in Scan |-> scan'[q]] /\ \A q \in Scan : DOMAIN scan'[q] = ScanFields
          /\ scan'[s] = new /\ \A q \in Scan : q # s => scan'[q] = scan[q]
      BY <1>2, <1>3, ScanGoesOn
    <2>2. open' = open \cup {row} /\ DOMAIN row = RowFields /\ row.line = l /\ row.id # 0
      BY <1>1, <1>5, NewIdIsNumber DEF RowFields
    <2> HIDE DEF row
    <2>3. IsFiniteSet(open') /\ \A a \in open' : DOMAIN a = RowFields /\ a.id # 0
      BY <2>2, FS_AddElement DEF AlertsInv
    <2>4. BusyScan' = BusyScan
      BY <1>1, <1>2, <2>1 DEF BusyScan
    <2>5. Bound' = Bound
      BY <1>1 DEF Bound
    <2>6. ASSUME NEW m \in Line
          PROVE  IsFiniteSet(OpenOf(m)') /\ Cardinality(OpenOf(m)') + Cardinality(Openers(m)') <= Bound'
      <3>1. CASE m # l
        <4>1. OpenOf(m)' = OpenOf(m) /\ Openers(m)' = Openers(m)
          BY <1>1, <1>2, <2>1, <2>2, <3>1, ZenonT(60) DEF OpenOf, Openers
        <4> QED BY <2>5, <4>1 DEF AlertsInv
      <3>2. CASE m = l
        <4>1. OpenOf(m)' = OpenOf(m) \cup {row}
          BY <2>2, <3>2 DEF OpenOf
        <4>2. Openers(m)' = Openers(m) \ {s} /\ s \in Openers(m)
          BY <1>1, <1>2, <1>5, <2>1, <3>2 DEF Openers
        <4>3. /\ IsFiniteSet(OpenOf(m)) /\ IsFiniteSet(Openers(m)) /\ Cardinality(OpenOf(m)) \in Nat
              /\ Cardinality(Openers(m)) \in Nat /\ Cardinality(OpenOf(m)) + Cardinality(Openers(m)) <= Bound
          BY AlertCounts DEF AlertsInv
        <4>4. /\ IsFiniteSet(OpenOf(m)') /\ Cardinality(OpenOf(m)') \in Nat
              /\ Cardinality(OpenOf(m)') <= Cardinality(OpenOf(m)) + 1
          <5> DEFINE X == OpenOf(m)
          <5>1. IsFiniteSet(X) /\ Cardinality(X) \in Nat
            BY <4>3
          <5> HIDE DEF X
          <5>2. IsFiniteSet(X \cup {row})
            BY <5>1, FS_AddElement
          <5>3. Cardinality(X \cup {row}) \in {Cardinality(X), Cardinality(X) + 1}
            BY <5>1, FS_AddElement
          <5> QED BY <4>1, <5>1, <5>2, <5>3 DEF X
        <4>5. Cardinality(Openers(m)') = Cardinality(Openers(m)) - 1
          BY <4>2, <4>3, FS_RemoveElement
        <4>6. Bound \in Nat
          BY <1>1, BoundType DEF AlertsInv
        <4> HIDE DEF Bound
        <4> QED BY <2>5, <4>3, <4>4, <4>5, <4>6
      <3> QED BY <3>1, <3>2
    <2> QED BY <1>1, <2>1, <2>3, <2>4, <2>5, <2>6 DEF AlertsInv
  <1> QED BY <1>4, <1>5

LEMMA AlertTickKeeps ==
    ASSUME AlertsInv, FiveMinutes
    PROVE  AlertsInv'
  <1> DEFINE g == [a \in open |-> [a EXCEPT !.left = Max({@ - 1, 0})]]
  <1>1. /\ due = {} /\ due' = Replica /\ scan' = scan
        /\ open' = {[a EXCEPT !.left = Max({@ - 1, 0})] : a \in open}
        /\ IF BusyScan = {} THEN mishaps' = mishaps ELSE mishaps' = mishaps + 1
    BY DEF FiveMinutes, Mishap
  <1>2. DOMAIN g = open /\ open' = {g[a] : a \in open}
    BY <1>1
  <1>3. \A a \in open : DOMAIN g[a] = RowFields /\ g[a].line = a.line /\ g[a].id = a.id
    <2> SUFFICES ASSUME NEW a \in open
                 PROVE  DOMAIN g[a] = RowFields /\ g[a].line = a.line /\ g[a].id = a.id
      OBVIOUS
    <2>1. DOMAIN a = RowFields /\ "line" \in RowFields /\ "id" \in RowFields
      BY DEF AlertsInv, RowFields
    <2> QED BY <2>1
  <1> HIDE DEF g
  <1>4. /\ IsFiniteSet(open') /\ \A a \in open' : DOMAIN a = RowFields /\ a.id # 0
        /\ \A m \in Line : IsFiniteSet(OpenOf(m)') /\ Cardinality(OpenOf(m)') <= Cardinality(OpenOf(m))
    BY <1>2, <1>3, Refreshed
  <1>5. mishaps \in Nat /\ mishaps' \in Nat /\ mishaps' \in {mishaps, mishaps + 1}
    BY <1>1 DEF AlertsInv
  <1>6. /\ Bound \in Nat /\ Bound' \in Nat /\ Bound <= Bound'
        /\ mishaps' = mishaps + 1 => Bound' = Bound + Cardinality(Replica)
    BY <1>5, BoundType
  <1>7. BusyScan' = BusyScan /\ IsFiniteSet(BusyScan) /\ Cardinality(BusyScan) \in Nat
          /\ Cardinality(due) = 0 /\ Cardinality(BusyScan) + Cardinality(due) <= Bound
    BY <1>1, FS_EmptySet, FS_CardinalityType DEF BusyScan, AlertsInv
  <1>8. Cardinality(BusyScan') + Cardinality(due') <= Bound'
    <2>1. CASE BusyScan = {}
      <3>1. Cardinality(BusyScan) = 0 /\ Bound' = Cardinality(Replica) * (1 + mishaps) /\ Cardinality(Replica) \in Nat
        BY <1>1, <2>1, FS_EmptySet, ReplicasFinite DEF Bound
      <3>2. \A R \in Nat, m \in Nat : R <= R * (1 + m)
        OBVIOUS
      <3> HIDE DEF Bound
      <3> QED BY <1>1, <1>5, <1>7, <3>1, <3>2
    <2>2. CASE BusyScan # {}
      <3>1. Bound' = Bound + Cardinality(Replica) /\ Cardinality(Replica) \in Nat
        BY <1>1, <1>6, <2>2, ReplicasFinite
      <3> HIDE DEF Bound
      <3> QED BY <1>1, <1>6, <1>7, <3>1
    <2> QED BY <2>1, <2>2
  <1>9. ASSUME NEW l \in Line
        PROVE  Cardinality(OpenOf(l)') + Cardinality(Openers(l)') <= Bound'
    <2>1. Openers(l)' = Openers(l)
      BY <1>1 DEF Openers
    <2>2. /\ Cardinality(OpenOf(l)) \in Nat /\ Cardinality(Openers(l)) \in Nat
          /\ Cardinality(OpenOf(l)) + Cardinality(Openers(l)) <= Bound
      BY AlertCounts DEF AlertsInv
    <2>3. Cardinality(OpenOf(l)') \in Nat /\ Cardinality(OpenOf(l)') <= Cardinality(OpenOf(l))
      BY <1>4, FS_CardinalityType
    <2> HIDE DEF Bound
    <2> QED BY <1>6, <2>1, <2>2, <2>3
  <1> QED BY <1>1, <1>4, <1>5, <1>7, <1>8, <1>9 DEF AlertsInv

\* A process restarts: its scans are gone.
LEMMA AlertRestartKeeps ==
    ASSUME AlertsInv, NEW p \in Replica, RestartReplica(p)
    PROVE  AlertsInv'
  <1>1. /\ mishaps' = mishaps + 1 /\ due' = due \ {p} /\ open' = open
        /\ scan' = [s \in Scan |-> IF Owner[s] = p THEN Resting ELSE scan[s]]
    BY DEF RestartReplica, Mishap
  <1>2. \A s \in Scan : DOMAIN scan'[s] = ScanFields /\ (scan'[s].pc = "idle" \/ scan'[s] = scan[s])
    BY <1>1, RestingShape DEF AlertsInv
  <1>3. scan' = [s \in Scan |-> scan'[s]]
    BY <1>1
  <1>4. BusyScan' \subseteq BusyScan /\ \A l \in Line : Openers(l)' \subseteq Openers(l)
    BY <1>2 DEF BusyScan, Openers
  <1> QED BY <1>1, <1>2, <1>3, <1>4, StaysOpen, ClosesKeeps

LEMMA AlertInitInv == AlertInit => AlertsInv
  <1> SUFFICES ASSUME AlertInit PROVE AlertsInv
    OBVIOUS
  <1>1. /\ mishaps = 0 /\ due = {} /\ open = {} /\ scan = [s \in Scan |-> Resting]
    BY DEF AlertInit
  <1>2. BusyScan = {} /\ \A l \in Line : Openers(l) = {} /\ OpenOf(l) = {}
    BY <1>1, RestingShape DEF BusyScan, Openers, OpenOf
  <1>3. Cardinality({}) = 0 /\ IsFiniteSet({}) /\ Bound \in Nat
    <2>1. Bound = Cardinality(Replica) * (1 + 0)
      BY <1>1 DEF Bound
    <2> QED BY <2>1, FS_EmptySet, ReplicasFinite
  <1> HIDE DEF Bound
  <1>4. 0 + 0 <= Bound
    BY <1>3
  <1> QED BY <1>1, <1>2, <1>3, <1>4, RestingShape DEF AlertsInv

LEMMA AlertsInductive == AlertSpec => []AlertsInv
  <1>1. AlertsInv /\ [AlertNext]_alertVars => AlertsInv'
    <2> SUFFICES ASSUME AlertsInv, [AlertNext]_alertVars PROVE AlertsInv'
      OBVIOUS
    <2>1. CASE UNCHANGED <<open, scan, due, mishaps>>
      BY <2>1 DEF AlertsInv, BusyScan, OpenOf, Openers, Bound
    <2>2. CASE FiveMinutes
      BY <2>2, AlertTickKeeps
    <2>3. CASE \E s \in Scan : ScanStep(s) \/ ScanFails(s)
      <3>1. PICK s \in Scan : ScanStep(s) \/ ScanFails(s)
        BY <2>3
      <3>2. CASE Evaluate(s)
        BY <3>2, EvaluateKeeps
      <3>3. CASE \E l \in Line : SelectOpen(s, l)
        BY <3>3, SelectKeeps
      <3>4. CASE Upsert(s)
        BY <3>4, AlertUpsertKeeps
      <3>5. CASE PushLine(s) \/ ResolveCleared(s)
        <4> DEFINE pc == IF PushLine(s) THEN "lines" ELSE "expire"
                   new == [scan[s] EXCEPT !.pc = pc]
        <4>1. scan[s].pc # "idle" /\ due' = due /\ mishaps' = mishaps /\ open' \subseteq open
          BY <3>5 DEF PushLine, ResolveCleared
        <4>2. scan' = [scan EXCEPT ![s].pc = pc]
          BY <3>5 DEF PushLine, ResolveCleared
        <4>3. pc # "upsert"
          OBVIOUS
        <4> HIDE DEF pc
        <4>4. DOMAIN new = ScanFields /\ new.pc = pc
          BY DEF AlertsInv, ScanFields
        <4>5. scan' = [scan EXCEPT ![s] = new]
          BY <4>2
        <4> HIDE DEF new
        <4> QED BY <4>1, <4>3, <4>4, <4>5, FewerOpen, QuietStep
      <3>6. CASE ResolveExpired(s) \/ ScanFails(s)
        <4>1. /\ scan[s].pc # "idle" /\ due' = due /\ mishaps' \in {mishaps, mishaps + 1}
              /\ open' \subseteq open /\ scan' = [scan EXCEPT ![s] = Resting]
          BY <3>6 DEF ResolveExpired, ScanFails, EndScan, Mishap
        <4> QED BY <4>1, RestingShape, FewerOpen, QuietStep
      <3> QED BY <3>1, <3>2, <3>3, <3>4, <3>5, <3>6 DEF ScanStep
    <2>4. CASE \E p \in Replica : RestartReplica(p)
      BY <2>4, AlertRestartKeeps
    <2>5. CASE \/ \E p \in Replica : EvaluateFails(p)
               \/ \E l \in Line : ResolveManually(l)
      <3>1. /\ scan' = scan /\ due' \subseteq due /\ mishaps' = mishaps + 1 /\ open' \subseteq open
        BY <2>5 DEF EvaluateFails, ResolveManually, Mishap
      <3>2. /\ BusyScan' = BusyScan /\ \A l \in Line : Openers(l)' = Openers(l)
            /\ scan' = [s \in Scan |-> scan'[s]] /\ \A s \in Scan : DOMAIN scan'[s] = ScanFields
        BY <3>1 DEF BusyScan, Openers, AlertsInv
      <3> QED BY <3>1, <3>2, FewerOpen, ClosesKeeps
    <2>6. CASE \E l \in Line, snap \in Snapshot : Sampled(l, snap)
      BY <2>1, <2>6 DEF Sampled
    <2> QED BY <2>1, <2>2, <2>3, <2>4, <2>5, <2>6 DEF AlertNext, alertVars
  <1> QED BY <1>1, AlertInitInv, PTL DEF AlertSpec

\* A line has at most one open alert for each replica that scans at the same
\* time, and as many more for each mishap (upsertActive selects, then inserts).
THEOREM OpenAlertsAreFew == AlertSpec => []FewOpenAlerts
  <1>1. AlertsInv => FewOpenAlerts
    <2> SUFFICES ASSUME AlertsInv, NEW l \in Line PROVE Cardinality(OpenOf(l)) <= Bound
      BY DEF FewOpenAlerts, Bound
    <2>1. /\ Cardinality(OpenOf(l)) \in Nat /\ Cardinality(Openers(l)) \in Nat
          /\ Cardinality(OpenOf(l)) + Cardinality(Openers(l)) <= Bound
      BY AlertCounts DEF AlertsInv
    <2>2. Bound \in Nat
      <3>1. Bound = Cardinality(Replica) * (1 + mishaps)
        BY DEF Bound
      <3> QED BY <3>1, ReplicasFinite DEF AlertsInv
    <2> HIDE DEF Bound
    <2> QED BY <2>1, <2>2
  <1> QED BY <1>1, AlertsInductive, PTL

-----------------------------------------------------------------------------
(* Sums of the values of a function over a finite set. *)

LEMMA LeastOf ==
    ASSUME NEW S \in SUBSET Nat, S # {}
    PROVE  \E m \in S : \A i \in S : m <= i
  <1> DEFINE R == {pair \in Nat \X Nat : pair[1] < pair[2]}
  <1>1. IsWellFoundedOn(R, Nat)
    BY NatLessThanWellFounded DEF OpToRel
  <1>2. PICK k \in S : \A j \in S : <<j, k>> \notin R
    <2> HIDE DEF R
    <2> QED BY <1>1, WFMin
  <1>3. \A j \in S : ~(j < k)
    BY <1>2
  <1> QED BY <1>3

\* Of finite sets, one that has the fewest members.
LEMMA FewestOf ==
    ASSUME NEW C, C # {}, \A T \in C : IsFiniteSet(T)
    PROVE  \E T \in C : \A U \in C : Cardinality(T) <= Cardinality(U)
  <1> DEFINE sizes == {Cardinality(T) : T \in C}
  <1>1. sizes \in SUBSET Nat /\ sizes # {}
    BY FS_CardinalityType
  <1> HIDE DEF sizes
  <1>2. PICK n \in sizes : \A m \in sizes : n <= m
    BY <1>1, LeastOf
  <1> QED BY <1>2 DEF sizes

\* The element of a set that a sum takes first.
First(T) == CHOOSE x \in T : TRUE

\* The sums of the subsets of a set, as SumFunctionOnSet has them.
Adds(sum, fun, S) ==
    sum = [T \in SUBSET S |-> IF T = {} THEN 0 ELSE fun[First(T)] + sum[T \ {First(T)}]]

LEMMA SumIsChosen ==
    ASSUME NEW fun, NEW S
    PROVE  SumFunctionOnSet(fun, S) = (CHOOSE sum : Adds(sum, fun, S))[S]
  BY DEF SumFunctionOnSet, FoldFunctionOnSet, MapThenFoldSet, Adds, First

LEMMA FirstIsMember ==
    ASSUME NEW T, T # {}
    PROVE  First(T) \in T
  BY DEF First

LEMMA AddsStep ==
    ASSUME NEW sum, NEW fun, NEW S, Adds(sum, fun, S), NEW T \in SUBSET S
    PROVE  sum[T] = IF T = {} THEN 0 ELSE fun[First(T)] + sum[T \ {First(T)}]
  BY DEF Adds

LEMMA SumsAgree ==
    ASSUME NEW fun, NEW S, NEW T, NEW s, NEW t, Adds(s, fun, S), Adds(t, fun, T),
           NEW U \in SUBSET S, U \in SUBSET T, IsFiniteSet(U)
    PROVE  s[U] = t[U]
  <1> DEFINE C == {V \in SUBSET U : s[V] # t[V]}
  <1>1. ASSUME C # {} PROVE FALSE
    <2>1. PICK V \in C : \A W \in C : Cardinality(V) <= Cardinality(W)
      <3>1. \A V \in C : IsFiniteSet(V)
        BY FS_Subset
      <3> HIDE DEF C
      <3> QED BY <1>1, <3>1, FewestOf
    <2>2. V \in SUBSET U /\ V \in SUBSET S /\ V \in SUBSET T /\ s[V] # t[V] /\ IsFiniteSet(V)
      BY <2>1, FS_Subset
    <2>3. /\ s[V] = IF V = {} THEN 0 ELSE fun[First(V)] + s[V \ {First(V)}]
          /\ t[V] = IF V = {} THEN 0 ELSE fun[First(V)] + t[V \ {First(V)}]
      BY <2>2, AddsStep
    <2>4. V # {}
      BY <2>2, <2>3
    <2>5. First(V) \in V /\ Cardinality(V \ {First(V)}) = Cardinality(V) - 1 /\ Cardinality(V) \in Nat
      BY <2>2, <2>4, FirstIsMember, FS_RemoveElement, FS_CardinalityType
    <2>6. V \ {First(V)} \in SUBSET U /\ V \ {First(V)} \notin C
      <3>1. ~(Cardinality(V) <= Cardinality(V \ {First(V)}))
        BY <2>5
      <3> QED BY <2>1, <2>2, <3>1
    <2>7. s[V \ {First(V)}] = t[V \ {First(V)}]
      BY <2>6
    <2> QED BY <2>2, <2>3, <2>4, <2>7
  <1>2. U \notin C
    <2> HIDE DEF C
    <2> QED BY <1>1
  <1> QED BY <1>2

LEMMA SumsExist ==
    ASSUME NEW fun, NEW S, IsFiniteSet(S)
    PROVE  \E sum : Adds(sum, fun, S)
  <1> DEFINE C == {T \in SUBSET S : ~(\E sum : Adds(sum, fun, T))}
             sumOf(V) == SumFunctionOnSet(fun, V)
  <1>1. ASSUME C # {} PROVE FALSE
    <2>1. PICK T \in C : \A U \in C : Cardinality(T) <= Cardinality(U)
      <3>1. \A T \in C : IsFiniteSet(T)
        BY FS_Subset
      <3> HIDE DEF C
      <3> QED BY <1>1, <3>1, FewestOf
    <2>2. T \in SUBSET S /\ IsFiniteSet(T) /\ ~(\E sum : Adds(sum, fun, T))
      BY <2>1, FS_Subset
    <2>3. ASSUME NEW V \in SUBSET T, V # T
          PROVE  \E sum : Adds(sum, fun, V) /\ sumOf(V) = sum[V]
      <3>1. V \in SUBSET S /\ Cardinality(V) < Cardinality(T)
        <4>1. Cardinality(V) <= Cardinality(T) /\ Cardinality(V) # Cardinality(T)
          BY <2>2, <2>3, FS_Subset
        <4>2. Cardinality(V) \in Nat /\ Cardinality(T) \in Nat
          BY <2>2, FS_Subset, FS_CardinalityType
        <4> QED BY <2>2, <4>1, <4>2
      <3>2. Cardinality(V) \in Nat /\ Cardinality(T) \in Nat
        BY <2>2, FS_Subset, FS_CardinalityType
      <3>3. V \notin C
        BY <2>1, <3>1, <3>2
      <3>4. \E sum : Adds(sum, fun, V)
        BY <3>1, <3>3
      <3>5. Adds(CHOOSE sum : Adds(sum, fun, V), fun, V)
        BY <3>4
      <3> QED BY <3>5, SumIsChosen
    <2> DEFINE v == [U \in SUBSET T |-> IF U = {} THEN 0 ELSE fun[First(U)] + sumOf(U \ {First(U)})]
    <2>4. \A U \in SUBSET T : v[U] = IF U = {} THEN 0 ELSE fun[First(U)] + sumOf(U \ {First(U)})
      OBVIOUS
    <2>5. v = [U \in SUBSET T |-> v[U]]
      OBVIOUS
    <2> HIDE DEF v
    <2>6. ASSUME NEW V \in SUBSET T, V # T
          PROVE  v[V] = sumOf(V)
      <3>1. PICK s : Adds(s, fun, V) /\ sumOf(V) = s[V]
        BY <2>3, <2>6
      <3>2. s[V] = IF V = {} THEN 0 ELSE fun[First(V)] + s[V \ {First(V)}]
        BY <3>1, AddsStep
      <3>3. CASE V = {}
        BY <2>4, <3>1, <3>2, <3>3
      <3>4. CASE V # {}
        <4> DEFINE W == V \ {First(V)}
        <4>1. W \in SUBSET V /\ W \in SUBSET T /\ W # T
          BY <3>4, FirstIsMember
        <4>2. PICK w : Adds(w, fun, W) /\ sumOf(W) = w[W]
          BY <2>3, <4>1
        <4>3. IsFiniteSet(W)
          BY <2>2, <4>1, FS_Subset
        <4>4. s[W] = w[W]
          BY <3>1, <4>1, <4>2, <4>3, SumsAgree
        <4> QED BY <2>4, <3>1, <3>2, <3>4, <4>2, <4>4
      <3> QED BY <3>3, <3>4
    <2> HIDE DEF sumOf
    <2>7. ASSUME NEW U \in SUBSET T
          PROVE  v[U] = IF U = {} THEN 0 ELSE fun[First(U)] + v[U \ {First(U)}]
      <3>1. CASE U = {}
        BY <2>4, <3>1
      <3>2. CASE U # {}
        <4>1. U \ {First(U)} \in SUBSET T /\ U \ {First(U)} # T
          BY <3>2, FirstIsMember
        <4>2. v[U \ {First(U)}] = sumOf(U \ {First(U)})
          BY <2>6, <4>1
        <4> QED BY <2>4, <3>2, <4>2
      <3> QED BY <3>1, <3>2
    <2>8. Adds(v, fun, T)
      BY <2>5, <2>7 DEF Adds
    <2> QED BY <2>2, <2>8
  <1>2. S \notin C
    <2> HIDE DEF C
    <2> QED BY <1>1
  <1> QED BY <1>2

LEMMA SumOfNone ==
    ASSUME NEW fun
    PROVE  SumFunctionOnSet(fun, {}) = 0
  <1>1. Adds(CHOOSE sum : Adds(sum, fun, {}), fun, {})
    BY SumsExist, FS_EmptySet
  <1> QED BY <1>1, AddsStep, SumIsChosen

LEMMA SumUnfolds ==
    ASSUME NEW fun, NEW S, IsFiniteSet(S), S # {}
    PROVE  SumFunctionOnSet(fun, S) = fun[First(S)] + SumFunctionOnSet(fun, S \ {First(S)})
  <1> DEFINE T == S \ {First(S)}
             s == CHOOSE sum : Adds(sum, fun, S)
             t == CHOOSE sum : Adds(sum, fun, T)
  <1>1. IsFiniteSet(T) /\ T \in SUBSET S
    BY FS_Subset
  <1>2. Adds(s, fun, S)
    BY SumsExist
  <1>3. Adds(t, fun, T)
    <2> HIDE DEF T
    <2> QED BY <1>1, SumsExist
  <1>4. SumFunctionOnSet(fun, S) = s[S]
    BY SumIsChosen
  <1>5. SumFunctionOnSet(fun, T) = t[T]
    BY SumIsChosen
  <1> HIDE DEF s, t
  <1>6. s[S] = fun[First(S)] + s[T]
    BY <1>2, AddsStep
  <1>7. s[T] = t[T]
    <2> HIDE DEF T
    <2> QED BY <1>1, <1>2, <1>3, SumsAgree
  <1> QED BY <1>4, <1>5, <1>6, <1>7

\* Whatever element is taken first, the sum is the same.
LEMMA SumRemoves ==
    ASSUME NEW fun, NEW S, IsFiniteSet(S), \A x \in S : fun[x] \in Int
    PROVE  /\ SumFunctionOnSet(fun, S) \in Int
           /\ \A x \in S : SumFunctionOnSet(fun, S) = fun[x] + SumFunctionOnSet(fun, S \ {x})
  <1> DEFINE sumOf(T) == SumFunctionOnSet(fun, T)
             Free(T) == sumOf(T) \in Int /\ \A x \in T : sumOf(T) = fun[x] + sumOf(T \ {x})
             C == {T \in SUBSET S : ~Free(T)}
  <1>1. ASSUME C # {} PROVE FALSE
    <2>1. PICK T \in C : \A U \in C : Cardinality(T) <= Cardinality(U)
      <3>1. \A T \in C : IsFiniteSet(T)
        BY FS_Subset
      <3> HIDE DEF C
      <3> QED BY <1>1, <3>1, FewestOf
    <2>2. T \in SUBSET S /\ IsFiniteSet(T) /\ ~Free(T)
      BY <2>1, FS_Subset
    <2>3. ASSUME NEW x \in T
          PROVE  /\ T \ {x} \in SUBSET S /\ IsFiniteSet(T \ {x}) /\ Free(T \ {x})
      <3>1. Cardinality(T \ {x}) = Cardinality(T) - 1 /\ Cardinality(T) \in Nat /\ IsFiniteSet(T \ {x})
        BY <2>2, FS_RemoveElement, FS_CardinalityType
      <3>2. ~(Cardinality(T) <= Cardinality(T \ {x})) /\ T \ {x} \in SUBSET S
        BY <2>2, <3>1
      <3>3. T \ {x} \notin C
        BY <2>1, <3>2
      <3> HIDE DEF Free
      <3> QED BY <3>1, <3>2, <3>3
    <2>4. T # {}
      <3>1. Free({})
        BY SumOfNone
      <3> HIDE DEF Free
      <3> QED BY <2>2, <3>1
    <2> DEFINE f == First(T)
    <2>5. f \in T /\ sumOf(T) = fun[f] + sumOf(T \ {f}) /\ fun[f] \in Int
      BY <2>2, <2>4, FirstIsMember, SumUnfolds
    <2> HIDE DEF f, sumOf
    <2>6. sumOf(T) \in Int
      <3>1. Free(T \ {f})
        BY <2>3, <2>5
      <3>2. sumOf(T \ {f}) \in Int
        BY <3>1
      <3> QED BY <2>5, <3>2
    <2>7. ASSUME NEW x \in T PROVE sumOf(T) = fun[x] + sumOf(T \ {x})
      <3>1. CASE x = f
        BY <2>5, <3>1
      <3>2. CASE x # f
        <4> DEFINE R == (T \ {x}) \ {f}
        <4>1. x \in T \ {f} /\ f \in T \ {x} /\ (T \ {f}) \ {x} = R
          BY <2>5, <3>2
        <4>2. sumOf(T \ {f}) = fun[x] + sumOf(R)
          <5>1. \A y \in T \ {f} : sumOf(T \ {f}) = fun[y] + sumOf((T \ {f}) \ {y})
            BY <2>3, <2>5
          <5> HIDE DEF R
          <5> QED BY <4>1, <5>1
        <4>3. sumOf(T \ {x}) = fun[f] + sumOf(R)
          BY <2>3, <4>1
        <4>4. sumOf(R) \in Int
          <5>1. Free(T \ {x}) /\ IsFiniteSet(T \ {x}) /\ T \ {x} \in SUBSET S
            BY <2>3
          <5>2. R \notin C
            <6>1. Cardinality(R) = Cardinality(T) - 2 /\ Cardinality(T) \in Nat
              <7>1. Cardinality(T \ {x}) = Cardinality(T) - 1 /\ Cardinality(T) \in Nat
                BY <2>2, FS_RemoveElement, FS_CardinalityType
              <7>2. Cardinality(R) = Cardinality(T \ {x}) - 1
                BY <4>1, <5>1, FS_RemoveElement
              <7> QED BY <7>1, <7>2
            <6>2. ~(Cardinality(T) <= Cardinality(R))
              BY <6>1
            <6> HIDE DEF R
            <6> QED BY <2>1, <6>2
          <5>3. R \in SUBSET S
            BY <2>2
          <5> HIDE DEF R
          <5> QED BY <5>2, <5>3
        <4>5. fun[x] \in Int
          BY <2>2
        <4> HIDE DEF R
        <4>6. \A a, b, r \in Int : a + (b + r) = b + (a + r)
          OBVIOUS
        <4> QED BY <2>5, <4>2, <4>3, <4>4, <4>5, <4>6
      <3> QED BY <3>1, <3>2
    <2> QED BY <2>2, <2>6, <2>7
  <1>2. S \notin C
    <2> HIDE DEF C
    <2> QED BY <1>1
  <1> QED BY <1>2

\* A sum keeps within the bounds of what is added up.
LEMMA SumBetween ==
    ASSUME NEW fun, NEW S, IsFiniteSet(S), NEW most \in Nat,
           \A x \in S : fun[x] \in Nat /\ fun[x] <= most
    PROVE  /\ SumFunctionOnSet(fun, S) \in Nat
           /\ SumFunctionOnSet(fun, S) <= most * Cardinality(S)
  <1> DEFINE sumOf(T) == SumFunctionOnSet(fun, T)
             Within(T) == sumOf(T) \in Nat /\ sumOf(T) <= most * Cardinality(T)
             C == {T \in SUBSET S : ~Within(T)}
  <1>1. ASSUME C # {} PROVE FALSE
    <2>1. PICK T \in C : \A U \in C : Cardinality(T) <= Cardinality(U)
      <3>1. \A T \in C : IsFiniteSet(T)
        BY FS_Subset
      <3> HIDE DEF C
      <3> QED BY <1>1, <3>1, FewestOf
    <2>2. T \in SUBSET S /\ IsFiniteSet(T) /\ ~Within(T)
      BY <2>1, FS_Subset
    <2>3. T # {}
      <3>1. Within({})
        BY SumOfNone, FS_EmptySet
      <3> HIDE DEF Within
      <3> QED BY <2>2, <3>1
    <2>4. PICK x \in T : TRUE
      BY <2>3
    <2> DEFINE n == Cardinality(T)
    <2>5. Cardinality(T \ {x}) = n - 1 /\ n \in Nat /\ n - 1 \in Nat
      <3>1. IsFiniteSet(T \ {x}) /\ Cardinality(T \ {x}) = n - 1
        BY <2>2, <2>4, FS_RemoveElement
      <3>2. n \in Nat /\ Cardinality(T \ {x}) \in Nat
        BY <2>2, <3>1, FS_CardinalityType
      <3> QED BY <3>1, <3>2
    <2> HIDE DEF n
    <2>6. Within(T \ {x})
      <3>1. ~(n <= Cardinality(T \ {x})) /\ T \ {x} \in SUBSET S
        BY <2>2, <2>5
      <3>2. T \ {x} \notin C
        BY <2>1, <3>1 DEF n
      <3> HIDE DEF Within
      <3> QED BY <3>1, <3>2
    <2>7. sumOf(T) = fun[x] + sumOf(T \ {x})
      BY <2>2, SumRemoves
    <2>8. fun[x] \in Nat /\ fun[x] <= most
      BY <2>2
    <2>9. most * (n - 1) \in Nat /\ most * n = most * (n - 1) + most
      BY <2>5
    <2> HIDE DEF sumOf
    <2>10. Within(T)
      BY <2>5, <2>6, <2>7, <2>8, <2>9 DEF n
    <2> HIDE DEF Within
    <2> QED BY <2>2, <2>10
  <1>2. S \notin C
    <2> HIDE DEF C
    <2> QED BY <1>1
  <1> QED BY <1>2

\* What is added up in two parts is the same as in one.
LEMMA SumOfParts ==
    ASSUME NEW fun, NEW S, NEW U, IsFiniteSet(S), IsFiniteSet(U), S \cap U = {},
           \A x \in S \cup U : fun[x] \in Int
    PROVE  SumFunctionOnSet(fun, S \cup U) = SumFunctionOnSet(fun, S) + SumFunctionOnSet(fun, U)
  <1> DEFINE sumOf(T) == SumFunctionOnSet(fun, T)
             Splits(T) == sumOf(T \cup U) = sumOf(T) + sumOf(U)
             C == {T \in SUBSET S : ~Splits(T)}
  <1>1. \A T \in SUBSET S : /\ IsFiniteSet(T) /\ IsFiniteSet(T \cup U)
                            /\ \A x \in T \cup U : fun[x] \in Int
    BY FS_Subset, FS_Union
  <1>2. \A T \in SUBSET S : sumOf(T) \in Int /\ sumOf(T \cup U) \in Int
    BY <1>1, SumRemoves
  <1>3. sumOf(U) \in Int
    BY SumRemoves
  <1>4. ASSUME C # {} PROVE FALSE
    <2>1. PICK T \in C : \A V \in C : Cardinality(T) <= Cardinality(V)
      <3>1. \A T \in C : IsFiniteSet(T)
        BY <1>1
      <3> HIDE DEF C
      <3> QED BY <1>4, <3>1, FewestOf
    <2>2. T \in SUBSET S /\ IsFiniteSet(T) /\ ~Splits(T)
      BY <1>1, <2>1
    <2>3. T # {}
      <3>1. {} \cup U = U /\ sumOf({}) = 0
        BY SumOfNone
      <3>2. Splits({})
        BY <1>3, <3>1
      <3> HIDE DEF Splits
      <3> QED BY <2>2, <3>2
    <2>4. PICK x \in T : TRUE
      BY <2>3
    <2> DEFINE V == T \ {x}
    <2>5. V \in SUBSET S /\ Cardinality(V) = Cardinality(T) - 1 /\ Cardinality(T) \in Nat
      BY <2>2, FS_RemoveElement, FS_CardinalityType
    <2>6. (T \cup U) \ {x} = V \cup U /\ x \in T \cup U
      BY <2>2, <2>4
    <2>7. sumOf(T \cup U) = fun[x] + sumOf(V \cup U)
      <3>1. IsFiniteSet(T \cup U) /\ \A y \in T \cup U : fun[y] \in Int
        BY <1>1, <2>2
      <3> QED BY <2>6, <3>1, SumRemoves
    <2>8. sumOf(T) = fun[x] + sumOf(V) /\ fun[x] \in Int
      BY <1>1, <2>2, SumRemoves
    <2> HIDE DEF V
    <2>9. Splits(V)
      <3>1. ~(Cardinality(T) <= Cardinality(V))
        BY <2>5
      <3>2. V \notin C
        BY <2>1, <3>1
      <3> HIDE DEF Splits
      <3> QED BY <2>5, <3>2
    <2> HIDE DEF sumOf
    <2>10. sumOf(V) \in Int
      BY <1>2, <2>5
    <2>11. sumOf(T \cup U) = sumOf(T) + sumOf(U)
      BY <1>3, <2>7, <2>8, <2>9, <2>10
    <2> QED BY <2>2, <2>11
  <1>5. S \notin C
    <2> HIDE DEF C
    <2> QED BY <1>4
  <1> QED BY <1>5

-----------------------------------------------------------------------------
(* Rounding, the greatest value and the nearest rank. *)

LEMMA DivisionBounds ==
    ASSUME NEW m \in Int, NEW k \in Nat, k > 0
    PROVE  m \div k \in Int /\ k * (m \div k) <= m /\ m < k * (m \div k) + k
  OBVIOUS

LEMMA TimesKeepsOrder ==
    ASSUME NEW a \in Int, NEW b \in Int, NEW k \in Nat, a <= b
    PROVE  a * k <= b * k /\ k * a <= k * b
  <1>1. (b - a) * k >= 0
    OBVIOUS
  <1>2. (b - a) * k = b * k - a * k
    OBVIOUS
  <1>3. a * k \in Int /\ b * k \in Int /\ a * k = k * a /\ b * k = k * b
    OBVIOUS
  <1> QED BY <1>1, <1>2, <1>3

\* A quotient is rounded to the nearest number, and up from a half.
LEMMA RoundedIsNearest ==
    ASSUME NEW n \in Int, NEW d \in Nat, d > 0, NEW q \in Int
    PROVE  /\ Rounded(n, d) \in Int
           /\ q <= Rounded(n, d) <=> 2 * (q * d) <= 2 * n + d
  <1> DEFINE m == 2 * n + d
             k == 2 * d
             r == m \div k
  <1>1. m \in Int /\ k \in Nat /\ k > 0
    OBVIOUS
  <1>2. Rounded(n, d) = r
    BY DEF Rounded
  <1>3. r \in Int /\ k * r <= m /\ m < k * r + k
    <2> HIDE DEF m, k
    <2> QED BY <1>1, DivisionBounds
  <1>4. 2 * (q * d) = k * q
    <2>1. q * d \in Int /\ 2 * (q * d) = (2 * d) * q
      OBVIOUS
    <2> QED BY <2>1
  <1> HIDE DEF m, k, r
  <1> DEFINE kq == k * q
             kr == k * r
  <1>5. kq \in Int /\ kr \in Int /\ kr <= m /\ m < kr + k
    BY <1>1, <1>3
  <1>6. q <= r => kq <= kr
    BY <1>1, <1>3, TimesKeepsOrder
  <1>7. r + 1 <= q => kr + k <= kq
    <2>1. r + 1 \in Int /\ k * (r + 1) = kr + k
      BY <1>1, <1>3
    <2>2. r + 1 <= q => k * (r + 1) <= kq
      BY <1>1, <2>1, TimesKeepsOrder
    <2> QED BY <2>1, <2>2
  <1> HIDE DEF kq, kr
  <1>8. q <= r <=> kq <= m
    BY <1>1, <1>3, <1>5, <1>6, <1>7
  <1> QED BY <1>2, <1>3, <1>4, <1>8 DEF m, kq

LEMMA RoundedAtMost ==
    ASSUME NEW n \in Int, NEW d \in Nat, d > 0, NEW c \in Int, n <= c * d
    PROVE  Rounded(n, d) \in Int /\ Rounded(n, d) <= c
  <1>1. Rounded(n, d) \in Int
    BY RoundedIsNearest
  <1>2. c + 1 <= Rounded(n, d) <=> 2 * ((c + 1) * d) <= 2 * n + d
    BY RoundedIsNearest
  <1>3. c * d \in Int /\ (c + 1) * d = c * d + d
    OBVIOUS
  <1>4. ~(2 * ((c + 1) * d) <= 2 * n + d)
    BY <1>3
  <1> QED BY <1>1, <1>2, <1>4

LEMMA RoundedAtLeast ==
    ASSUME NEW n \in Int, NEW d \in Nat, d > 0, NEW c \in Int, c * d <= n
    PROVE  Rounded(n, d) \in Int /\ c <= Rounded(n, d)
  <1>1. c * d \in Int
    OBVIOUS
  <1>2. 2 * (c * d) <= 2 * n + d
    BY <1>1
  <1> QED BY <1>2, RoundedIsNearest

LEMMA RoundedRises ==
    ASSUME NEW n \in Int, NEW m \in Int, NEW d \in Nat, d > 0, n <= m
    PROVE  /\ Rounded(n, d) \in Int /\ Rounded(m, d) \in Int
           /\ Rounded(n, d) <= Rounded(m, d)
  <1> DEFINE q == Rounded(n, d)
  <1>1. q \in Int
    BY RoundedIsNearest
  <1>2. 2 * (q * d) <= 2 * n + d
    BY <1>1, RoundedIsNearest
  <1> HIDE DEF q
  <1>3. q * d \in Int
    BY <1>1
  <1>4. 2 * (q * d) <= 2 * m + d
    BY <1>2, <1>3
  <1>5. q <= Rounded(m, d) /\ Rounded(m, d) \in Int
    BY <1>1, <1>4, RoundedIsNearest
  <1> QED BY <1>1, <1>5 DEF q

\* A finite set of numbers has a greatest one.
LEMMA GreatestOf ==
    ASSUME NEW S \in SUBSET Int, IsFiniteSet(S), S # {}
    PROVE  Max(S) \in S /\ \A y \in S : Max(S) >= y
  <1> DEFINE above(x) == {y \in S : y > x}
             C == {above(x) : x \in S}
  <1>1. \A x \in S : IsFiniteSet(above(x)) /\ Cardinality(above(x)) \in Nat
    BY FS_Subset, FS_CardinalityType
  <1>2. PICK T \in C : \A U \in C : Cardinality(T) <= Cardinality(U)
    <2>1. C # {} /\ \A T \in C : IsFiniteSet(T)
      BY <1>1
    <2> HIDE DEF C
    <2> QED BY <2>1, FewestOf
  <1>3. PICK x \in S : T = above(x)
    BY <1>2
  <1>4. ASSUME NEW y \in S PROVE x >= y
    <2> SUFFICES ASSUME y > x PROVE FALSE
      OBVIOUS
    <2>1. above(y) \in SUBSET above(x) /\ y \in above(x) /\ y \notin above(y)
      <3>1. \A z \in S : z \in Int
        OBVIOUS
      <3>2. ~(y > y) /\ \A z \in S : z > y => z > x
        BY <3>1
      <3>3. above(y) \in SUBSET above(x)
        BY <3>2
      <3>4. y \in above(x) /\ y \notin above(y)
        BY <3>2
      <3> QED BY <3>3, <3>4
    <2>2. Cardinality(above(x)) <= Cardinality(above(y))
      BY <1>2, <1>3
    <2> HIDE DEF above
    <2>3. /\ Cardinality(above(y)) <= Cardinality(above(x))
          /\ Cardinality(above(x)) = Cardinality(above(y)) => above(x) = above(y)
      BY <1>1, <2>1, FS_Subset
    <2>4. Cardinality(above(x)) = Cardinality(above(y))
      BY <1>1, <2>2, <2>3
    <2> QED BY <2>1, <2>3, <2>4
  <1>5. \E z \in S : \A y \in S : z >= y
    BY <1>4
  <1> QED BY <1>5 DEF Max

\* The values of a function on a finite set.
LEMMA RangeIsFinite ==
    ASSUME NEW g, IsFiniteSet(DOMAIN g)
    PROVE  IsFiniteSet(Range(g))
  <1>1. Range(g) \subseteq {g[x] : x \in DOMAIN g}
    BY DEF Range
  <1> QED BY <1>1, ImageIsSmaller

\* The positions that hold at most a value, and less than it.
UpTo(values, v)  == {i \in DOMAIN values : values[i] <= v}
Below(values, v) == {i \in DOMAIN values : values[i] < v}

LEMMA ValueAtRank ==
    ASSUME NEW values, IsFiniteSet(DOMAIN values), \A i \in DOMAIN values : values[i] \in Int,
           NEW rank \in 1 .. Cardinality(DOMAIN values)
    PROVE  \E v \in Range(values) : /\ Cardinality(Below(values, v)) < rank
                                    /\ rank <= Cardinality(UpTo(values, v))
  <1> DEFINE D == DOMAIN values
             card(v) == Cardinality(UpTo(values, v))
             C == {UpTo(values, v) : v \in {w \in Range(values) : rank <= card(w)}}
  <1>1. /\ \A v : /\ IsFiniteSet(UpTo(values, v)) /\ IsFiniteSet(Below(values, v))
                  /\ card(v) \in Nat /\ Cardinality(Below(values, v)) \in Nat
        /\ Cardinality(D) \in Nat /\ rank \in Nat /\ rank >= 1
    <2>1. \A v : UpTo(values, v) \in SUBSET D /\ Below(values, v) \in SUBSET D
      BY DEF UpTo, Below
    <2>2. Cardinality(D) \in Nat
      BY FS_CardinalityType
    <2> QED BY <2>1, <2>2, FS_Subset, FS_CardinalityType
  <1>2. ASSUME NEW I \in SUBSET D, I # {}
        PROVE  \E w \in Range(values) : (\E i \in I : w = values[i]) /\ \A i \in I : values[i] <= w
    <2> DEFINE S == {values[i] : i \in I}
    <2>1. S \in SUBSET Int /\ S # {}
      BY <1>2
    <2>2. IsFiniteSet(S)
      <3> DEFINE g == [i \in I |-> values[i]]
      <3>1. DOMAIN g = I /\ IsFiniteSet(I) /\ S = Range(g)
        BY FS_Subset DEF Range
      <3> HIDE DEF g
      <3> QED BY <3>1, RangeIsFinite
    <2>3. Max(S) \in S /\ \A y \in S : Max(S) >= y
      <3> HIDE DEF S
      <3> QED BY <2>1, <2>2, GreatestOf
    <2>4. PICK k \in I : Max(S) = values[k]
      BY <2>3
    <2>5. \A i \in I : values[i] \in S /\ values[i] \in Int
      OBVIOUS
    <2>6. \A i \in I : values[i] <= values[k]
      BY <2>3, <2>4, <2>5
    <2> QED BY <2>4, <2>6 DEF Range
  <1>3. C # {}
    <2>1. D # {}
      BY FS_EmptySet
    <2>2. PICK w \in Range(values) : \A i \in D : values[i] <= w
      BY <1>2, <2>1
    <2>3. UpTo(values, w) = D
      BY <2>2 DEF UpTo
    <2> QED BY <2>3
  <1>4. PICK v \in Range(values) : rank <= card(v) /\ \A w \in Range(values) : rank <= card(w) => card(v) <= card(w)
    <2>1. \A T \in C : IsFiniteSet(T)
      BY <1>1
    <2>2. PICK T \in C : \A U \in C : Cardinality(T) <= Cardinality(U)
      <3> HIDE DEF C
      <3> QED BY <1>3, <2>1, FewestOf
    <2> QED BY <2>2
  <1>5. Cardinality(Below(values, v)) < rank
    <2> SUFFICES ASSUME rank <= Cardinality(Below(values, v)) PROVE FALSE
      BY <1>1
    <2>1. Below(values, v) # {} /\ Below(values, v) \in SUBSET D
      <3>1. Cardinality(Below(values, v)) # 0
        BY <1>1
      <3>2. Below(values, v) # {}
        BY <3>1, FS_EmptySet
      <3> QED BY <3>2 DEF Below
    <2>2. PICK w \in Range(values) : /\ \E i \in Below(values, v) : w = values[i]
                                     /\ \A i \in Below(values, v) : values[i] <= w
      BY <1>2, <2>1
    <2>3. w \in Int /\ v \in Int /\ w < v
      BY <2>2 DEF Range, Below
    <2>4. UpTo(values, w) = Below(values, v)
      <3>1. \A i \in D : values[i] \in Int
        OBVIOUS
      <3>2. \A i \in D : values[i] <= w => values[i] < v
        BY <2>3, <3>1
      <3> QED BY <2>2, <3>2 DEF UpTo, Below
    <2>5. card(v) <= Cardinality(Below(values, v))
      BY <1>4, <2>4
    <2>6. /\ Below(values, v) \in SUBSET UpTo(values, v)
          /\ \E i \in UpTo(values, v) : i \notin Below(values, v)
      BY <2>3 DEF UpTo, Below, Range
    <2>7. /\ Cardinality(Below(values, v)) <= card(v)
          /\ card(v) = Cardinality(Below(values, v)) => UpTo(values, v) = Below(values, v)
      BY <1>1, <2>6, FS_Subset
    <2>8. card(v) = Cardinality(Below(values, v))
      BY <1>1, <2>5, <2>7
    <2> QED BY <2>6, <2>7, <2>8
  <1> QED BY <1>4, <1>5

\* The rank that percentile looks at.
RankOf(values, p) == Larger(1, (p * Cardinality(DOMAIN values) + 99) \div 100)

LEMMA RankIsWithin ==
    ASSUME NEW values, IsFiniteSet(DOMAIN values), DOMAIN values # {}, NEW p \in 0 .. 100
    PROVE  RankOf(values, p) \in 1 .. Cardinality(DOMAIN values)
  <1> DEFINE n == Cardinality(DOMAIN values)
             m == p * n + 99
             r == m \div 100
  <1>1. n \in Nat /\ n # 0
    BY FS_CardinalityType, FS_EmptySet
  <1> HIDE DEF n
  <1>2. p * n <= 100 * n /\ p * n \in Nat
    BY <1>1, TimesKeepsOrder
  <1>3. m \in Int
    BY <1>2
  <1>4. r \in Int /\ 100 * r <= m
    <2> HIDE DEF m
    <2> QED BY <1>3, DivisionBounds
  <1>5. r <= n
    BY <1>1, <1>2, <1>4
  <1> HIDE DEF r
  <1>6. Larger(1, r) \in 1 .. n
    BY <1>1, <1>4, <1>5 DEF Larger
  <1> QED BY <1>6 DEF RankOf, r, n

LEMMA RanksRise ==
    ASSUME NEW values, IsFiniteSet(DOMAIN values)
    PROVE  RankOf(values, 50) <= RankOf(values, 90)
  <1> DEFINE n == Cardinality(DOMAIN values)
             a == (50 * n + 99) \div 100
             b == (90 * n + 99) \div 100
  <1>1. n \in Nat
    BY FS_CardinalityType
  <1> HIDE DEF n
  <1>2. a \in Int /\ b \in Int /\ 100 * a <= 50 * n + 99 /\ 90 * n + 99 < 100 * b + 100
    BY <1>1
  <1>3. a <= b
    BY <1>1, <1>2
  <1> HIDE DEF a, b
  <1>4. Larger(1, a) <= Larger(1, b)
    BY <1>2, <1>3 DEF Larger
  <1> QED BY <1>4 DEF RankOf, n, a, b

LEMMA PercentileAtRank ==
    ASSUME NEW values, IsFiniteSet(DOMAIN values), \A i \in DOMAIN values : values[i] \in Int,
           NEW p \in 0 .. 100
    PROVE  /\ Percentile(values, p) \in Int
           /\ IF DOMAIN values = {} THEN Percentile(values, p) = 0
              ELSE /\ Percentile(values, p) \in Range(values)
                   /\ Cardinality(Below(values, Percentile(values, p))) < RankOf(values, p)
                   /\ RankOf(values, p) <= Cardinality(UpTo(values, Percentile(values, p)))
  <1> DEFINE At(v) == /\ Cardinality(Below(values, v)) < RankOf(values, p)
                      /\ RankOf(values, p) <= Cardinality(UpTo(values, v))
  <1>1. Percentile(values, p) = IF DOMAIN values = {} THEN 0 ELSE CHOOSE v \in Range(values) : At(v)
    BY DEF Percentile, RankOf, UpTo, Below
  <1>2. CASE DOMAIN values = {}
    BY <1>1, <1>2
  <1>3. CASE DOMAIN values # {}
    <2>1. \E v \in Range(values) : At(v)
      BY <1>3, RankIsWithin, ValueAtRank
    <2> HIDE DEF At
    <2>2. Percentile(values, p) \in Range(values) /\ At(Percentile(values, p))
      BY <1>1, <1>3, <2>1
    <2>3. Percentile(values, p) \in Int
      BY <2>2 DEF Range
    <2> QED BY <1>3, <2>2, <2>3 DEF At
  <1> QED BY <1>2, <1>3

LEMMA PercentilesRise ==
    ASSUME NEW values, IsFiniteSet(DOMAIN values), \A i \in DOMAIN values : values[i] \in Int
    PROVE  Percentile(values, 50) <= Percentile(values, 90)
  <1> DEFINE a == Percentile(values, 50)
             b == Percentile(values, 90)
  <1>1. a \in Int /\ b \in Int
    BY PercentileAtRank
  <1>2. CASE DOMAIN values = {}
    <2>1. a = 0 /\ b = 0
      BY <1>2, PercentileAtRank
    <2> QED BY <2>1
  <1>3. CASE DOMAIN values # {}
    <2>1. /\ Cardinality(Below(values, a)) < RankOf(values, 50)
          /\ RankOf(values, 90) <= Cardinality(UpTo(values, b))
      <3>1. 50 \in 0 .. 100 /\ 90 \in 0 .. 100
        OBVIOUS
      <3>2. \A p \in 0 .. 100 :
              /\ Cardinality(Below(values, Percentile(values, p))) < RankOf(values, p)
              /\ RankOf(values, p) <= Cardinality(UpTo(values, Percentile(values, p)))
        BY <1>3, PercentileAtRank
      <3> QED BY <3>1, <3>2
    <2>2. /\ RankOf(values, 50) \in Nat /\ RankOf(values, 90) \in Nat
          /\ RankOf(values, 50) <= RankOf(values, 90)
      <3>1. Cardinality(DOMAIN values) \in Nat
        BY FS_CardinalityType
      <3>2. /\ RankOf(values, 50) \in 1 .. Cardinality(DOMAIN values)
            /\ RankOf(values, 90) \in 1 .. Cardinality(DOMAIN values)
        BY <1>3, RankIsWithin
      <3> QED BY <3>1, <3>2, RanksRise
    <2> HIDE DEF a, b
    <2> SUFFICES ASSUME ~(a <= b) PROVE FALSE
      BY DEF a, b
    <2>3. UpTo(values, b) \in SUBSET Below(values, a) /\ IsFiniteSet(Below(values, a))
      <3>1. \A i \in DOMAIN values : values[i] <= b => values[i] < a
        BY <1>1
      <3>2. Below(values, a) \in SUBSET DOMAIN values
        BY DEF Below
      <3> QED BY <3>1, <3>2, FS_Subset DEF UpTo, Below
    <2>4. /\ Cardinality(UpTo(values, b)) <= Cardinality(Below(values, a))
          /\ Cardinality(UpTo(values, b)) \in Nat /\ Cardinality(Below(values, a)) \in Nat
      BY <2>3, FS_Subset, FS_CardinalityType
    <2> QED BY <2>1, <2>2, <2>4
  <1> QED BY <1>2, <1>3

-----------------------------------------------------------------------------
(* The figures. *)

\* Rows that grow one snapshot at a time.
Grows(u, snaps, l) ==
    /\ DOMAIN u = 0 .. Len(snaps) /\ u = [n \in 0 .. Len(snaps) |-> u[n]]
    /\ u[0] = NoRow
    /\ \A n \in 1 .. Len(snaps) : u[n] = WithSnapshot(u[n - 1], snaps[n], l)

\* The row of a sequence of snapshots is the last of those.
LEMMA RowGrows ==
    ASSUME NEW S, NEW snaps \in Seq(S), NEW l
    PROVE  \E u : Grows(u, snaps, l) /\ RowOfSnapshots(snaps, l) = u[Len(snaps)]
  <1> DEFINE N == Len(snaps)
             Upto(u, k) == /\ u = [n \in 0 .. k |-> u[n]] /\ u[0] = NoRow
                           /\ \A n \in 1 .. k : u[n] = WithSnapshot(u[n - 1], snaps[n], l)
             Missing == {k \in Nat : k <= N /\ ~(\E u : Upto(u, k))}
  <1>1. N \in Nat
    OBVIOUS
  <1> HIDE DEF N
  <1>2. Missing = {}
    <2> SUFFICES ASSUME Missing # {} PROVE FALSE
      OBVIOUS
    <2>1. PICK m \in Missing : \A i \in Missing : m <= i
      <3>1. Missing \in SUBSET Nat
        OBVIOUS
      <3> HIDE DEF Missing
      <3> QED BY <3>1, LeastOf
    <2>2. m \in Nat /\ m <= N /\ ~(\E u : Upto(u, m))
      BY <2>1
    <2>3. m # 0
      <3> DEFINE u == [n \in 0 .. 0 |-> NoRow]
      <3>1. u = [n \in 0 .. 0 |-> u[n]] /\ u[0] = NoRow
        OBVIOUS
      <3> HIDE DEF u
      <3>2. Upto(u, 0)
        BY <3>1
      <3> HIDE DEF Upto
      <3> QED BY <2>2, <3>2
    <2>4. PICK u : Upto(u, m - 1)
      <3>1. m - 1 \in Nat /\ m - 1 <= N /\ m - 1 \notin Missing
        BY <1>1, <2>1, <2>2, <2>3
      <3> HIDE DEF Upto
      <3> QED BY <3>1
    <2> DEFINE v == [n \in 0 .. m |-> IF n = m THEN WithSnapshot(u[m - 1], snaps[m], l) ELSE u[n]]
    <2>5. /\ v = [n \in 0 .. m |-> v[n]] /\ v[m] = WithSnapshot(u[m - 1], snaps[m], l)
          /\ \A n \in 0 .. m - 1 : v[n] = u[n]
      BY <2>2, <2>3
    <2> HIDE DEF v
    <2>6. v[0] = NoRow
      BY <2>2, <2>3, <2>4, <2>5
    <2>7. ASSUME NEW n \in 1 .. m PROVE v[n] = WithSnapshot(v[n - 1], snaps[n], l)
      <3>1. CASE n = m
        <4>1. m - 1 \in 0 .. m - 1
          BY <2>2, <2>3
        <4> QED BY <2>5, <3>1, <4>1
      <3>2. CASE n # m
        <4>1. n \in 1 .. m - 1 /\ n \in 0 .. m - 1 /\ n - 1 \in 0 .. m - 1
          BY <2>2, <3>2
        <4> QED BY <2>4, <2>5, <4>1
      <3> QED BY <3>1, <3>2
    <2>8. Upto(v, m)
      BY <2>5, <2>6, <2>7
    <2> HIDE DEF Upto
    <2> QED BY <2>2, <2>8
  <1>3. PICK w : Upto(w, N)
    <2>1. N \notin Missing
      BY <1>2
    <2> HIDE DEF Upto
    <2> QED BY <1>1, <2>1
  <1> DEFINE Eq(u) == u = [n \in 0 .. N |-> IF n = 0 THEN NoRow ELSE WithSnapshot(u[n - 1], snaps[n], l)]
             c == CHOOSE u : Eq(u)
  <1>4. Eq(w)
    <2>1. ASSUME NEW n \in 0 .. N
          PROVE  w[n] = IF n = 0 THEN NoRow ELSE WithSnapshot(w[n - 1], snaps[n], l)
      BY <1>1, <1>3
    <2>2. w = [n \in 0 .. N |-> w[n]]
      BY <1>3
    <2> QED BY <2>1, <2>2
  <1>5. Eq(c)
    <2> HIDE DEF Eq
    <2> QED BY <1>4
  <1>6. RowOfSnapshots(snaps, l) = c[N]
    BY DEF RowOfSnapshots, N
  <1> HIDE DEF c
  <1>7. Grows(c, snaps, l)
    <2>1. DOMAIN c = 0 .. N /\ c = [n \in 0 .. N |-> c[n]] /\ c[0] = NoRow
      BY <1>1, <1>5
    <2>2. ASSUME NEW n \in 1 .. N PROVE c[n] = WithSnapshot(c[n - 1], snaps[n], l)
      BY <1>1, <1>5
    <2> QED BY <2>1, <2>2 DEF Grows, N
  <1> QED BY <1>6, <1>7 DEF N

LEMMA RowOfMore ==
    ASSUME NEW S, NEW snaps \in Seq(S), NEW snap \in S, NEW l
    PROVE  RowOfSnapshots(Append(snaps, snap), l) = WithSnapshot(RowOfSnapshots(snaps, l), snap, l)
  <1> DEFINE more == Append(snaps, snap)
             N == Len(snaps)
  <1>1. /\ more \in Seq(S) /\ N \in Nat /\ Len(more) = N + 1 /\ more[N + 1] = snap
        /\ \A n \in 1 .. N : more[n] = snaps[n]
    OBVIOUS
  <1> HIDE DEF more
  <1>2. PICK u : Grows(u, snaps, l) /\ RowOfSnapshots(snaps, l) = u[N]
    BY RowGrows
  <1>3. PICK v : Grows(v, more, l) /\ RowOfSnapshots(more, l) = v[N + 1]
    <2>1. \E v : Grows(v, more, l) /\ RowOfSnapshots(more, l) = v[Len(more)]
      BY <1>1, RowGrows
    <2> QED BY <1>1, <2>1
  <1> HIDE DEF N
  <1>4. /\ u[0] = NoRow /\ v[0] = NoRow
        /\ \A n \in 1 .. N : u[n] = WithSnapshot(u[n - 1], snaps[n], l)
        /\ \A n \in 1 .. N + 1 : v[n] = WithSnapshot(v[n - 1], more[n], l)
    BY <1>1, <1>2, <1>3 DEF Grows, N
  <1> DEFINE Apart == {n \in Nat : n <= N /\ u[n] # v[n]}
  <1>5. Apart = {}
    <2> SUFFICES ASSUME Apart # {} PROVE FALSE
      OBVIOUS
    <2>1. PICK m \in Apart : \A i \in Apart : m <= i
      <3>1. Apart \in SUBSET Nat
        OBVIOUS
      <3> HIDE DEF Apart
      <3> QED BY <3>1, LeastOf
    <2>2. m \in Nat /\ m <= N /\ u[m] # v[m] /\ m # 0
      BY <1>4, <2>1
    <2>3. m - 1 \in Nat /\ m - 1 <= N /\ m - 1 \notin Apart /\ m \in 1 .. N /\ m \in 1 .. N + 1
      BY <1>1, <2>1, <2>2
    <2>4. u[m - 1] = v[m - 1]
      BY <2>3
    <2> HIDE DEF Apart
    <2>5. u[m] = WithSnapshot(u[m - 1], snaps[m], l) /\ v[m] = WithSnapshot(v[m - 1], snaps[m], l)
      BY <1>1, <1>4, <2>3
    <2> QED BY <2>2, <2>4, <2>5
  <1>6. u[N] = v[N]
    BY <1>1, <1>5
  <1>7. v[N + 1] = WithSnapshot(v[N], snap, l)
    <2>1. N + 1 \in 1 .. N + 1 /\ (N + 1) - 1 = N
      BY <1>1
    <2>2. v[N + 1] = WithSnapshot(v[(N + 1) - 1], more[N + 1], l)
      BY <1>4, <2>1
    <2> QED BY <1>1, <2>1, <2>2
  <1> QED BY <1>2, <1>3, <1>6, <1>7 DEF more

LEMMA RowOfNone ==
    ASSUME NEW l
    PROVE  RowOfSnapshots(<<>>, l) = NoRow
  <1>1. <<>> \in Seq({}) /\ Len(<<>>) = 0
    OBVIOUS
  <1>2. PICK u : Grows(u, <<>>, l) /\ RowOfSnapshots(<<>>, l) = u[Len(<<>>)]
    BY <1>1, RowGrows
  <1> QED BY <1>1, <1>2 DEF Grows

\* The columns a backfill takes from the snapshots as the sampler does.
Told == Counters \ (PeakFields \cup Approximated)

\* The counters behind the peak and off-peak halves.
Halved == {"peakTracked", "peakDelayed", "offPeakTracked", "offPeakDelayed", "tracked", "delayed"}

\* Each row agrees with the snapshots, and its halves add up.
Agrees(row, snaps, l) ==
    /\ DOMAIN row = Counters /\ row = [f \in Counters |-> row[f]]
    /\ \A f \in Halved : row[f] \in Nat
    /\ \A f \in Told : row[f] = RowOfSnapshots(snaps, l)[f]
    /\ row["peakTracked"] + row["offPeakTracked"] = row["tracked"]
    /\ row["peakDelayed"] + row["offPeakDelayed"] = row["delayed"]

FiguresInv ==
    /\ \A d \in Period : sampled[d] \in Seq({sampled[d][i] : i \in DOMAIN sampled[d]})
    /\ DOMAIN sampled = Period /\ DOMAIN rowOf = Period
    /\ \A d \in Period, l \in Badges : Agrees(rowOf[d][l], sampled[d], l)

LEMMA FieldNames ==
    /\ Halved \subseteq Counters /\ Told \subseteq Counters
    /\ {"tracked", "delayed"} \subseteq Told /\ Told \cap PeakFields = {}
    /\ Halved \cap Greatest = {} /\ {"peakTracked", "peakDelayed", "offPeakTracked", "offPeakDelayed"} \subseteq PeakFields
  BY DEF Halved, Told, Counters, PeakFields, Approximated, Greatest

\* What a snapshot adds to a row: the same to either, in the columns it tells.
LEMMA IncrementFacts ==
    ASSUME NEW s, s.tracked \in Nat, s.delayed \in Nat, s.peak \in BOOLEAN
    PROVE  /\ \A f \in Told : Rebuilt(s)[f] = Increment(s)[f]
           /\ \A f \in Halved : Increment(s)[f] \in Nat
           /\ Increment(s)["peakTracked"] + Increment(s)["offPeakTracked"] = Increment(s)["tracked"]
           /\ Increment(s)["peakDelayed"] + Increment(s)["offPeakDelayed"] = Increment(s)["delayed"]
  <1>1. \A f \in Told : Rebuilt(s)[f] = Increment(s)[f]
    <2> DEFINE scored == s.avgOccupancy > 0 \/ s.crowded > 0
               R == [f \in Counters |->
                      CASE f \in PeakFields -> 0
                        [] f = "scoreSum"   -> IF scored THEN s.avgOccupancy * s.vehicles ELSE 0
                        [] f = "scored"     -> IF scored THEN s.vehicles ELSE 0
                        [] f = "minutes"    -> IF s.disruptions > 0 THEN 5 ELSE 0
                        [] OTHER            -> Increment(s)[f]]
    <2>1. Rebuilt(s) = R
      BY DEF Rebuilt
    <2>2. ASSUME NEW f \in Told PROVE R[f] = Increment(s)[f]
      <3>1. f \in Counters /\ f \notin PeakFields /\ f # "scoreSum" /\ f # "scored" /\ f # "minutes"
        BY DEF Told, Approximated
      <3> QED BY <3>1
    <2> QED BY <2>1, <2>2
  <1>2. /\ Increment(s)["tracked"] = s.tracked /\ Increment(s)["delayed"] = s.delayed
        /\ Increment(s)["peakTracked"] = IF s.peak THEN s.tracked ELSE 0
        /\ Increment(s)["peakDelayed"] = IF s.peak THEN s.delayed ELSE 0
        /\ Increment(s)["offPeakTracked"] = IF s.peak THEN 0 ELSE s.tracked
        /\ Increment(s)["offPeakDelayed"] = IF s.peak THEN 0 ELSE s.delayed
    BY DEF Increment
  <1>3. \A f \in Halved : Increment(s)[f] \in Nat
    BY <1>2 DEF Halved
  <1>4. /\ Increment(s)["peakTracked"] + Increment(s)["offPeakTracked"] = Increment(s)["tracked"]
        /\ Increment(s)["peakDelayed"] + Increment(s)["offPeakDelayed"] = Increment(s)["delayed"]
    BY <1>2
  <1> QED BY <1>1, <1>3, <1>4

LEMMA AddKeeps ==
    ASSUME NEW row, NEW S, NEW snaps \in Seq(S), NEW snap \in S, NEW l, Agrees(row, snaps, l),
           l \in DOMAIN snap, snap[l].tracked \in Nat, snap[l].delayed \in Nat, snap[l].peak \in BOOLEAN
    PROVE  Agrees(AddRow(row, Increment(snap[l])), Append(snaps, snap), l)
  <1> DEFINE s == snap[l]
             inc == Increment(s)
             new == AddRow(row, inc)
             old == RowOfSnapshots(snaps, l)
             after == RowOfSnapshots(Append(snaps, snap), l)
  <1>1. after = AddRow(old, Rebuilt(s))
    BY RowOfMore DEF WithSnapshot
  <1>2. /\ \A f \in Told : Rebuilt(s)[f] = inc[f]
        /\ \A f \in Halved : inc[f] \in Nat
        /\ inc["peakTracked"] + inc["offPeakTracked"] = inc["tracked"]
        /\ inc["peakDelayed"] + inc["offPeakDelayed"] = inc["delayed"]
    BY IncrementFacts
  <1> HIDE DEF s, inc
  <1>3. /\ DOMAIN new = Counters /\ new = [f \in Counters |-> new[f]]
        /\ \A f \in Counters : new[f] = IF f \in Greatest THEN Larger(row[f], inc[f]) ELSE row[f] + inc[f]
    BY DEF AddRow
  <1>4. \A f \in Counters : after[f] = IF f \in Greatest THEN Larger(old[f], Rebuilt(s)[f])
                                       ELSE old[f] + Rebuilt(s)[f]
    BY <1>1 DEF AddRow
  <1> HIDE DEF new, old, after
  <1>5. \A f \in Told : row[f] = old[f]
    BY DEF Agrees, old
  <1>6. \A f \in Told : new[f] = after[f]
    BY <1>2, <1>3, <1>4, <1>5, FieldNames
  <1>7. \A f \in Halved : new[f] = row[f] + inc[f] /\ row[f] \in Nat
    BY <1>3, FieldNames DEF Agrees
  <1>8. \A f \in Halved : new[f] \in Nat
    BY <1>2, <1>7
  <1>9. /\ new["peakTracked"] + new["offPeakTracked"] = new["tracked"]
        /\ new["peakDelayed"] + new["offPeakDelayed"] = new["delayed"]
    <2>1. /\ row["peakTracked"] + row["offPeakTracked"] = row["tracked"]
          /\ row["peakDelayed"] + row["offPeakDelayed"] = row["delayed"]
      BY DEF Agrees
    <2>2. \A f \in {"peakTracked", "peakDelayed", "offPeakTracked", "offPeakDelayed", "tracked", "delayed"} :
            new[f] = row[f] + inc[f] /\ row[f] \in Nat /\ inc[f] \in Nat
      BY <1>2, <1>7 DEF Halved
    <2>3. /\ new["peakTracked"] = row["peakTracked"] + inc["peakTracked"]
          /\ new["offPeakTracked"] = row["offPeakTracked"] + inc["offPeakTracked"]
          /\ new["tracked"] = row["tracked"] + inc["tracked"]
          /\ new["peakDelayed"] = row["peakDelayed"] + inc["peakDelayed"]
          /\ new["offPeakDelayed"] = row["offPeakDelayed"] + inc["offPeakDelayed"]
          /\ new["delayed"] = row["delayed"] + inc["delayed"]
      BY <2>2
    <2>4. ASSUME NEW a \in {"peakTracked", "peakDelayed"}, NEW b \in {"offPeakTracked", "offPeakDelayed"},
                 NEW c \in {"tracked", "delayed"}, row[a] + row[b] = row[c], inc[a] + inc[b] = inc[c]
          PROVE  (row[a] + inc[a]) + (row[b] + inc[b]) = row[c] + inc[c]
      <3> DEFINE ra == row[a]
                 rb == row[b]
                 ia == inc[a]
                 ib == inc[b]
      <3>1. ra \in Nat /\ rb \in Nat /\ ia \in Nat /\ ib \in Nat /\ row[c] = ra + rb /\ inc[c] = ia + ib
        BY <2>2, <2>4
      <3> HIDE DEF ra, rb, ia, ib
      <3>2. (ra + ia) + (rb + ib) = (ra + rb) + (ia + ib)
        BY <3>1
      <3> QED BY <3>1, <3>2 DEF ra, rb, ia, ib
    <2>5. /\ (row["peakTracked"] + inc["peakTracked"]) + (row["offPeakTracked"] + inc["offPeakTracked"])
               = row["tracked"] + inc["tracked"]
          /\ (row["peakDelayed"] + inc["peakDelayed"]) + (row["offPeakDelayed"] + inc["offPeakDelayed"])
               = row["delayed"] + inc["delayed"]
      BY <1>2, <2>1, <2>4
    <2> QED BY <2>3, <2>5
  <1> QED BY <1>3, <1>6, <1>8, <1>9 DEF Agrees, new, inc, s, after

\* What a sample counts are numbers.
LEMMA SnapshotCounts ==
    ASSUME NEW in \in Inputs, NEW d \in Period, NEW l
    PROVE  LET s == Accumulate(in, d, l)
           IN  s.tracked \in Nat /\ s.delayed \in Nat /\ s.peak \in BOOLEAN
  <1> DEFINE T == Tracked(in, l)
             A == Active(in, l)
             late == {t \in A : in.trips[t].delay > Threshold}
             s == Accumulate(in, d, l)
  <1>1. s.tracked = Cardinality(T) /\ s.delayed = Cardinality(late) /\ s.peak = in.peak
    BY DEF Accumulate, SnapshotOf
  <1>2. IsFiniteSet(T) /\ IsFiniteSet(late)
    <2>1. T \subseteq Trips /\ late \subseteq Trips
      BY DEF Tracked, Active
    <2> QED BY <2>1, LinePerformanceAssumption, FS_Subset
  <1>3. in.peak \in BOOLEAN
    BY LinePerformanceAssumption
  <1> HIDE DEF T, late, s
  <1> QED BY <1>1, <1>2, <1>3, FS_CardinalityType DEF s

LEMMA FiguresInitInv == FiguresInit => FiguresInv
  <1> SUFFICES ASSUME FiguresInit PROVE FiguresInv
    OBVIOUS
  <1>1. \A d \in Period : sampled[d] = <<>>
    BY DEF FiguresInit
  <1>2. \A d \in Period, l \in Badges : rowOf[d][l] = NoRow
    BY DEF FiguresInit
  <1>3. \A f \in Counters : NoRow[f] = 0
    BY DEF NoRow
  <1>4. DOMAIN NoRow = Counters /\ NoRow = [f \in Counters |-> NoRow[f]]
    BY DEF NoRow
  <1>5. \A l : Agrees(NoRow, <<>>, l)
    <2> TAKE l
    <2>1. RowOfSnapshots(<<>>, l) = NoRow
      BY RowOfNone
    <2>2. \A f \in Halved : NoRow[f] = 0
      BY <1>3, FieldNames
    <2> HIDE DEF NoRow
    <2> QED BY <1>4, <2>1, <2>2 DEF Agrees, Halved
  <1>6. DOMAIN sampled = Period
    BY DEF FiguresInit
  <1>7. DOMAIN rowOf = Period
    BY DEF FiguresInit
  <1>8. <<>> \in Seq({<<>>[i] : i \in DOMAIN <<>>})
    OBVIOUS
  <1> QED BY <1>1, <1>2, <1>5, <1>6, <1>7, <1>8 DEF FiguresInv

LEMMA SampleKeeps ==
    ASSUME FiguresInv, NEW d \in Period, NEW in \in Inputs, TakeSample(d, in)
    PROVE  FiguresInv'
  <1> DEFINE lines == LinesIn(in)
             snap  == [l \in lines |-> Accumulate(in, d, l)]
             S == {sampled[d][i] : i \in DOMAIN sampled[d]} \cup {snap}
  <1>1. /\ sampled' = [sampled EXCEPT ![d] = Append(@, snap)]
        /\ rowOf' = [rowOf EXCEPT ![d] =
                       [l \in Badges |-> IF l \in lines THEN AddRow(@[l], Increment(snap[l])) ELSE @[l]]]
    BY DEF TakeSample
  <1>2. \A l \in lines : snap[l].tracked \in Nat /\ snap[l].delayed \in Nat /\ snap[l].peak \in BOOLEAN
    BY SnapshotCounts
  <1>3. DOMAIN snap = lines
    OBVIOUS
  <1> HIDE DEF lines, snap
  <1>4. sampled[d] \in Seq(S) /\ snap \in S
    <2> DEFINE P == {sampled[d][i] : i \in DOMAIN sampled[d]}
    <2>1. sampled[d] \in Seq(P)
      BY DEF FiguresInv
    <2> HIDE DEF P
    <2>2. sampled[d] \in Seq(P \cup {snap})
      BY <2>1
    <2> QED BY <2>2 DEF P
  <1>5. /\ DOMAIN sampled' = Period /\ sampled'[d] = Append(sampled[d], snap)
        /\ \A e \in Period : e # d => sampled'[e] = sampled[e]
    BY <1>1 DEF FiguresInv
  <1>6. ASSUME NEW e \in Period
        PROVE  sampled'[e] \in Seq({sampled'[e][i] : i \in DOMAIN sampled'[e]})
    <2> DEFINE x == sampled'[e]
    <2>1. \E T : x \in Seq(T)
      <3>1. CASE e = d
        <4>1. Append(sampled[d], snap) \in Seq(S)
          <5> HIDE DEF S
          <5> QED BY <1>4
        <4> QED BY <1>5, <3>1, <4>1
      <3>2. CASE e # d
        BY <1>5, <3>2 DEF FiguresInv
      <3> QED BY <3>1, <3>2
    <2> HIDE DEF x
    <2>2. x \in Seq({x[i] : i \in DOMAIN x})
      BY <2>1
    <2> QED BY <2>2 DEF x
  <1>7. ASSUME NEW e \in Period, NEW l \in Badges
        PROVE  Agrees(rowOf'[e][l], sampled'[e], l)
    <2>1. CASE e # d
      <3>1. rowOf'[e][l] = rowOf[e][l]
        BY <1>1, <2>1
      <3> QED BY <1>5, <2>1, <3>1 DEF FiguresInv
    <2>2. CASE e = d
      <3>1. DOMAIN rowOf = Period
        BY DEF FiguresInv
      <3>2. rowOf'[e][l] = IF l \in lines THEN AddRow(rowOf[d][l], Increment(snap[l])) ELSE rowOf[d][l]
        BY <1>1, <2>2, <3>1
      <3>3. Agrees(rowOf[d][l], sampled[d], l)
        BY DEF FiguresInv
      <3>4. CASE l \in lines
        <4>1. Agrees(AddRow(rowOf[d][l], Increment(snap[l])), Append(sampled[d], snap), l)
          BY <1>2, <1>3, <1>4, <3>3, <3>4, AddKeeps
        <4> QED BY <1>5, <2>2, <3>2, <3>4, <4>1
      <3>5. CASE l \notin lines
        <4>1. RowOfSnapshots(Append(sampled[d], snap), l) = RowOfSnapshots(sampled[d], l)
          <5> HIDE DEF S
          <5> QED BY <1>3, <1>4, <3>5, RowOfMore DEF WithSnapshot
        <4> QED BY <1>5, <2>2, <3>2, <3>3, <3>5, <4>1 DEF Agrees
      <3> QED BY <3>4, <3>5
    <2> QED BY <2>1, <2>2
  <1>8. DOMAIN rowOf' = Period
    BY <1>1 DEF FiguresInv
  <1> QED BY <1>5, <1>6, <1>7, <1>8 DEF FiguresInv

LEMMA RebuildRowsKeeps ==
    ASSUME FiguresInv, RebuildRows
    PROVE  FiguresInv'
  <1>1. /\ sampled' = sampled
        /\ rowOf' = [d \in Period |-> [l \in Badges |->
                   IF \E i \in DOMAIN sampled[d] : l \in DOMAIN sampled[d][i]
                   THEN [f \in Counters |-> IF f \in PeakFields THEN rowOf[d][l][f] ELSE RowFromSnapshots(d, l)[f]]
                   ELSE rowOf[d][l]]]
    BY DEF RebuildRows
  <1>2. ASSUME NEW d \in Period, NEW l \in Badges
        PROVE  Agrees(rowOf'[d][l], sampled[d], l)
    <2> DEFINE row == rowOf[d][l]
               of == RowOfSnapshots(sampled[d], l)
               new == [f \in Counters |-> IF f \in PeakFields THEN row[f] ELSE of[f]]
    <2>1. Agrees(row, sampled[d], l)
      BY DEF FiguresInv
    <2>2. rowOf'[d][l] = new \/ rowOf'[d][l] = row
      BY <1>1 DEF RowFromSnapshots
    <2>3. /\ DOMAIN new = Counters /\ new = [f \in Counters |-> new[f]]
          /\ \A f \in Counters : new[f] = IF f \in PeakFields THEN row[f] ELSE of[f]
      OBVIOUS
    <2> HIDE DEF new, row
    <2>4. \A f \in Told : new[f] = of[f] /\ of[f] = row[f]
      BY <2>1, <2>3, FieldNames DEF Agrees
    <2> HIDE DEF of
    <2>5. \A f \in Halved : new[f] = row[f]
      BY <2>3, <2>4, FieldNames DEF Halved
    <2>6. Agrees(new, sampled[d], l)
      BY <2>1, <2>3, <2>4, <2>5 DEF Agrees, Halved, of
    <2> QED BY <2>1, <2>2, <2>6 DEF row
  <1>3. DOMAIN rowOf' = Period
    BY <1>1
  <1> QED BY <1>1, <1>2, <1>3 DEF FiguresInv

LEMMA FiguresInductive == FiguresSpec => []FiguresInv
  <1>1. FiguresInv /\ [FiguresNext]_figureVars => FiguresInv'
    <2> SUFFICES ASSUME FiguresInv, [FiguresNext]_figureVars PROVE FiguresInv'
      OBVIOUS
    <2>1. CASE \E d \in Period, in \in Inputs : TakeSample(d, in)
      BY <2>1, SampleKeeps
    <2>2. CASE RebuildRows
      BY <2>2, RebuildRowsKeeps
    <2>3. CASE UNCHANGED figureVars
      BY <2>3 DEF FiguresInv, figureVars
    <2> QED BY <2>1, <2>2, <2>3 DEF FiguresNext
  <1> QED BY <1>1, FiguresInitInv, PTL DEF FiguresSpec

\* A row added up sample by sample is what a backfill makes of the snapshots, in
\* every column they tell, and its peak and off-peak halves add up to the whole,
\* however often it is rebuilt (persist, backfillFromSnapshots).
THEOREM RollupsAlwaysAgree == FiguresSpec => []RollupsAgree
  <1>1. FiguresInv => RollupsAgree
    BY DEF FiguresInv, Agrees, RollupsAgree, RowFromSnapshots, Told
  <1> QED BY <1>1, FiguresInductive, PTL

-----------------------------------------------------------------------------
(* What is reported of the figures. *)

\* A snapshot counts no trip twice, and its averages keep within its extremes.
SoundSnapshot(s) ==
    /\ s.peak \in BOOLEAN
    /\ s.tracked \in Nat /\ s.delayed \in Nat /\ s.early \in Nat /\ s.cancelled \in Nat
    /\ s.avg \in Nat /\ s.max \in Nat /\ s.scheduled \in Nat /\ s.vehicles \in Nat
    /\ s.scoreSum \in Nat /\ s.scored \in Nat /\ s.avgOccupancy \in Nat
    /\ s.p50 \in Int /\ s.p90 \in Int
    /\ s.early + s.delayed + s.cancelled <= s.tracked
    /\ s.avg <= s.max /\ s.p50 <= s.p90 /\ s.p90 <= s.max
    /\ s.scoreSum <= 4 * s.scored /\ s.avgOccupancy <= 4

LEMMA PartsAreFewer ==
    ASSUME NEW T, IsFiniteSet(T), NEW A \in SUBSET T, NEW B \in SUBSET T, A \cap B = {}
    PROVE  /\ IsFiniteSet(A) /\ IsFiniteSet(B)
           /\ Cardinality(A) \in Nat /\ Cardinality(B) \in Nat /\ Cardinality(T) \in Nat
           /\ Cardinality(A \cup B) = Cardinality(A) + Cardinality(B)
           /\ Cardinality(A) + Cardinality(B) <= Cardinality(T)
  <1>1. /\ IsFiniteSet(A) /\ IsFiniteSet(B) /\ Cardinality(T) \in Nat
        /\ Cardinality(A) \in Nat /\ Cardinality(B) \in Nat
    BY FS_Subset, FS_CardinalityType
  <1>2. Cardinality(A \cap B) = 0
    BY FS_EmptySet
  <1>3. Cardinality(A \cup B) = Cardinality(A) + Cardinality(B)
    <2>1. Cardinality(A \cup B) = Cardinality(A) + Cardinality(B) - Cardinality(A \cap B)
      BY <1>1, FS_Union
    <2> QED BY <1>1, <1>2, <2>1
  <1>4. Cardinality(A \cup B) <= Cardinality(T)
    BY FS_Subset
  <1> QED BY <1>1, <1>3, <1>4

\* The delays of the active trips.
LEMMA DelaysAreSound ==
    ASSUME NEW delays, IsFiniteSet(DOMAIN delays), \A t \in DOMAIN delays : delays[t] \in Int,
           NEW active \in Nat, Cardinality(DOMAIN delays) <= active
    PROVE  LET most == Max({0} \cup Range(delays))
               late == SumFunction([t \in DOMAIN delays |-> Larger(0, delays[t])])
               avg  == IF active > 0 THEN Rounded(late, active) ELSE 0
           IN  /\ most \in Nat /\ avg \in Nat /\ avg <= most
               /\ Percentile(delays, 50) \in Int /\ Percentile(delays, 90) \in Int
               /\ Percentile(delays, 50) <= Percentile(delays, 90)
               /\ Percentile(delays, 90) <= most
  <1> DEFINE most == Max({0} \cup Range(delays))
             lates == [t \in DOMAIN delays |-> Larger(0, delays[t])]
             late == SumFunction(lates)
             n == Cardinality(DOMAIN delays)
             avg  == IF active > 0 THEN Rounded(late, active) ELSE 0
  <1>1. most \in {0} \cup Range(delays) /\ \A y \in {0} \cup Range(delays) : most >= y
    <2>1. {0} \cup Range(delays) \in SUBSET Int /\ {0} \cup Range(delays) # {}
      BY DEF Range
    <2>2. IsFiniteSet({0} \cup Range(delays))
      BY RangeIsFinite, FS_Singleton, FS_Union
    <2> QED BY <2>1, <2>2, GreatestOf
  <1>2. most \in Nat /\ \A t \in DOMAIN delays : delays[t] <= most
    <2>1. \A t \in DOMAIN delays : delays[t] \in Range(delays)
      BY DEF Range
    <2>2. most \in Int
      BY <1>1 DEF Range
    <2> HIDE DEF most
    <2>3. \A t \in DOMAIN delays : delays[t] <= most
      BY <1>1, <2>1, <2>2
    <2> QED BY <1>1, <2>2, <2>3
  <1> HIDE DEF most
  <1>3. late \in Nat /\ late <= most * n
    <2>1. \A t \in DOMAIN delays : lates[t] \in Nat /\ lates[t] <= most
      BY <1>2 DEF Larger
    <2>2. late = SumFunctionOnSet(lates, DOMAIN delays)
      BY DEF SumFunction
    <2> HIDE DEF lates
    <2> QED BY <1>2, <2>1, <2>2, SumBetween
  <1>4. avg \in Nat /\ avg <= most
    <2>1. n \in Nat
      BY FS_CardinalityType
    <2>2. most * n <= most * active /\ most * n \in Nat /\ most * active \in Nat
      BY <1>2, <2>1, TimesKeepsOrder
    <2> HIDE DEF late, n
    <2>3. late <= most * active /\ 0 * active <= late
      BY <1>3, <2>2
    <2>4. CASE active > 0
      <3>1. Rounded(late, active) \in Int /\ Rounded(late, active) <= most
        BY <1>2, <1>3, <2>3, <2>4, RoundedAtMost
      <3>2. 0 <= Rounded(late, active)
        BY <1>3, <2>3, <2>4, RoundedAtLeast
      <3> QED BY <2>4, <3>1, <3>2
    <2> QED BY <1>2, <2>4
  <1>5. /\ Percentile(delays, 50) \in Int /\ Percentile(delays, 90) \in Int
        /\ Percentile(delays, 50) <= Percentile(delays, 90)
    BY PercentileAtRank, PercentilesRise
  <1>6. Percentile(delays, 90) \in {0} \cup Range(delays)
    BY PercentileAtRank
  <1>7. Percentile(delays, 90) <= most
    BY <1>1, <1>2, <1>5, <1>6 DEF most
  <1> QED BY <1>2, <1>4, <1>5, <1>7 DEF most

\* The scores of the vehicles.
LEMMA ScoresAreSound ==
    ASSUME NEW scores, IsFiniteSet(DOMAIN scores), \A v \in DOMAIN scores : scores[v] \in -1 .. 4
    PROVE  LET known == {v \in DOMAIN scores : scores[v] # -1}
               sum   == SumFunctionOnSet(scores, known)
               avg   == IF known # {} THEN Rounded(sum, Cardinality(known)) ELSE 0
           IN  /\ sum \in Nat /\ Cardinality(known) \in Nat /\ sum <= 4 * Cardinality(known)
               /\ avg \in Nat /\ avg <= 4
  <1> DEFINE known == {v \in DOMAIN scores : scores[v] # -1}
             sum   == SumFunctionOnSet(scores, known)
             n     == Cardinality(known)
  <1>1. IsFiniteSet(known) /\ \A v \in known : scores[v] \in Nat /\ scores[v] <= 4
    BY FS_Subset
  <1> HIDE DEF known
  <1>2. sum \in Nat /\ n \in Nat /\ sum <= 4 * n
    BY <1>1, SumBetween, FS_CardinalityType
  <1>3. known # {} => n > 0
    BY <1>1, <1>2, FS_EmptySet
  <1> HIDE DEF sum, n
  <1>4. n > 0 => /\ Rounded(sum, n) \in Int /\ Rounded(sum, n) <= 4 /\ 0 <= Rounded(sum, n)
    <2>1. 0 * n <= sum
      BY <1>2
    <2> QED BY <1>2, <2>1, RoundedAtMost, RoundedAtLeast
  <1>5. known # {} => Rounded(sum, n) \in Nat /\ Rounded(sum, n) <= 4
    BY <1>3, <1>4
  <1> QED BY <1>2, <1>5 DEF known, sum, n

LEMMA SnapshotIsSound ==
    ASSUME NEW in \in Inputs, NEW d \in Period, NEW l
    PROVE  SoundSnapshot(Accumulate(in, d, l))
  <1> DEFINE T == Tracked(in, l)
             A == Active(in, l)
             late == {t \in A : in.trips[t].delay > Threshold}
             soon == {t \in A : in.trips[t].delay < 0}
             gone == {t \in T : in.trips[t].cancelled} \ alreadyCancelled[d]
             skips == {t \in A : in.trips[t].skipped} \ alreadySkipped[d]
             delays == [t \in A |-> in.trips[t].delay]
             scores == [i \in SeatsOf(in, l) |-> in.seats[i][2]]
             minutes == [i \in AlertsOf(in, l) |-> in.alerts[i][2]]
             s == Accumulate(in, d, l)
             active == Cardinality(T) - Cardinality(gone)
             known == {v \in DOMAIN scores : scores[v] # -1}
  <1>1. s = SnapshotOf(in, Cardinality(T), Cardinality(gone), Cardinality(skips), delays, scores, minutes)
    BY DEF Accumulate
  <1>2. IsFiniteSet(T) /\ A \in SUBSET T /\ \A t \in T : in.trips[t].delay \in Int
    <2>1. T \subseteq Trips /\ A \in SUBSET T
      BY DEF Tracked, Active
    <2> QED BY <2>1, LinePerformanceAssumption, FS_Subset
  <1>3. /\ A \cap gone = {} /\ late \cap soon = {} /\ late \cup soon \in SUBSET A
        /\ gone \in SUBSET T /\ late \in SUBSET A /\ soon \in SUBSET A
    <2>1. \A t \in A : in.trips[t].delay \in Int /\ ~in.trips[t].cancelled
      BY <1>2 DEF Active
    <2>2. \A t \in A : ~(in.trips[t].delay > Threshold /\ in.trips[t].delay < 0)
      BY <2>1 DEF Threshold
    <2> HIDE DEF A, T
    <2> QED BY <2>1, <2>2
  <1>4. /\ DOMAIN delays = A /\ \A t \in A : delays[t] = in.trips[t].delay
        /\ late = {t \in DOMAIN delays : delays[t] > Threshold}
        /\ soon = {t \in DOMAIN delays : delays[t] < 0}
    OBVIOUS
  <1>5. DOMAIN scores = SeatsOf(in, l) /\ IsFiniteSet(SeatsOf(in, l))
        /\ \A i \in SeatsOf(in, l) : scores[i] \in -1 .. 4
    <2>1. in.seats \in Seq(Badges \X (-1 .. 4)) /\ DOMAIN in.seats = 1 .. Len(in.seats) /\ Len(in.seats) \in Nat
      BY LinePerformanceAssumption
    <2>2. \A i \in DOMAIN in.seats : in.seats[i][2] \in -1 .. 4
      BY <2>1
    <2>3. IsFiniteSet(DOMAIN in.seats) /\ SeatsOf(in, l) \subseteq DOMAIN in.seats
      BY <2>1, FS_Interval DEF SeatsOf
    <2> QED BY <2>2, <2>3, FS_Subset
  <1>6. in.peak \in BOOLEAN /\ in.scheduled \in Nat
    BY LinePerformanceAssumption
  <1> HIDE DEF T, A, late, soon, gone, skips, delays, scores, minutes, s
  <1>7. /\ s.tracked = Cardinality(T) /\ s.cancelled = Cardinality(gone)
        /\ s.peak = in.peak /\ s.scheduled = in.scheduled
        /\ s.delayed = Cardinality(late) /\ s.early = Cardinality(soon)
        /\ s.vehicles = Cardinality(DOMAIN scores)
    BY <1>1, <1>4 DEF SnapshotOf
  <1>8. /\ s.max = Max({0} \cup Range(delays))
        /\ s.avg = IF active > 0
                   THEN Rounded(SumFunction([t \in DOMAIN delays |-> Larger(0, delays[t])]), active) ELSE 0
        /\ s.p50 = Percentile(delays, 50) /\ s.p90 = Percentile(delays, 90)
    BY <1>1 DEF SnapshotOf
  <1>9. /\ s.scoreSum = SumFunctionOnSet(scores, known) /\ s.scored = Cardinality(known)
        /\ s.avgOccupancy = IF known # {}
                            THEN Rounded(SumFunctionOnSet(scores, known), Cardinality(known)) ELSE 0
    BY <1>1 DEF SnapshotOf
  <1>10. /\ s.tracked \in Nat /\ s.delayed \in Nat /\ s.early \in Nat /\ s.cancelled \in Nat
         /\ s.early + s.delayed + s.cancelled <= s.tracked
         /\ active \in Nat /\ Cardinality(A) <= active /\ IsFiniteSet(A)
    <2>1. /\ IsFiniteSet(A) /\ Cardinality(A) \in Nat /\ Cardinality(gone) \in Nat /\ Cardinality(T) \in Nat
          /\ Cardinality(A) + Cardinality(gone) <= Cardinality(T)
      BY <1>2, <1>3, PartsAreFewer
    <2>2. /\ Cardinality(late) \in Nat /\ Cardinality(soon) \in Nat
          /\ Cardinality(late) + Cardinality(soon) <= Cardinality(A)
      BY <1>3, <2>1, PartsAreFewer
    <2> QED BY <1>7, <2>1, <2>2
  <1>11. /\ s.max \in Nat /\ s.avg \in Nat /\ s.avg <= s.max
         /\ s.p50 \in Int /\ s.p90 \in Int /\ s.p50 <= s.p90 /\ s.p90 <= s.max
    <2>1. IsFiniteSet(DOMAIN delays) /\ \A t \in DOMAIN delays : delays[t] \in Int
      BY <1>2, <1>4, <1>10
    <2> HIDE DEF active
    <2> DEFINE sum == SumFunction([t \in DOMAIN delays |-> Larger(0, delays[t])])
               avg == IF active > 0 THEN Rounded(sum, active) ELSE 0
    <2>2. Cardinality(DOMAIN delays) <= active
      BY <1>4, <1>10
    <2>3. /\ Max({0} \cup Range(delays)) \in Nat /\ avg \in Nat /\ avg <= Max({0} \cup Range(delays))
          /\ Percentile(delays, 50) \in Int /\ Percentile(delays, 90) \in Int
          /\ Percentile(delays, 50) <= Percentile(delays, 90)
          /\ Percentile(delays, 90) <= Max({0} \cup Range(delays))
      BY <1>10, <2>1, <2>2, DelaysAreSound
    <2>4. s.avg = avg
      BY <1>8
    <2> HIDE DEF avg
    <2> QED BY <1>8, <2>3, <2>4
  <1>12. /\ s.scoreSum \in Nat /\ s.scored \in Nat /\ s.scoreSum <= 4 * s.scored
         /\ s.avgOccupancy \in Nat /\ s.avgOccupancy <= 4
    BY <1>5, <1>9, ScoresAreSound
  <1>13. s.vehicles \in Nat
    BY <1>5, <1>7, FS_CardinalityType
  <1>14. /\ s.peak \in BOOLEAN /\ s.scheduled \in Nat
    BY <1>6, <1>7
  <1>15. SoundSnapshot(s)
    BY <1>10, <1>11, <1>12, <1>13, <1>14 DEF SoundSnapshot
  <1> QED BY <1>15 DEF s

\* What holds of a row that is added up from sound snapshots, of the day and of its halves.
Counted == {"samples", "tracked", "delayed", "early", "cancelled", "delaySum", "max", "scoreSum",
            "scored", "scheduled"}

WholeIsSound(row) ==
    /\ \A f \in Counted : row[f] \in Nat
    /\ row["p50Sum"] \in Int /\ row["p90Sum"] \in Int
    /\ row["early"] + row["delayed"] + row["cancelled"] <= row["tracked"]
    /\ row["delaySum"] <= row["tracked"] * row["max"]
    /\ row["p50Sum"] <= row["p90Sum"] /\ row["p90Sum"] <= row["samples"] * row["max"]
    /\ row["scoreSum"] <= row["scored"] * 4

HalvesAreSound(row) ==
    /\ \A f \in Halved : row[f] \in Nat
    /\ row["peakDelayed"] <= row["peakTracked"] /\ row["offPeakDelayed"] <= row["offPeakTracked"]

LEMMA AddedFields ==
    ASSUME NEW row, NEW inc
    PROVE  /\ \A f \in Counters \ Greatest : AddRow(row, inc)[f] = row[f] + inc[f]
           /\ \A f \in Greatest : AddRow(row, inc)[f] = Larger(row[f], inc[f])
           /\ Counted \ Greatest \subseteq Counters \ Greatest
           /\ Halved \subseteq Counters \ Greatest
           /\ {"p50Sum", "p90Sum"} \subseteq Counters \ Greatest
           /\ Greatest = {"max", "scheduled"}
  <1>1. Greatest \subseteq Counters
    BY DEF Counters
  <1>2. /\ \A f \in Counters \ Greatest : AddRow(row, inc)[f] = row[f] + inc[f]
        /\ \A f \in Greatest : AddRow(row, inc)[f] = Larger(row[f], inc[f])
    BY <1>1 DEF AddRow
  <1>3. Counted \ Greatest \subseteq Counters \ Greatest
    BY DEF Counters, Counted, Greatest, Approximated
  <1>4. Halved \subseteq Counters \ Greatest
    BY FieldNames
  <1>5. {"p50Sum", "p90Sum"} \subseteq Counters \ Greatest
    BY DEF Counters, Greatest
  <1> QED BY <1>2, <1>3, <1>4, <1>5 DEF Greatest

\* Bounds add up, under the larger of two limits.
LEMMA BoundsAdd ==
    ASSUME NEW a \in Int, NEW b \in Int, NEW m \in Nat, NEW n \in Nat, NEW x \in Nat, NEW y \in Nat,
           a <= m * x, b <= n * y
    PROVE  a + b <= (m + n) * Larger(x, y)
  <1> DEFINE z == Larger(x, y)
  <1>1. z \in Nat /\ x <= z /\ y <= z
    BY DEF Larger
  <1> HIDE DEF z
  <1>2. m * x <= m * z /\ n * y <= n * z
    BY <1>1, TimesKeepsOrder
  <1>3. (m + n) * z = m * z + n * z
    BY <1>1
  <1>4. m * x \in Int /\ n * y \in Int /\ m * z \in Int /\ n * z \in Int
    BY <1>1
  <1>5. a + b <= m * z + n * z
    BY <1>2, <1>4
  <1> QED BY <1>3, <1>5 DEF z

LEMMA WholeAdds ==
    ASSUME NEW row, NEW inc, WholeIsSound(row), WholeIsSound(inc)
    PROVE  WholeIsSound(AddRow(row, inc))
  <1> DEFINE new == AddRow(row, inc)
  <1>1. /\ \A f \in Counted \ Greatest : new[f] = row[f] + inc[f]
        /\ \A f \in {"p50Sum", "p90Sum"} : new[f] = row[f] + inc[f]
        /\ new["max"] = Larger(row["max"], inc["max"])
        /\ new["scheduled"] = Larger(row["scheduled"], inc["scheduled"])
    BY AddedFields
  <1> HIDE DEF new
  <1>2. \A f \in Counted : row[f] \in Nat /\ inc[f] \in Nat
    BY DEF WholeIsSound
  <1>3. \A f \in Counted : new[f] \in Nat
    <2>1. \A f \in Counted \ Greatest : new[f] \in Nat
      BY <1>1, <1>2
    <2>2. new["max"] \in Nat /\ new["scheduled"] \in Nat
      BY <1>1, <1>2 DEF Counted, Larger
    <2> QED BY <2>1, <2>2 DEF Greatest
  <1>4. /\ new["samples"] = row["samples"] + inc["samples"] /\ new["tracked"] = row["tracked"] + inc["tracked"]
        /\ new["delayed"] = row["delayed"] + inc["delayed"] /\ new["early"] = row["early"] + inc["early"]
        /\ new["cancelled"] = row["cancelled"] + inc["cancelled"]
        /\ new["delaySum"] = row["delaySum"] + inc["delaySum"]
        /\ new["scoreSum"] = row["scoreSum"] + inc["scoreSum"] /\ new["scored"] = row["scored"] + inc["scored"]
        /\ new["p50Sum"] = row["p50Sum"] + inc["p50Sum"] /\ new["p90Sum"] = row["p90Sum"] + inc["p90Sum"]
    BY <1>1 DEF Counted, Greatest
  <1>5. /\ row["samples"] \in Nat /\ row["tracked"] \in Nat /\ row["delayed"] \in Nat /\ row["early"] \in Nat
        /\ row["cancelled"] \in Nat /\ row["delaySum"] \in Nat /\ row["max"] \in Nat
        /\ row["scoreSum"] \in Nat /\ row["scored"] \in Nat /\ row["p50Sum"] \in Int /\ row["p90Sum"] \in Int
    BY DEF WholeIsSound, Counted
  <1>6. /\ inc["samples"] \in Nat /\ inc["tracked"] \in Nat /\ inc["delayed"] \in Nat /\ inc["early"] \in Nat
        /\ inc["cancelled"] \in Nat /\ inc["delaySum"] \in Nat /\ inc["max"] \in Nat
        /\ inc["scoreSum"] \in Nat /\ inc["scored"] \in Nat /\ inc["p50Sum"] \in Int /\ inc["p90Sum"] \in Int
    BY DEF WholeIsSound, Counted
  <1>7. new["early"] + new["delayed"] + new["cancelled"] <= new["tracked"]
    <2>1. row["early"] + row["delayed"] + row["cancelled"] <= row["tracked"]
      BY DEF WholeIsSound
    <2>2. inc["early"] + inc["delayed"] + inc["cancelled"] <= inc["tracked"]
      BY DEF WholeIsSound
    <2> QED BY <1>4, <1>5, <1>6, <2>1, <2>2
  <1>8. new["delaySum"] <= new["tracked"] * new["max"]
    <2>1. row["delaySum"] <= row["tracked"] * row["max"] /\ inc["delaySum"] <= inc["tracked"] * inc["max"]
      BY DEF WholeIsSound
    <2>2. row["delaySum"] \in Int /\ inc["delaySum"] \in Int
      BY <1>5, <1>6
    <2>3. row["delaySum"] + inc["delaySum"] <=
            (row["tracked"] + inc["tracked"]) * Larger(row["max"], inc["max"])
      BY <1>5, <1>6, <2>1, <2>2, BoundsAdd
    <2> QED BY <1>1, <1>4, <2>3
  <1>9. new["p90Sum"] <= new["samples"] * new["max"]
    <2>1. row["p90Sum"] <= row["samples"] * row["max"] /\ inc["p90Sum"] <= inc["samples"] * inc["max"]
      BY DEF WholeIsSound
    <2>2. row["p90Sum"] + inc["p90Sum"] <=
            (row["samples"] + inc["samples"]) * Larger(row["max"], inc["max"])
      BY <1>5, <1>6, <2>1, BoundsAdd
    <2> QED BY <1>1, <1>4, <2>2
  <1>10. new["p50Sum"] \in Int /\ new["p90Sum"] \in Int /\ new["p50Sum"] <= new["p90Sum"]
    <2>1. row["p50Sum"] <= row["p90Sum"] /\ inc["p50Sum"] <= inc["p90Sum"]
      BY DEF WholeIsSound
    <2> QED BY <1>4, <1>5, <1>6, <2>1
  <1>11. new["scoreSum"] <= new["scored"] * 4
    <2>1. row["scoreSum"] <= row["scored"] * 4 /\ inc["scoreSum"] <= inc["scored"] * 4
      BY DEF WholeIsSound
    <2> QED BY <1>4, <1>5, <1>6, <2>1
  <1>12. WholeIsSound(new)
    BY <1>3, <1>7, <1>8, <1>9, <1>10, <1>11 DEF WholeIsSound
  <1> QED BY <1>12 DEF new

LEMMA HalvesAdd ==
    ASSUME NEW row, NEW inc, HalvesAreSound(row), HalvesAreSound(inc)
    PROVE  HalvesAreSound(AddRow(row, inc))
  <1> DEFINE new == AddRow(row, inc)
  <1>1. \A f \in Halved : new[f] = row[f] + inc[f]
    BY AddedFields
  <1> HIDE DEF new
  <1>2. \A f \in Halved : row[f] \in Nat /\ inc[f] \in Nat /\ new[f] \in Nat
    BY <1>1 DEF HalvesAreSound
  <1>3. ASSUME NEW a \in Halved, NEW b \in Halved, row[a] <= row[b], inc[a] <= inc[b]
        PROVE  new[a] <= new[b]
    <2>1. /\ row[a] \in Nat /\ inc[a] \in Nat /\ row[b] \in Nat /\ inc[b] \in Nat
          /\ new[a] = row[a] + inc[a] /\ new[b] = row[b] + inc[b]
      BY <1>1, <1>2
    <2> QED BY <1>3, <2>1
  <1>4. {"peakDelayed", "peakTracked", "offPeakDelayed", "offPeakTracked"} \subseteq Halved
    BY DEF Halved
  <1>5. new["peakDelayed"] <= new["peakTracked"] /\ new["offPeakDelayed"] <= new["offPeakTracked"]
    BY <1>3, <1>4 DEF HalvesAreSound
  <1>6. HalvesAreSound(new)
    BY <1>2, <1>5 DEF HalvesAreSound
  <1> QED BY <1>6 DEF new

LEMMA NoRowIsSound == WholeIsSound(NoRow) /\ HalvesAreSound(NoRow)
  <1>1. \A f \in Counters : NoRow[f] = 0
    BY DEF NoRow
  <1>2. Counted \cup Halved \cup {"p50Sum", "p90Sum"} \subseteq Counters
    BY DEF Counters, Counted, Halved, Greatest, PeakFields, Approximated
  <1> HIDE DEF NoRow
  <1>3. \A f \in Counted \cup Halved \cup {"p50Sum", "p90Sum"} : NoRow[f] = 0
    BY <1>1, <1>2
  <1>4. /\ NoRow["early"] = 0 /\ NoRow["delayed"] = 0 /\ NoRow["cancelled"] = 0 /\ NoRow["tracked"] = 0
        /\ NoRow["delaySum"] = 0 /\ NoRow["max"] = 0 /\ NoRow["samples"] = 0 /\ NoRow["scoreSum"] = 0
        /\ NoRow["scored"] = 0 /\ NoRow["p50Sum"] = 0 /\ NoRow["p90Sum"] = 0
        /\ NoRow["peakDelayed"] = 0 /\ NoRow["peakTracked"] = 0
        /\ NoRow["offPeakDelayed"] = 0 /\ NoRow["offPeakTracked"] = 0
    BY <1>3 DEF Counted, Halved
  <1> QED BY <1>3, <1>4 DEF WholeIsSound, HalvesAreSound

\* What persist adds for a snapshot, and what a backfill makes of it.
LEMMA IncrementIsSound ==
    ASSUME NEW s, SoundSnapshot(s)
    PROVE  WholeIsSound(Increment(s)) /\ HalvesAreSound(Increment(s))
  <1> DEFINE inc == Increment(s)
             active == Larger(0, s.tracked - s.cancelled)
  <1>1. /\ inc["samples"] = 1 /\ inc["tracked"] = s.tracked /\ inc["delayed"] = s.delayed
        /\ inc["cancelled"] = s.cancelled /\ inc["early"] = s.early
        /\ inc["p50Sum"] = s.p50 /\ inc["p90Sum"] = s.p90 /\ inc["delaySum"] = s.avg * active
        /\ inc["max"] = s.max /\ inc["scoreSum"] = s.scoreSum /\ inc["scored"] = s.scored
        /\ inc["scheduled"] = s.scheduled
    BY DEF Increment
  <1>2. /\ inc["peakTracked"] = IF s.peak THEN s.tracked ELSE 0
        /\ inc["peakDelayed"] = IF s.peak THEN s.delayed ELSE 0
        /\ inc["offPeakTracked"] = IF s.peak THEN 0 ELSE s.tracked
        /\ inc["offPeakDelayed"] = IF s.peak THEN 0 ELSE s.delayed
    BY DEF Increment
  <1> HIDE DEF inc
  <1>3. active \in Nat /\ active <= s.tracked
    BY DEF SoundSnapshot, Larger
  <1> HIDE DEF active
  <1>4. s.avg * active \in Nat /\ s.avg * active <= s.tracked * s.max
    <2>1. s.avg \in Nat /\ s.max \in Nat /\ s.avg <= s.max /\ s.tracked \in Nat
      BY DEF SoundSnapshot
    <2>2. s.avg * active <= s.max * active /\ s.max * active <= s.max * s.tracked
      BY <1>3, <2>1, TimesKeepsOrder
    <2>3. s.avg * active \in Nat /\ s.max * active \in Nat /\ s.max * s.tracked \in Nat
          /\ s.max * s.tracked = s.tracked * s.max
      BY <1>3, <2>1
    <2> QED BY <2>2, <2>3
  <1>5. \A f \in Counted : inc[f] \in Nat
    BY <1>1, <1>4 DEF SoundSnapshot, Counted
  <1>6. /\ inc["early"] + inc["delayed"] + inc["cancelled"] <= inc["tracked"]
        /\ inc["p50Sum"] \in Int /\ inc["p90Sum"] \in Int /\ inc["p50Sum"] <= inc["p90Sum"]
        /\ inc["p90Sum"] <= inc["samples"] * inc["max"] /\ inc["scoreSum"] <= inc["scored"] * 4
    BY <1>1 DEF SoundSnapshot
  <1>7. inc["delaySum"] <= inc["tracked"] * inc["max"]
    BY <1>1, <1>4
  <1>8. \A f \in Halved : inc[f] \in Nat
    BY <1>1, <1>2 DEF SoundSnapshot, Halved
  <1>9. inc["peakDelayed"] <= inc["peakTracked"] /\ inc["offPeakDelayed"] <= inc["offPeakTracked"]
    BY <1>2 DEF SoundSnapshot
  <1> QED BY <1>5, <1>6, <1>7, <1>8, <1>9 DEF WholeIsSound, HalvesAreSound, inc

LEMMA RebuiltIsSound ==
    ASSUME NEW s, SoundSnapshot(s)
    PROVE  WholeIsSound(Rebuilt(s))
  <1> DEFINE new == Rebuilt(s)
             inc == Increment(s)
             scored == s.avgOccupancy > 0 \/ s.crowded > 0
  <1>1. \A f \in Told : new[f] = inc[f]
    BY IncrementFacts DEF SoundSnapshot
  <1>2. new["scored"] \in Nat /\ new["scoreSum"] \in Nat /\ new["scoreSum"] <= new["scored"] * 4
    <2>1. /\ new["scoreSum"] = IF scored THEN s.avgOccupancy * s.vehicles ELSE 0
          /\ new["scored"] = IF scored THEN s.vehicles ELSE 0
      BY DEF Rebuilt, Counters, Approximated, PeakFields
    <2>2. s.avgOccupancy \in Nat /\ s.avgOccupancy <= 4 /\ s.vehicles \in Nat
      BY DEF SoundSnapshot
    <2>3. s.avgOccupancy * s.vehicles \in Nat /\ s.avgOccupancy * s.vehicles <= 4 * s.vehicles
      BY <2>2, TimesKeepsOrder
    <2> HIDE DEF scored, new
    <2> QED BY <2>1, <2>2, <2>3
  <1>3. WholeIsSound(inc)
    BY IncrementIsSound
  <1> HIDE DEF new, inc
  <1>4. Counted \ {"scored", "scoreSum"} \subseteq Told /\ {"p50Sum", "p90Sum"} \subseteq Told
    BY DEF Told, Counted, Counters, PeakFields, Approximated, Greatest
  <1>5. \A f \in Counted : new[f] \in Nat
    BY <1>1, <1>2, <1>3, <1>4 DEF WholeIsSound
  <1>6. \A f \in {"samples", "tracked", "delayed", "early", "cancelled", "delaySum", "max", "p50Sum", "p90Sum"} :
          new[f] = inc[f]
    BY <1>1, <1>4 DEF Counted
  <1>7. /\ new["early"] + new["delayed"] + new["cancelled"] <= new["tracked"]
        /\ new["delaySum"] <= new["tracked"] * new["max"]
        /\ new["p50Sum"] \in Int /\ new["p90Sum"] \in Int
        /\ new["p50Sum"] <= new["p90Sum"] /\ new["p90Sum"] <= new["samples"] * new["max"]
    <2>1. /\ new["early"] = inc["early"] /\ new["delayed"] = inc["delayed"] /\ new["cancelled"] = inc["cancelled"]
          /\ new["tracked"] = inc["tracked"] /\ new["delaySum"] = inc["delaySum"] /\ new["max"] = inc["max"]
          /\ new["p50Sum"] = inc["p50Sum"] /\ new["p90Sum"] = inc["p90Sum"] /\ new["samples"] = inc["samples"]
      BY <1>6
    <2> QED BY <1>3, <2>1 DEF WholeIsSound
  <1> QED BY <1>2, <1>5, <1>7 DEF WholeIsSound, new

\* Every row is sound, and so is what a backfill would make of the snapshots.
SoundInv ==
    /\ FiguresInv
    /\ \A d \in Period, l \in Badges : /\ WholeIsSound(rowOf[d][l]) /\ HalvesAreSound(rowOf[d][l])
                                       /\ WholeIsSound(RowOfSnapshots(sampled[d], l))

LEMMA SoundInit == FiguresInit => SoundInv
  <1> SUFFICES ASSUME FiguresInit PROVE SoundInv
    OBVIOUS
  <1>1. FiguresInv
    BY FiguresInitInv
  <1>2. \A d \in Period, l \in Badges : rowOf[d][l] = NoRow /\ RowOfSnapshots(sampled[d], l) = NoRow
    BY RowOfNone DEF FiguresInit
  <1> QED BY <1>1, <1>2, NoRowIsSound DEF SoundInv

LEMMA SampleIsSound ==
    ASSUME SoundInv, NEW d \in Period, NEW in \in Inputs, TakeSample(d, in)
    PROVE  SoundInv'
  <1> DEFINE lines == LinesIn(in)
             snap  == [l \in lines |-> Accumulate(in, d, l)]
             S == {sampled[d][i] : i \in DOMAIN sampled[d]} \cup {snap}
  <1>1. /\ sampled' = [sampled EXCEPT ![d] = Append(@, snap)]
        /\ rowOf' = [rowOf EXCEPT ![d] =
                       [l \in Badges |-> IF l \in lines THEN AddRow(@[l], Increment(snap[l])) ELSE @[l]]]
    BY DEF TakeSample
  <1>2. \A l \in lines : SoundSnapshot(snap[l])
    BY SnapshotIsSound
  <1>3. DOMAIN snap = lines
    OBVIOUS
  <1> HIDE DEF lines, snap
  <1>4. /\ FiguresInv' /\ DOMAIN sampled = Period /\ DOMAIN rowOf = Period
    BY SampleKeeps DEF SoundInv, FiguresInv
  <1>5. sampled[d] \in Seq(S) /\ snap \in S
    <2> DEFINE P == {sampled[d][i] : i \in DOMAIN sampled[d]}
    <2>1. sampled[d] \in Seq(P)
      BY DEF SoundInv, FiguresInv
    <2> HIDE DEF P
    <2>2. sampled[d] \in Seq(P \cup {snap})
      BY <2>1
    <2> QED BY <2>2 DEF P
  <1> HIDE DEF S
  <1>6. ASSUME NEW e \in Period, NEW l \in Badges
        PROVE  /\ WholeIsSound(rowOf'[e][l]) /\ HalvesAreSound(rowOf'[e][l])
               /\ WholeIsSound(RowOfSnapshots(sampled'[e], l))
    <2> DEFINE row == rowOf[e][l]
               of  == RowOfSnapshots(sampled[e], l)
    <2>1. WholeIsSound(row) /\ HalvesAreSound(row) /\ WholeIsSound(of)
      BY DEF SoundInv
    <2>2. CASE e # d
      <3>1. rowOf'[e][l] = row /\ sampled'[e] = sampled[e]
        BY <1>1, <1>4, <2>2
      <3> QED BY <2>1, <3>1
    <2>3. CASE e = d
      <3>1. /\ rowOf'[e][l] = IF l \in lines THEN AddRow(row, Increment(snap[l])) ELSE row
            /\ sampled'[e] = Append(sampled[d], snap)
        BY <1>1, <1>4, <2>3
      <3>2. RowOfSnapshots(sampled'[e], l) = WithSnapshot(of, snap, l)
        BY <1>5, <2>3, <3>1, RowOfMore
      <3>3. CASE l \notin lines
        BY <1>3, <2>1, <3>1, <3>2, <3>3 DEF WithSnapshot
      <3>4. CASE l \in lines
        <4> HIDE DEF row, of
        <4>1. /\ rowOf'[e][l] = AddRow(row, Increment(snap[l]))
              /\ RowOfSnapshots(sampled'[e], l) = AddRow(of, Rebuilt(snap[l]))
          BY <1>3, <3>1, <3>2, <3>4 DEF WithSnapshot
        <4>2. /\ WholeIsSound(Increment(snap[l])) /\ HalvesAreSound(Increment(snap[l]))
              /\ WholeIsSound(Rebuilt(snap[l]))
          BY <1>2, <3>4, IncrementIsSound, RebuiltIsSound
        <4>3. WholeIsSound(rowOf'[e][l])
          BY <2>1, <4>1, <4>2, WholeAdds
        <4>4. HalvesAreSound(rowOf'[e][l])
          BY <2>1, <4>1, <4>2, HalvesAdd
        <4>5. WholeIsSound(RowOfSnapshots(sampled'[e], l))
          BY <2>1, <4>1, <4>2, WholeAdds
        <4> QED BY <4>3, <4>4, <4>5
      <3> QED BY <3>3, <3>4
    <2> QED BY <2>2, <2>3
  <1> QED BY <1>4, <1>6 DEF SoundInv

LEMMA RebuildIsSound ==
    ASSUME SoundInv, RebuildRows
    PROVE  SoundInv'
  <1>1. /\ sampled' = sampled
        /\ rowOf' = [d \in Period |-> [l \in Badges |->
                   IF \E i \in DOMAIN sampled[d] : l \in DOMAIN sampled[d][i]
                   THEN [f \in Counters |-> IF f \in PeakFields THEN rowOf[d][l][f] ELSE RowFromSnapshots(d, l)[f]]
                   ELSE rowOf[d][l]]]
    BY DEF RebuildRows
  <1>2. FiguresInv'
    BY RebuildRowsKeeps DEF SoundInv
  <1>3. ASSUME NEW d \in Period, NEW l \in Badges
        PROVE  WholeIsSound(rowOf'[d][l]) /\ HalvesAreSound(rowOf'[d][l])
    <2> DEFINE row == rowOf[d][l]
               of  == RowOfSnapshots(sampled[d], l)
               new == [f \in Counters |-> IF f \in PeakFields THEN row[f] ELSE of[f]]
    <2>1. WholeIsSound(row) /\ HalvesAreSound(row) /\ WholeIsSound(of)
      BY DEF SoundInv
    <2>2. rowOf'[d][l] = new \/ rowOf'[d][l] = row
      BY <1>1 DEF RowFromSnapshots
    <2>3. \A f \in Told : row[f] = of[f]
      BY DEF SoundInv, FiguresInv, Agrees
    <2>4. \A f \in Counters : new[f] = IF f \in PeakFields THEN row[f] ELSE of[f]
      OBVIOUS
    <2> HIDE DEF row, of, new
    <2>5. \A f \in Counted \cup {"p50Sum", "p90Sum"} : new[f] = of[f]
      <3>1. Counted \cup {"p50Sum", "p90Sum"} \subseteq Counters \ PeakFields
        BY DEF Counted, Counters, PeakFields, Approximated, Greatest
      <3> QED BY <2>4, <3>1
    <2>6. \A f \in Halved : new[f] = row[f]
      BY <2>3, <2>4, FieldNames DEF Halved
    <2>7. WholeIsSound(new)
      BY <2>1, <2>5 DEF WholeIsSound, Counted
    <2>8. HalvesAreSound(new)
      BY <2>1, <2>6 DEF HalvesAreSound, Halved
    <2> QED BY <2>1, <2>2, <2>7, <2>8 DEF row
  <1>4. \A d \in Period, l \in Badges : WholeIsSound(RowOfSnapshots(sampled'[d], l))
    BY <1>1 DEF SoundInv
  <1> QED BY <1>2, <1>3, <1>4 DEF SoundInv

LEMMA SoundInductive == FiguresSpec => []SoundInv
  <1>1. SoundInv /\ [FiguresNext]_figureVars => SoundInv'
    <2> SUFFICES ASSUME SoundInv, [FiguresNext]_figureVars PROVE SoundInv'
      OBVIOUS
    <2>1. CASE \E d \in Period, in \in Inputs : TakeSample(d, in)
      BY <2>1, SampleIsSound
    <2>2. CASE RebuildRows
      BY <2>2, RebuildIsSound
    <2>3. CASE UNCHANGED figureVars
      BY <2>3 DEF SoundInv, FiguresInv, figureVars
    <2> QED BY <2>1, <2>2, <2>3 DEF FiguresNext
  <1> QED BY <1>1, SoundInit, PTL DEF FiguresSpec

\* Smaller values have the smaller sum.
LEMMA SumRises ==
    ASSUME NEW fun, NEW gun, NEW S, IsFiniteSet(S),
           \A x \in S : fun[x] \in Nat /\ gun[x] \in Nat /\ fun[x] <= gun[x]
    PROVE  /\ SumFunctionOnSet(fun, S) \in Nat /\ SumFunctionOnSet(gun, S) \in Nat
           /\ SumFunctionOnSet(fun, S) <= SumFunctionOnSet(gun, S)
  <1> DEFINE a(T) == SumFunctionOnSet(fun, T)
             b(T) == SumFunctionOnSet(gun, T)
             Rises(T) == a(T) \in Nat /\ b(T) \in Nat /\ a(T) <= b(T)
             C == {T \in SUBSET S : ~Rises(T)}
  <1>1. ASSUME C # {} PROVE FALSE
    <2>1. PICK T \in C : \A U \in C : Cardinality(T) <= Cardinality(U)
      <3>1. \A T \in C : IsFiniteSet(T)
        BY FS_Subset
      <3> HIDE DEF C
      <3> QED BY <1>1, <3>1, FewestOf
    <2>2. T \in SUBSET S /\ IsFiniteSet(T) /\ ~Rises(T)
      BY <2>1, FS_Subset
    <2>3. T # {}
      <3>1. Rises({})
        BY SumOfNone
      <3> HIDE DEF Rises
      <3> QED BY <2>2, <3>1
    <2>4. PICK x \in T : TRUE
      BY <2>3
    <2>5. Rises(T \ {x})
      <3>1. Cardinality(T \ {x}) = Cardinality(T) - 1 /\ Cardinality(T) \in Nat
        BY <2>2, <2>4, FS_RemoveElement, FS_CardinalityType
      <3>2. ~(Cardinality(T) <= Cardinality(T \ {x})) /\ T \ {x} \in SUBSET S
        BY <2>2, <3>1
      <3>3. T \ {x} \notin C
        BY <2>1, <3>2
      <3> HIDE DEF Rises
      <3> QED BY <3>2, <3>3
    <2>6. a(T) = fun[x] + a(T \ {x}) /\ b(T) = gun[x] + b(T \ {x})
      <3>1. (\A y \in T : fun[y] \in Int) /\ (\A y \in T : gun[y] \in Int)
        BY <2>2
      <3> QED BY <2>2, <2>4, <3>1, SumRemoves
    <2>7. fun[x] \in Nat /\ gun[x] \in Nat /\ fun[x] <= gun[x]
      BY <2>2, <2>4
    <2> HIDE DEF a, b
    <2> QED BY <2>2, <2>5, <2>6, <2>7
  <1>2. S \notin C
    <2> HIDE DEF C
    <2> QED BY <1>1
  <1> QED BY <1>2

\* A percentage of what is no more than the whole.
LEMMA TenthsAreWithin ==
    ASSUME NEW n \in Nat, NEW d \in Nat, n <= d
    PROVE  \A x \in Tenths(n, d) : x \in Nat /\ x <= 1000
  <1>1. 1000 * n \in Int /\ 0 * d <= 1000 * n /\ 1000 * n <= 1000 * d
    OBVIOUS
  <1>2. d > 0 => /\ Rounded(1000 * n, d) \in Int
                 /\ 0 <= Rounded(1000 * n, d) /\ Rounded(1000 * n, d) <= 1000
    BY <1>1, RoundedAtMost, RoundedAtLeast
  <1> QED BY <1>2 DEF Tenths

LEMMA RowIsSound ==
    ASSUME NEW row, WholeIsSound(row), HalvesAreSound(row)
    PROVE  LET day == MapDailyRow(row)
           IN  /\ row["early"] + row["delayed"] + row["cancelled"] <= row["tracked"]
               /\ day.onTime \cup day.peakOnTime \cup day.offPeakOnTime \cup day.reliability \subseteq 0 .. 1000
               /\ day.occupancy \subseteq 0 .. 4
               /\ \A x \in day.avgDelay \cup day.p90 : x <= row["max"]
               /\ \A x \in day.p50, y \in day.p90 : x <= y
  <1> DEFINE day == MapDailyRow(row)
             runs == IF row["tracked"] < row["scheduled"] THEN row["tracked"] ELSE row["scheduled"]
  <1>1. /\ day.onTime = Tenths(row["tracked"] - row["delayed"], row["tracked"])
        /\ day.peakOnTime = Tenths(row["peakTracked"] - row["peakDelayed"], row["peakTracked"])
        /\ day.offPeakOnTime = Tenths(row["offPeakTracked"] - row["offPeakDelayed"], row["offPeakTracked"])
        /\ day.reliability = Tenths(runs, row["scheduled"])
    BY DEF MapDailyRow
  <1>2. /\ day.avgDelay = Mean(row["delaySum"], row["tracked"])
        /\ day.p50 = Mean(row["p50Sum"], row["samples"]) /\ day.p90 = Mean(row["p90Sum"], row["samples"])
        /\ day.occupancy = Mean(row["scoreSum"], row["scored"])
    BY DEF MapDailyRow
  <1> HIDE DEF day
  <1>3. /\ row["samples"] \in Nat /\ row["tracked"] \in Nat /\ row["delayed"] \in Nat /\ row["early"] \in Nat
        /\ row["cancelled"] \in Nat /\ row["delaySum"] \in Nat /\ row["max"] \in Nat /\ row["scheduled"] \in Nat
        /\ row["scoreSum"] \in Nat /\ row["scored"] \in Nat /\ row["p50Sum"] \in Int /\ row["p90Sum"] \in Int
    BY DEF WholeIsSound, Counted
  <1>4. /\ row["early"] + row["delayed"] + row["cancelled"] <= row["tracked"]
        /\ row["delayed"] <= row["tracked"]
    BY <1>3 DEF WholeIsSound
  <1>5. day.onTime \cup day.peakOnTime \cup day.offPeakOnTime \subseteq 0 .. 1000
    <2> DEFINE all == row["tracked"]
               peak == row["peakTracked"]
               off == row["offPeakTracked"]
               onTime == all - row["delayed"]
               inPeak == peak - row["peakDelayed"]
               inOff == off - row["offPeakDelayed"]
    <2>1. onTime \in Nat /\ all \in Nat /\ onTime <= all
      BY <1>3, <1>4
    <2>2. /\ inPeak \in Nat /\ peak \in Nat /\ inPeak <= peak
          /\ inOff \in Nat /\ off \in Nat /\ inOff <= off
      BY DEF HalvesAreSound, Halved
    <2>3. /\ day.onTime = Tenths(onTime, all) /\ day.peakOnTime = Tenths(inPeak, peak)
          /\ day.offPeakOnTime = Tenths(inOff, off)
      BY <1>1
    <2> HIDE DEF all, peak, off, onTime, inPeak, inOff
    <2>4. \A x \in day.onTime : x \in Nat /\ x <= 1000
      BY <2>1, <2>3, TenthsAreWithin
    <2>5. \A x \in day.peakOnTime : x \in Nat /\ x <= 1000
      BY <2>2, <2>3, TenthsAreWithin
    <2>6. \A x \in day.offPeakOnTime : x \in Nat /\ x <= 1000
      BY <2>2, <2>3, TenthsAreWithin
    <2> QED BY <2>4, <2>5, <2>6
  <1>6. day.reliability \subseteq 0 .. 1000
    <2> DEFINE most == row["scheduled"]
    <2>1. runs \in Nat /\ runs <= most /\ most \in Nat
      BY <1>3
    <2>2. day.reliability = Tenths(runs, most)
      BY <1>1
    <2> HIDE DEF runs, most
    <2>3. \A x \in day.reliability : x \in Nat /\ x <= 1000
      BY <2>1, <2>2, TenthsAreWithin
    <2> QED BY <2>3
  <1>7. day.occupancy \subseteq 0 .. 4
    <2> DEFINE sum == row["scoreSum"]
               n == row["scored"]
    <2>1. sum \in Nat /\ n \in Nat /\ sum <= 4 * n
      BY <1>3 DEF WholeIsSound
    <2> HIDE DEF sum, n
    <2>2. 0 * n <= sum
      BY <2>1
    <2>3. n > 0 => Rounded(sum, n) \in Int /\ 0 <= Rounded(sum, n) /\ Rounded(sum, n) <= 4
      BY <2>1, <2>2, RoundedAtMost, RoundedAtLeast
    <2> QED BY <1>2, <2>3 DEF Mean, sum, n
  <1>8. \A x \in day.avgDelay : x <= row["max"]
    <2>1. row["delaySum"] <= row["max"] * row["tracked"]
      BY <1>3 DEF WholeIsSound
    <2>2. row["tracked"] > 0 => Rounded(row["delaySum"], row["tracked"]) <= row["max"]
      BY <1>3, <2>1, RoundedAtMost
    <2> QED BY <1>2, <2>2 DEF Mean
  <1>9. \A x \in day.p90 : x <= row["max"]
    <2>1. row["p90Sum"] <= row["max"] * row["samples"]
      BY <1>3 DEF WholeIsSound
    <2>2. row["samples"] > 0 => Rounded(row["p90Sum"], row["samples"]) <= row["max"]
      BY <1>3, <2>1, RoundedAtMost
    <2> QED BY <1>2, <2>2 DEF Mean
  <1>10. \A x \in day.p50, y \in day.p90 : x <= y
    <2>1. row["p50Sum"] <= row["p90Sum"]
      BY DEF WholeIsSound
    <2>2. row["samples"] > 0 => Rounded(row["p50Sum"], row["samples"]) <= Rounded(row["p90Sum"], row["samples"])
      BY <1>3, <2>1, RoundedRises
    <2> QED BY <1>2, <2>2 DEF Mean
  <1> QED BY <1>4, <1>5, <1>6, <1>7, <1>8, <1>9, <1>10 DEF day

\* A column of the rows, added up over some days and lines.
Rows(f, cells) == SumFunctionOnSet([p \in Period \X Badges |-> rowOf[p[1]][p[2]][f]], cells)

LEMMA BadgesFinite == IsFiniteSet(Badges) /\ IsFiniteSet(Period) /\ IsFiniteSet(Period \X Badges)
  <1>1. IsFiniteSet(Range(TripLine))
    BY LinePerformanceAssumption, RangeIsFinite
  <1>2. IsFiniteSet(Badges)
    BY <1>1, FS_AddElement DEF Badges
  <1>3. IsFiniteSet(Period)
    <2>1. IsFiniteSet({1}) /\ IsFiniteSet({2}) /\ Period = {1} \cup {2}
      BY FS_Singleton DEF Period
    <2> QED BY <2>1, FS_Union
  <1> QED BY <1>2, <1>3, FS_Product

\* Over any days and lines the delayed trips are some of those tracked, and both
\* are the sums of their parts.
LEMMA RowsAreSound ==
    ASSUME SoundInv, NEW cells \in SUBSET (Period \X Badges)
    PROVE  /\ Rows("tracked", cells) \in Nat /\ Rows("delayed", cells) \in Nat
           /\ Rows("delayed", cells) <= Rows("tracked", cells)
  <1> DEFINE all  == [p \in Period \X Badges |-> rowOf[p[1]][p[2]]["tracked"]]
             late == [p \in Period \X Badges |-> rowOf[p[1]][p[2]]["delayed"]]
  <1>1. \A p \in cells : late[p] \in Nat /\ all[p] \in Nat /\ late[p] <= all[p]
    <2> SUFFICES ASSUME NEW p \in cells PROVE late[p] \in Nat /\ all[p] \in Nat /\ late[p] <= all[p]
      OBVIOUS
    <2>1. WholeIsSound(rowOf[p[1]][p[2]])
      BY DEF SoundInv
    <2> DEFINE row == rowOf[p[1]][p[2]]
    <2>2. late[p] = row["delayed"] /\ all[p] = row["tracked"]
      OBVIOUS
    <2> HIDE DEF row, late, all
    <2>3. /\ row["delayed"] \in Nat /\ row["tracked"] \in Nat /\ row["early"] \in Nat /\ row["cancelled"] \in Nat
          /\ row["early"] + row["delayed"] + row["cancelled"] <= row["tracked"]
      BY <2>1 DEF WholeIsSound, Counted, row
    <2> QED BY <2>2, <2>3
  <1>2. IsFiniteSet(cells)
    BY BadgesFinite, FS_Subset
  <1>3. Rows("tracked", cells) = SumFunctionOnSet(all, cells) /\ Rows("delayed", cells) = SumFunctionOnSet(late, cells)
    BY DEF Rows
  <1> HIDE DEF all, late
  <1> QED BY <1>1, <1>2, <1>3, SumRises

LEMMA RowsOfParts ==
    ASSUME SoundInv, NEW A \in SUBSET (Period \X Badges), NEW B \in SUBSET (Period \X Badges), A \cap B = {}
    PROVE  /\ Rows("tracked", A \cup B) = Rows("tracked", A) + Rows("tracked", B)
           /\ Rows("delayed", A \cup B) = Rows("delayed", A) + Rows("delayed", B)
  <1>1. ASSUME NEW f \in {"tracked", "delayed"}
        PROVE  Rows(f, A \cup B) = Rows(f, A) + Rows(f, B)
    <2> DEFINE fun == [p \in Period \X Badges |-> rowOf[p[1]][p[2]][f]]
    <2>1. ASSUME NEW p \in Period \X Badges PROVE fun[p] \in Int
      <3>1. WholeIsSound(rowOf[p[1]][p[2]])
        BY DEF SoundInv
      <3>2. rowOf[p[1]][p[2]][f] \in Nat
        BY <3>1 DEF WholeIsSound, Counted
      <3> QED BY <3>2
    <2>2. IsFiniteSet(A) /\ IsFiniteSet(B)
      BY BadgesFinite, FS_Subset
    <2>3. \A x \in A \cup B : fun[x] \in Int
      BY <2>1
    <2>4. \A cells : Rows(f, cells) = SumFunctionOnSet(fun, cells)
      BY DEF Rows
    <2> HIDE DEF fun
    <2>5. SumFunctionOnSet(fun, A \cup B) = SumFunctionOnSet(fun, A) + SumFunctionOnSet(fun, B)
      BY <2>2, <2>3, SumOfParts
    <2> QED BY <2>4, <2>5
  <1> QED BY <1>1

\* That a share of trips on time, in tenths of a percent, is reported as at least q.
Reaches(q, n, k) == 2 * (q * n) <= 2 * (1000 * (n - k)) + n

LEMMA ReachesRounded ==
    ASSUME NEW q \in Int, NEW n \in Nat, NEW k \in Nat, n > 0
    PROVE  /\ Rounded(1000 * (n - k), n) \in Int
           /\ q <= Rounded(1000 * (n - k), n) <=> Reaches(q, n, k)
  <1> DEFINE m == 1000 * (n - k)
  <1>1. m \in Int
    OBVIOUS
  <1> HIDE DEF m
  <1>2. Rounded(m, n) \in Int /\ (q <= Rounded(m, n) <=> 2 * (q * n) <= 2 * m + n)
    BY <1>1, RoundedIsNearest
  <1> QED BY <1>2 DEF m, Reaches

\* What two groups of trips reach, they reach together.
LEMMA ReachesTogether ==
    ASSUME NEW q \in Int, NEW n \in Nat, NEW k \in Nat, NEW m \in Nat, NEW j \in Nat,
           Reaches(q, n, k), Reaches(q, m, j)
    PROVE  Reaches(q, n + m, k + j)
  <1> DEFINE a == q * n
             b == q * m
  <1>1. a \in Int /\ b \in Int /\ q * (n + m) = a + b
    OBVIOUS
  <1>2. 2 * a <= 2 * (1000 * (n - k)) + n /\ 2 * b <= 2 * (1000 * (m - j)) + m
    BY DEF Reaches
  <1> HIDE DEF a, b
  <1>3. 2 * (a + b) <= 2 * (1000 * ((n + m) - (k + j))) + (n + m)
    BY <1>1, <1>2
  <1> QED BY <1>1, <1>3 DEF Reaches

\* The share on time of some days and lines, as the reports have it.
OnTimeOf(cells) == Tenths(Rows("tracked", cells) - Rows("delayed", cells), Rows("tracked", cells))

LEMMA OnTimeIs ==
    ASSUME SoundInv, NEW cells \in SUBSET (Period \X Badges)
    PROVE  /\ \A x \in OnTimeOf(cells) : x \in Nat /\ x <= 1000
           /\ \A x \in OnTimeOf(cells), q \in Int :
                q <= x <=> Reaches(q, Rows("tracked", cells), Rows("delayed", cells))
           /\ OnTimeOf(cells) = {} => \A q \in Int : Reaches(q, Rows("tracked", cells), Rows("delayed", cells))
  <1> DEFINE n == Rows("tracked", cells)
             k == Rows("delayed", cells)
  <1>1. n \in Nat /\ k \in Nat /\ k <= n
    BY RowsAreSound
  <1>2. OnTimeOf(cells) = Tenths(n - k, n)
    BY DEF OnTimeOf
  <1> HIDE DEF n, k
  <1>3. \A x \in Tenths(n - k, n) : x \in Nat /\ x <= 1000
    <2> DEFINE m == n - k
    <2>1. m \in Nat /\ m <= n
      BY <1>1
    <2> HIDE DEF m
    <2>2. \A x \in Tenths(m, n) : x \in Nat /\ x <= 1000
      BY <1>1, <2>1, TenthsAreWithin
    <2> QED BY <2>2 DEF m
  <1>4. CASE n > 0
    <2>1. Tenths(n - k, n) = {Rounded(1000 * (n - k), n)}
      BY <1>4 DEF Tenths
    <2>2. \A q \in Int : q <= Rounded(1000 * (n - k), n) <=> Reaches(q, n, k)
      BY <1>1, <1>4, ReachesRounded
    <2> QED BY <1>2, <1>3, <2>1, <2>2 DEF n, k
  <1>5. CASE ~(n > 0)
    <2>1. n = 0 /\ k = 0
      BY <1>1, <1>5
    <2>2. \A q \in Int : q * 0 = 0
      OBVIOUS
    <2>3. \A q \in Int : Reaches(q, 0, 0)
      BY <2>2 DEF Reaches
    <2>4. OnTimeOf(cells) = {}
      BY <1>2, <1>5 DEF Tenths
    <2>5. \A q \in Int : Reaches(q, n, k)
      BY <2>1, <2>3
    <2> QED BY <2>4, <2>5 DEF n, k
  <1> QED BY <1>4, <1>5

\* SumOf, NetworkSummary and CompareLines in these terms.
LEMMA ReportedIs ==
    ASSUME NEW days \in SUBSET Period, NEW l \in Badges
    PROVE  /\ NetworkSummary(days).onTime = OnTimeOf(days \X Badges)
           /\ NetworkSummary(days).worst =
                LET perLine == UNION {OnTimeOf(days \X {k}) : k \in Badges}
                IN  IF perLine = {} THEN {} ELSE {Min(perLine)}
           /\ AggregatePeriod(l, days).onTime = OnTimeOf(days \X {l})
  BY DEF NetworkSummary, AggregatePeriod, OnTimeOf, Rows, SumOf

\* What every line reaches, the network does.
LEMMA NetworkReaches ==
    ASSUME SoundInv, NEW days \in SUBSET Period, NEW q \in Int,
           \A l \in Badges : Reaches(q, Rows("tracked", days \X {l}), Rows("delayed", days \X {l}))
    PROVE  Reaches(q, Rows("tracked", days \X Badges), Rows("delayed", days \X Badges))
  <1> DEFINE n(L) == Rows("tracked", days \X L)
             k(L) == Rows("delayed", days \X L)
             Good(L) == Reaches(q, n(L), k(L))
             C == {L \in SUBSET Badges : ~Good(L)}
  <1>1. \A L \in SUBSET Badges : n(L) \in Nat /\ k(L) \in Nat
    <2>1. \A L \in SUBSET Badges : days \X L \in SUBSET (Period \X Badges)
      OBVIOUS
    <2> QED BY <2>1, RowsAreSound
  <1>2. ASSUME C # {} PROVE FALSE
    <2>1. PICK L \in C : \A M \in C : Cardinality(L) <= Cardinality(M)
      <3>1. \A L \in C : IsFiniteSet(L)
        BY BadgesFinite, FS_Subset
      <3> HIDE DEF C
      <3> QED BY <1>2, <3>1, FewestOf
    <2>2. L \in SUBSET Badges /\ IsFiniteSet(L) /\ ~Good(L)
      BY <2>1, BadgesFinite, FS_Subset
    <2>3. L # {}
      <3>1. days \X {} = {}
        OBVIOUS
      <3>2. n({}) = 0 /\ k({}) = 0
        BY <3>1, SumOfNone DEF Rows
      <3>3. q * 0 = 0
        OBVIOUS
      <3>4. Good({})
        BY <3>2, <3>3 DEF Reaches
      <3> HIDE DEF Good
      <3> QED BY <2>2, <3>4
    <2>4. PICK l \in L : TRUE
      BY <2>3
    <2> DEFINE M == L \ {l}
    <2>5. Good(M) /\ M \in SUBSET Badges
      <3>1. Cardinality(M) = Cardinality(L) - 1 /\ Cardinality(L) \in Nat
        BY <2>2, <2>4, FS_RemoveElement, FS_CardinalityType
      <3>2. ~(Cardinality(L) <= Cardinality(M)) /\ M \in SUBSET Badges
        BY <2>2, <3>1
      <3> HIDE DEF M
      <3>3. M \notin C
        BY <2>1, <3>2
      <3> HIDE DEF Good
      <3> QED BY <3>2, <3>3
    <2>6. n(L) = n(M) + n({l}) /\ k(L) = k(M) + k({l})
      <3> DEFINE A == days \X M
                 B == days \X {l}
      <3>1. /\ A \in SUBSET (Period \X Badges) /\ B \in SUBSET (Period \X Badges)
            /\ A \cap B = {} /\ days \X L = A \cup B
        BY <2>2, <2>4
      <3> HIDE DEF A, B
      <3> QED BY <3>1, RowsOfParts DEF A, B
    <2>7. {l} \in SUBSET Badges /\ Good({l})
      BY <2>2, <2>4
    <2>8. n(M) \in Nat /\ k(M) \in Nat /\ n({l}) \in Nat /\ k({l}) \in Nat
      BY <1>1, <2>5, <2>7
    <2> HIDE DEF n, k, M
    <2>9. Reaches(q, n(M) + n({l}), k(M) + k({l}))
      BY <2>5, <2>7, <2>8, ReachesTogether
    <2>10. Good(L)
      BY <2>6, <2>9
    <2> QED BY <2>2, <2>10
  <1>3. Badges \notin C
    <2> HIDE DEF C
    <2> QED BY <1>2
  <1> QED BY <1>3

\* The network is not worse than its worst line.
LEMMA NetworkIsSound ==
    ASSUME SoundInv, NEW days \in SUBSET Period,
           NEW x \in NetworkSummary(days).onTime, NEW y \in NetworkSummary(days).worst
    PROVE  y <= x
  <1> DEFINE of(l) == OnTimeOf(days \X {l})
             perLine == UNION {of(l) : l \in Badges}
  <1>1. x \in OnTimeOf(days \X Badges) /\ perLine # {} /\ y = Min(perLine)
    <2>1. Network \in Badges
      BY DEF Badges
    <2> QED BY <2>1, ReportedIs
  <1>2. \A l \in Badges : days \X {l} \in SUBSET (Period \X Badges)
    OBVIOUS
  <1>3. \A l \in Badges : \A z \in of(l) : z \in Nat /\ z <= 1000
    BY <1>2, OnTimeIs
  <1>4. y \in Int /\ \A z \in perLine : y <= z
    <2>1. perLine \in SUBSET Nat
      <3>1. ASSUME NEW z \in perLine PROVE z \in Nat
        <4>1. PICK l \in Badges : z \in of(l)
          OBVIOUS
        <4> QED BY <1>3, <4>1
      <3> HIDE DEF perLine
      <3> QED BY <3>1
    <2> HIDE DEF perLine
    <2>2. PICK m \in perLine : \A i \in perLine : m <= i
      BY <1>1, <2>1, LeastOf
    <2>3. Min(perLine) \in perLine /\ \A i \in perLine : Min(perLine) <= i
      BY <2>2 DEF Min
    <2>4. y \in perLine
      BY <1>1, <2>3
    <2>5. \A i \in perLine : y <= i
      BY <1>1, <2>3
    <2>6. y \in Nat
      BY <2>1, <2>4
    <2> QED BY <2>5, <2>6
  <1>5. ASSUME NEW l \in Badges
        PROVE  Reaches(y, Rows("tracked", days \X {l}), Rows("delayed", days \X {l}))
    <2> DEFINE cells == days \X {l}
    <2>1. cells \in SUBSET (Period \X Badges) /\ of(l) = OnTimeOf(cells)
      BY <1>2
    <2>2. \A z \in of(l) : y <= z
      BY <1>4
    <2> HIDE DEF cells, of
    <2>3. /\ \A z \in of(l) : y <= z => Reaches(y, Rows("tracked", cells), Rows("delayed", cells))
          /\ of(l) = {} => Reaches(y, Rows("tracked", cells), Rows("delayed", cells))
      BY <1>4, <2>1, OnTimeIs
    <2> QED BY <2>2, <2>3 DEF cells
  <1>6. Reaches(y, Rows("tracked", days \X Badges), Rows("delayed", days \X Badges))
    BY <1>4, <1>5, NetworkReaches
  <1>7. days \X Badges \in SUBSET (Period \X Badges)
    OBVIOUS
  <1> QED BY <1>1, <1>4, <1>6, <1>7, OnTimeIs

\* What improved from one day to the next did not get worse over the two.
LEMMA ComparisonIsSound ==
    ASSUME SoundInv, NEW l \in Badges,
           NEW x \in CompareLines(l, {1}, {2}).onTime, NEW y \in CompareLines(l, {1}, Period).onTime, x > 0
    PROVE  y >= 0
  <1> DEFINE A == {1} \X {l}
             B == {2} \X {l}
             E == Period \X {l}
  <1>1. /\ A \in SUBSET (Period \X Badges) /\ B \in SUBSET (Period \X Badges) /\ A \cap B = {}
        /\ E = A \cup B /\ E \in SUBSET (Period \X Badges)
    BY DEF Period
  <1>2. /\ CompareLines(l, {1}, {2}).onTime = {b - a : a \in OnTimeOf(A), b \in OnTimeOf(B)}
        /\ CompareLines(l, {1}, Period).onTime = {e - a : a \in OnTimeOf(A), e \in OnTimeOf(E)}
    <2>1. {1} \in SUBSET Period /\ {2} \in SUBSET Period /\ Period \in SUBSET Period
      BY DEF Period
    <2>2. \A days \in SUBSET Period : AggregatePeriod(l, days).onTime = OnTimeOf(days \X {l})
      BY ReportedIs
    <2>3. /\ AggregatePeriod(l, {1}).onTime = OnTimeOf(A) /\ AggregatePeriod(l, {2}).onTime = OnTimeOf(B)
          /\ AggregatePeriod(l, Period).onTime = OnTimeOf(E)
      BY <2>1, <2>2
    <2>4. \A e : CompareLines(l, {1}, e).onTime =
            {b - a : a \in AggregatePeriod(l, {1}).onTime, b \in AggregatePeriod(l, e).onTime}
      BY DEF CompareLines
    <2> HIDE DEF A, B, E
    <2> QED BY <2>3, <2>4
  <1> HIDE DEF A, B, E
  <1>3. PICK a \in OnTimeOf(A), b \in OnTimeOf(B) : x = b - a
    BY <1>2
  <1>4. PICK c \in OnTimeOf(A), e \in OnTimeOf(E) : y = e - c
    BY <1>2
  <1>5. a \in Int /\ b \in Int /\ c \in Int /\ e \in Int /\ a = c
    <2>1. \A cells \in {A, B, E} : \A z \in OnTimeOf(cells) : z \in Nat /\ z <= 1000
      BY <1>1, OnTimeIs
    <2>2. a = c
      BY DEF OnTimeOf, Tenths
    <2>3. a \in Nat /\ b \in Nat /\ e \in Nat
      BY <2>1
    <2> QED BY <2>2, <2>3
  <1>6. a <= a /\ a <= b
    BY <1>3, <1>5
  <1>7. Reaches(a, Rows("tracked", A), Rows("delayed", A)) /\ Reaches(a, Rows("tracked", B), Rows("delayed", B))
    BY <1>1, <1>5, <1>6, OnTimeIs
  <1>8. Reaches(a, Rows("tracked", E), Rows("delayed", E))
    <2>1. /\ Rows("tracked", A) \in Nat /\ Rows("delayed", A) \in Nat
          /\ Rows("tracked", B) \in Nat /\ Rows("delayed", B) \in Nat
      BY <1>1, RowsAreSound
    <2>2. /\ Rows("tracked", E) = Rows("tracked", A) + Rows("tracked", B)
          /\ Rows("delayed", E) = Rows("delayed", A) + Rows("delayed", B)
      BY <1>1, RowsOfParts
    <2> QED BY <1>5, <1>7, <2>1, <2>2, ReachesTogether
  <1>9. a <= e
    BY <1>1, <1>5, <1>8, OnTimeIs
  <1> QED BY <1>4, <1>5, <1>9

\* However samples, rebuilds and averages of rounded averages follow each other,
\* every percentage lies within 0 .. 100 and every score within its scale, the
\* averages do not pass the maximum nor the median the 90th percentile, the
\* network is not worse than its worst line, and what improved from one day to the
\* next did not get worse over the two (HistoryService, aggregateHistorySample).
THEOREM MeasuresAlwaysSound == FiguresSpec => []MeasuresAreSound
  <1>1. SoundInv => MeasuresAreSound
    <2> SUFFICES ASSUME SoundInv PROVE MeasuresAreSound
      OBVIOUS
    <2>1. ASSUME NEW d \in Period, NEW l \in Badges
          PROVE  LET row == rowOf[d][l]
                     day == MapDailyRow(row)
                 IN  /\ row["early"] + row["delayed"] + row["cancelled"] <= row["tracked"]
                     /\ day.onTime \cup day.peakOnTime \cup day.offPeakOnTime \cup day.reliability \subseteq 0 .. 1000
                     /\ day.occupancy \subseteq 0 .. 4
                     /\ \A x \in day.avgDelay \cup day.p90 : x <= row["max"]
                     /\ \A x \in day.p50, y \in day.p90 : x <= y
      <3>1. WholeIsSound(rowOf[d][l]) /\ HalvesAreSound(rowOf[d][l])
        BY DEF SoundInv
      <3> QED BY <3>1, RowIsSound
    <2>2. \A days \in SUBSET Period :
            \A x \in NetworkSummary(days).onTime, y \in NetworkSummary(days).worst : y <= x
      BY NetworkIsSound
    <2>3. \A l \in Badges :
            \A x \in CompareLines(l, {1}, {2}).onTime, y \in CompareLines(l, {1}, Period).onTime :
              x > 0 => y >= 0
      BY ComparisonIsSound
    <2> QED BY <2>1, <2>2, <2>3 DEF MeasuresAreSound
  <1> QED BY <1>1, SoundInductive, PTL
=============================================================================
