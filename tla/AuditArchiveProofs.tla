------------------------- MODULE AuditArchiveProofs -------------------------
(***************************************************************************)
(* A verified row stands for all the events of its day (VerifiedIsWhole),  *)
(* and only events that can be restored are purged (PurgedIsRestorable),   *)
(* whether or not runs outlast their locks and whatever fails, for any     *)
(* number of events, days, runs and verify requests.  Where a run ends     *)
(* within its lock, a verified row also describes the objects that a       *)
(* restore would find (VerifiedMatchesObjectsExclusively).                 *)
(***************************************************************************)
EXTENDS MCAuditArchive, TLAPS

\* Where a run has its day, the day's events, its manifest, and its data object.
HasDay  == WorkPc \ {"idle", "list", "release"}
HasSnap == {"prev", "data", "manifest", "readback", "update"}
HasMan  == {"data", "manifest", "readback", "update"}
HasData == {"manifest", "readback", "update"}

\* The events of day d may be purged once its row is verified.
Old(d) == d + Retention < today

\* A run handles whole days that are over and whose events cannot be purged.
RunOK(r) ==
    /\ r.pc \in HasDay => r.day \in Day
    /\ \A d \in Day : d = r.day \/ d \in r.todo => d < today /\ ~Old(d)
    /\ r.pc \in HasSnap => r.snap = Of(r.day)
    /\ r.pc \in HasMan => r.man # None
    /\ r.pc \in HasData => store[r.day].data = Of(r.day)

\* A row has a manifest only once it was verified, and from then on the day's
\* events are in its data object.
RowOK(d) ==
    /\ row[d].status # "none" => d < today
    /\ row[d].status = "failed" => ~Old(d)
    /\ row[d].status = "verified" => row[d].man # None
    /\ row[d].man # None => /\ row[d].status # "none"
                            /\ row[d].sum = Of(d)
                            /\ store[d].data = Of(d)

\* A row on the word of which verify confirms a day has a manifest, still.
CheckOK(v) ==
    /\ check[v].pc # "idle" /\ check[v].row.man # None => row[check[v].day].man # None
    /\ check[v].pc = "confirm" => check[v].row.man # None

\* Only events of old days are gone.
EventOK(e) ==
    /\ occurred[e] <= today
    /\ e \in online => occurred[e] # None
    /\ occurred[e] # None /\ e \notin online => Old(occurred[e])

IInv ==
    /\ TypeOK
    /\ due => today > 1
    /\ \A w \in Worker : RunOK(work[w])
    /\ \A d \in Day : RowOK(d)
    /\ \A v \in Verifier : CheckOK(v)
    /\ \A e \in Event : EventOK(e)

-----------------------------------------------------------------------------
(* Records. *)

LEMMA Days == Day \subseteq Nat /\ None \notin Day /\ None = 0
  BY ArchiveAssumption DEF Day, None

LEMMA RunOfType ==
    ASSUME NEW pc \in WorkPc, NEW d \in Day \cup {None}, NEW left \in SUBSET Day
    PROVE  RunOf(pc, d, left) \in Run
  <1>1. None \in Manifest
    BY ArchiveAssumption DEF Manifest, None
  <1> HIDE DEF Manifest, Day, None
  <1> QED BY <1>1 DEF RunOf, Run

LEMMA RunAt ==
    ASSUME NEW r \in Run, NEW pc \in WorkPc
    PROVE  LET s == [r EXCEPT !.pc = pc] IN
           /\ s \in Run /\ s.pc = pc /\ s.day = r.day /\ s.todo = r.todo
           /\ s.snap = r.snap /\ s.man = r.man /\ s.prev = r.prev
  <1> HIDE DEF Day, Manifest, WorkPc, None
  <1> QED BY DEF Run

LEMMA RunReads ==
    ASSUME NEW r \in Run, NEW S \in SUBSET Event
    PROVE  LET s == [r EXCEPT !.snap = S, !.pc = "prev"] IN
           s \in Run /\ s.pc = "prev" /\ s.day = r.day /\ s.todo = r.todo /\ s.snap = S
  <1>1. "prev" \in WorkPc
    BY DEF WorkPc
  <1> HIDE DEF Day, Manifest, WorkPc, None
  <1> QED BY <1>1 DEF Run

LEMMA RunMakes ==
    ASSUME NEW r \in Run, NEW p \in Manifest, NEW m \in Manifest
    PROVE  LET s == [r EXCEPT !.prev = p, !.man = m, !.pc = "data"] IN
           /\ s \in Run /\ s.pc = "data" /\ s.day = r.day /\ s.todo = r.todo
           /\ s.snap = r.snap /\ s.man = m
  <1>1. "data" \in WorkPc
    BY DEF WorkPc
  <1> HIDE DEF Day, Manifest, WorkPc, None
  <1> QED BY <1>1 DEF Run

LEMMA RowAt ==
    ASSUME NEW r \in Row, NEW st \in Status
    PROVE  LET s == [r EXCEPT !.status = st] IN
           s \in Row /\ s.status = st /\ s.sum = r.sum /\ s.man = r.man
  <1> HIDE DEF Manifest, Status
  <1> QED BY DEF Row

LEMMA CheckAt ==
    ASSUME NEW c \in Check, NEW pc \in {"idle", "objects", "confirm"}
    PROVE  LET s == [c EXCEPT !.pc = pc] IN
           s \in Check /\ s.pc = pc /\ s.day = c.day /\ s.row = c.row
  <1> HIDE DEF Row, Day
  <1> QED BY DEF Check

LEMMA ObjectsAt ==
    ASSUME NEW o \in Objects, NEW data \in SUBSET Event, NEW man \in Manifest
    PROVE  /\ [o EXCEPT !.data = data] \in Objects
           /\ [o EXCEPT !.data = data].data = data
           /\ [o EXCEPT !.man = man] \in Objects
           /\ [o EXCEPT !.man = man].data = o.data
  <1> HIDE DEF Manifest
  <1> QED BY DEF Objects

LEMMA Fields ==
    /\ \A r \in Run : /\ r.pc \in WorkPc /\ r.day \in Day \cup {None} /\ r.todo \in SUBSET Day
                      /\ r.snap \in SUBSET Event /\ r.man \in Manifest /\ r.prev \in Manifest
    /\ \A c \in Check : c.day \in Day /\ c.row \in Row
    /\ \A r \in Row : r.status \in Status /\ r.man \in Manifest
  <1> HIDE DEF Manifest, Day, WorkPc, None, Status
  <1>1. \A c \in Check : c.day \in Day /\ c.row \in Row
    <2> HIDE DEF Row
    <2> QED BY DEF Check
  <1> QED BY <1>1 DEF Run, Row

LEMMA Pcs ==
    /\ HasDay = {"look", "create", "read", "prev", "data", "manifest", "readback",
                  "update", "failed"}
    /\ HasData \subseteq HasMan /\ HasMan \subseteq HasSnap /\ HasSnap \subseteq HasDay
    /\ HasSnap \subseteq Caught /\ Caught \subseteq HasDay /\ HasDay \subseteq WorkPc
  BY DEF HasDay, HasSnap, HasMan, HasData, Caught, WorkPc

-----------------------------------------------------------------------------
(* What a step that leaves the days and the events alone must show: only    *)
(* what it changes.                                                         *)

LEMMA Frame ==
    ASSUME IInv, TypeOK', due' => due,
           UNCHANGED <<today, occurred, online>>,
           \A w \in Worker : work'[w] = work[w] \/ RunOK(work[w])',
           \A d \in Day : store'[d].data \in {store[d].data, Of(d)},
           \A d \in Day : row'[d] = row[d] \/ RowOK(d)',
           \A d \in Day : row[d].man # None => row'[d].man # None,
           \A v \in Verifier : check'[v] = check[v] \/ CheckOK(v)'
    PROVE  IInv'
  <1>1. \A d : Of(d)' = Of(d) /\ (Old(d)' <=> Old(d))
    BY DEF Of, Old
  <1>2. ASSUME NEW w \in Worker PROVE RunOK(work[w])'
    <2>1. CASE work'[w] = work[w]
      <3>1. RunOK(work[w]) /\ work[w] \in Run
        BY DEF IInv, TypeOK
      <3>2. work[w].pc \in HasData => work[w].day \in Day
        BY <3>1, Pcs DEF RunOK
      <3> QED BY <1>1, <2>1, <3>1, <3>2 DEF RunOK
    <2> QED BY <2>1
  <1>3. ASSUME NEW d \in Day PROVE RowOK(d)'
    <2>1. CASE row'[d] = row[d]
      BY <1>1, <2>1 DEF IInv, RowOK
    <2> QED BY <2>1
  <1>4. ASSUME NEW v \in Verifier PROVE CheckOK(v)'
    <2>1. CASE check'[v] = check[v]
      <3>1. check[v].day \in Day
        BY Fields DEF IInv, TypeOK
      <3> QED BY <2>1, <3>1 DEF IInv, CheckOK
    <2> QED BY <2>1
  <1>5. ASSUME NEW e \in Event PROVE EventOK(e)'
    BY <1>1 DEF IInv, EventOK
  <1> QED BY <1>2, <1>3, <1>4, <1>5 DEF IInv

\* A step that changes nothing but one run.
LEMMA RunStep ==
    ASSUME IInv, NEW w \in Worker, NEW r \in Run, RunOK(r),
           work' = [work EXCEPT ![w] = r],
           UNCHANGED <<today, occurred, online, row, store, check>>,
           due' \in {due, FALSE}, lock' \in BOOLEAN, faults' \in 0 .. MaxFaults
    PROVE  IInv'
  <1>1. TypeOK'
    <2> HIDE DEF Run, Row, Day, Objects, Check, None
    <2>1. work' \in [Worker -> Run]
      BY DEF IInv, TypeOK
    <2>2. due' \in BOOLEAN
      BY DEF IInv, TypeOK
    <2> QED BY <2>1, <2>2 DEF IInv, TypeOK
  <1>2. RunOK(r)'
    <2>1. \A d : Of(d)' = Of(d) /\ (Old(d)' <=> Old(d))
      BY DEF Of, Old
    <2> QED BY <2>1 DEF RunOK
  <1>3. \A x \in Worker : work'[x] = work[x] \/ RunOK(work[x])'
    BY <1>2 DEF IInv, TypeOK
  <1>4. \A d \in Day : store'[d].data = store[d].data /\ row'[d] = row[d]
    OBVIOUS
  <1>5. \A v \in Verifier : check'[v] = check[v]
    OBVIOUS
  <1>6. due' => due
    OBVIOUS
  <1> HIDE DEF IInv, RunOK, RowOK, CheckOK, TypeOK, None
  <1> QED BY <1>1, <1>3, <1>4, <1>5, <1>6, Frame

\* A run that has only moved on.
LEMMA Moved ==
    ASSUME IInv, NEW w \in Worker, NEW pc \in WorkPc,
           pc \in HasDay => work[w].pc \in HasDay,
           pc \in HasSnap => work[w].pc \in HasSnap,
           pc \in HasMan => work[w].pc \in HasMan,
           pc \in HasData => work[w].pc \in HasData
    PROVE  /\ [work[w] EXCEPT !.pc = pc] \in Run
           /\ RunOK([work[w] EXCEPT !.pc = pc])
  <1>1. work[w] \in Run /\ RunOK(work[w])
    BY DEF IInv, TypeOK
  <1> DEFINE s == [work[w] EXCEPT !.pc = pc]
  <1>2. /\ s \in Run /\ s.pc = pc /\ s.day = work[w].day /\ s.todo = work[w].todo
        /\ s.snap = work[w].snap /\ s.man = work[w].man
    BY <1>1, RunAt
  <1> HIDE DEF s
  <1>3. RunOK(s)
    BY <1>1, <1>2 DEF RunOK
  <1> QED BY <1>2, <1>3 DEF s

\* A run that has done its day, and one that begins with some days.
LEMMA Resting ==
    /\ Done \in Run /\ RunOK(Done)
    /\ NoWork \in Run /\ RunOK(NoWork)
  <1>1. {"release", "idle"} \subseteq WorkPc /\ None \in Day \cup {None} /\ {} \in SUBSET Day
    BY DEF WorkPc
  <1>2. Done \in Run /\ NoWork \in Run
    BY <1>1, RunOfType DEF Done, NoWork
  <1>3. /\ Done.pc = "release" /\ Done.day = None /\ Done.todo = {}
        /\ NoWork.pc = "idle" /\ NoWork.day = None /\ NoWork.todo = {}
    BY DEF Done, NoWork, RunOf
  <1>4. {"release", "idle"} \cap (HasDay \cup HasSnap \cup HasMan \cup HasData) = {}
    BY Pcs DEF HasSnap, HasMan, HasData
  <1> HIDE DEF Done, NoWork
  <1> QED BY <1>2, <1>3, <1>4, Days DEF RunOK

LEMMA Beginning ==
    ASSUME IInv, NEW d \in Day, NEW left \in SUBSET Day,
           \A x \in left \cup {d} : x < today /\ ~Old(x)
    PROVE  RunOf("look", d, left) \in Run /\ RunOK(RunOf("look", d, left))
  <1>1. "look" \in WorkPc /\ "look" \notin HasSnap \cup HasMan \cup HasData
    BY DEF WorkPc, HasSnap, HasMan, HasData
  <1>2. RunOf("look", d, left) \in Run
    BY <1>1, RunOfType
  <1> DEFINE r == RunOf("look", d, left)
  <1>3. r.pc = "look" /\ r.day = d /\ r.todo = left
    BY DEF RunOf
  <1> HIDE DEF r
  <1>4. RunOK(r)
    BY <1>1, <1>3 DEF RunOK
  <1> QED BY <1>2, <1>4 DEF r

LEMMA GoingOn ==
    ASSUME IInv, NEW w \in Worker, NEW left \in SUBSET Day, GoOn(w, left),
           \A x \in left : x < today /\ ~Old(x)
    PROVE  \E r \in Run : RunOK(r) /\ work' = [work EXCEPT ![w] = r]
  <1>1. CASE work' = [work EXCEPT ![w] = Done]
    BY <1>1, Resting
  <1>2. CASE \E d \in left : work' = [work EXCEPT ![w] = RunOf("look", d, left \ {d})]
    <2>1. PICK d \in left : work' = [work EXCEPT ![w] = RunOf("look", d, left \ {d})]
      BY <1>2
    <2>2. d \in Day /\ left \ {d} \in SUBSET Day
          /\ \A x \in (left \ {d}) \cup {d} : x < today /\ ~Old(x)
      OBVIOUS
    <2>3. RunOf("look", d, left \ {d}) \in Run /\ RunOK(RunOf("look", d, left \ {d}))
      BY <2>2, Beginning
    <2> QED BY <2>1, <2>3
  <1> QED BY <1>1, <1>2 DEF GoOn

-----------------------------------------------------------------------------
(* Steps that change one run only. *)

LEMMA Current ==
    ASSUME IInv, NEW w \in Worker
    PROVE  /\ work[w] \in Run /\ RunOK(work[w])
           /\ work[w].pc \in HasDay => /\ Window(w) \in Day /\ Window(w) < today
                                       /\ ~Old(Window(w)) /\ RowOK(Window(w))
                                       /\ row[Window(w)] \in Row
                                       /\ store[Window(w)] \in Objects
           /\ work[w].todo \in SUBSET Day
           /\ \A x \in work[w].todo : x < today /\ ~Old(x)
  <1>1. work[w] \in Run /\ RunOK(work[w])
    BY DEF IInv, TypeOK
  <1>2. work[w].todo \in SUBSET Day
    BY <1>1, Fields
  <1>3. ASSUME work[w].pc \in HasDay
        PROVE  /\ Window(w) \in Day /\ Window(w) < today /\ ~Old(Window(w))
               /\ RowOK(Window(w))
               /\ row[Window(w)] \in Row /\ store[Window(w)] \in Objects
    <2>1. Window(w) \in Day
      BY <1>1, <1>3 DEF RunOK, Window
    <2>2. Window(w) < today /\ ~Old(Window(w))
      BY <1>1, <2>1 DEF RunOK, Window
    <2>3. RowOK(Window(w)) /\ row[Window(w)] \in Row /\ store[Window(w)] \in Objects
      BY <2>1 DEF IInv, TypeOK
    <2> QED BY <2>1, <2>2, <2>3
  <1>4. \A x \in work[w].todo : x < today /\ ~Old(x)
    BY <1>1, <1>2 DEF RunOK
  <1> QED BY <1>1, <1>2, <1>3, <1>4

LEMMA TickKeeps ==
    ASSUME IInv, NEW w \in Worker, DailyTick(w) \/ RetryTick(w)
    PROVE  IInv'
  <1> USE DEF IInv, TypeOK
  <1>1. CASE DailyTick(w)
    <2>1. today - 1 \in Day /\ today - 1 < today /\ ~Old(today - 1)
      BY <1>1, ArchiveAssumption DEF DailyTick, Day, Old
    <2> DEFINE r == RunOf("look", today - 1, {})
    <2>2. r \in Run /\ RunOK(r)
      BY <2>1, Beginning
    <2> HIDE DEF r, IInv
    <2>3. /\ work' = [work EXCEPT ![w] = r]
          /\ UNCHANGED <<today, occurred, online, row, store, check, faults>>
          /\ lock' = TRUE /\ due' = FALSE
      BY <1>1 DEF DailyTick, r
    <2>4. faults' \in 0 .. MaxFaults
      BY <2>3 DEF IInv
    <2> HIDE DEF TypeOK
    <2> QED BY <2>2, <2>3, <2>4, RunStep
  <1>2. CASE RetryTick(w)
    <2>1. "list" \in WorkPc /\ "list" \notin HasDay \cup HasSnap \cup HasMan \cup HasData
      BY DEF WorkPc, HasDay, HasSnap, HasMan, HasData
    <2> DEFINE r == [work[w] EXCEPT !.pc = "list"]
    <2> HIDE DEF IInv
    <2>2. r \in Run /\ RunOK(r)
      BY <2>1, Moved
    <2>3. /\ work' = [work EXCEPT ![w] = r]
          /\ UNCHANGED <<today, occurred, online, row, store, check, faults>>
          /\ lock' = TRUE /\ due' = due
      BY <1>2 DEF RetryTick, Goto
    <2>4. faults' \in 0 .. MaxFaults
      BY <2>3 DEF IInv
    <2> HIDE DEF r, TypeOK
    <2> QED BY <2>2, <2>3, <2>4, RunStep
  <1> QED BY <1>1, <1>2

\* The same for a step that only moves the run on.
LEMMA MoveStep ==
    ASSUME IInv, NEW w \in Worker, NEW pc \in WorkPc, Goto(w, pc),
           pc \in HasDay => work[w].pc \in HasDay,
           pc \in HasSnap => work[w].pc \in HasSnap,
           pc \in HasMan => work[w].pc \in HasMan,
           pc \in HasData => work[w].pc \in HasData,
           UNCHANGED <<today, due, occurred, online, row, store, lock, check, faults>>
    PROVE  IInv'
  <1> DEFINE r == [work[w] EXCEPT !.pc = pc]
  <1>1. r \in Run /\ RunOK(r)
    BY Moved
  <1>2. work' = [work EXCEPT ![w] = r]
    BY DEF Goto
  <1>3. due' \in {due, FALSE} /\ lock' \in BOOLEAN /\ faults' \in 0 .. MaxFaults
    BY DEF IInv, TypeOK
  <1> HIDE DEF r
  <1> QED BY <1>1, <1>2, <1>3, RunStep

\* The same for a step after which the run goes on with some days.
LEMMA GoOnStep ==
    ASSUME IInv, NEW w \in Worker, NEW left \in SUBSET Day, GoOn(w, left),
           \A x \in left : x < today /\ ~Old(x),
           UNCHANGED <<today, due, occurred, online, row, store, lock, check, faults>>
    PROVE  IInv'
  <1>1. PICK r \in Run : RunOK(r) /\ work' = [work EXCEPT ![w] = r]
    BY GoingOn
  <1>2. due' \in {due, FALSE} /\ lock' \in BOOLEAN /\ faults' \in 0 .. MaxFaults
    BY DEF IInv, TypeOK
  <1> QED BY <1>1, <1>2, RunStep

LEMMA ListKeeps ==
    ASSUME IInv, NEW w \in Worker, ListFailed(w)
    PROVE  IInv'
  <1> DEFINE left == Oldest({d \in Day : row[d].status = "failed"})
  <1>1. left \in SUBSET Day /\ \A x \in left : row[x].status = "failed"
    BY DEF Oldest
  <1>2. \A x \in left : x < today /\ ~Old(x)
    BY <1>1 DEF IInv, RowOK
  <1>3. /\ GoOn(w, left)
        /\ UNCHANGED <<today, due, occurred, online, row, store, lock, check, faults>>
    BY DEF ListFailed
  <1> HIDE DEF left
  <1> QED BY <1>1, <1>2, <1>3, GoOnStep

LEMMA LookKeeps ==
    ASSUME IInv, NEW w \in Worker, Look(w)
    PROVE  IInv'
  <1>1. UNCHANGED <<today, due, occurred, online, row, store, lock, check, faults>>
    BY DEF Look
  <1>2. CASE GoOn(w, work[w].todo)
    BY <1>1, <1>2, Current, GoOnStep
  <1>3. ASSUME NEW pc \in {"create", "read"}, Goto(w, pc)
        PROVE  IInv'
    <2>1. pc \in WorkPc /\ pc \notin HasSnap \cup HasMan \cup HasData /\ "look" \in HasDay
      BY DEF WorkPc, HasDay, HasSnap, HasMan, HasData
    <2>2. work[w].pc = "look"
      BY DEF Look, At
    <2> QED BY <1>1, <1>3, <2>1, <2>2, MoveStep
  <1>4. GoOn(w, work[w].todo) \/ Goto(w, "create") \/ Goto(w, "read")
    BY DEF Look, NextWindow
  <1> QED BY <1>2, <1>3, <1>4

\* None of the day's events is gone.
LEMMA ReadRowsKeeps ==
    ASSUME IInv, NEW w \in Worker, ReadRows(w)
    PROVE  IInv'
  <1>1. work[w].pc = "read" /\ work[w].pc \in HasDay
    BY Pcs DEF ReadRows, At
  <1>2. Window(w) \in Day /\ ~Old(Window(w)) /\ work[w] \in Run /\ RunOK(work[w])
    BY <1>1, Current
  <1>3. online \cap Of(Window(w)) = Of(Window(w))
    <2>1. ASSUME NEW e \in Event, occurred[e] = Window(w) PROVE e \in online
      BY <1>2, <2>1, Days DEF IInv, EventOK
    <2> QED BY <2>1 DEF Of
  <1> DEFINE r == [work[w] EXCEPT !.snap = online \cap Of(Window(w)), !.pc = "prev"]
  <1>4. Of(Window(w)) \in SUBSET Event /\ "prev" \in WorkPc
    BY DEF Of, WorkPc
  <1>5. /\ r \in Run /\ r.pc = "prev" /\ r.day = work[w].day /\ r.todo = work[w].todo
        /\ r.snap = Of(work[w].day)
    BY <1>2, <1>3, <1>4, RunReads DEF Window
  <1>6. work' = [work EXCEPT ![w] = r]
    BY DEF ReadRows
  <1> HIDE DEF r
  <1>7. RunOK(r)
    <2>1. "prev" \notin HasMan \cup HasData
      BY DEF HasMan, HasData
    <2> QED BY <1>1, <1>2, <1>5, <2>1 DEF RunOK
  <1>8. /\ UNCHANGED <<today, due, occurred, online, row, store, lock, check, faults>>
        /\ lock' \in BOOLEAN /\ faults' \in 0 .. MaxFaults
    BY DEF ReadRows, IInv, TypeOK
  <1> QED BY <1>5, <1>6, <1>7, <1>8, RunStep

LEMMA ReadPreviousKeeps ==
    ASSUME IInv, NEW w \in Worker, ReadPrevious(w)
    PROVE  IInv'
  <1>1. work[w].pc = "prev" /\ "prev" \in HasDay \cap HasSnap
    BY Pcs DEF ReadPrevious, At, HasSnap
  <1>2. work[w] \in Run /\ RunOK(work[w]) /\ None \in Manifest
    BY Current, ArchiveAssumption DEF Manifest, None
  <1>3. ASSUME NEW prev \in Manifest, MakeManifest(w, prev)
        PROVE  IInv'
    <2>1. PICK m \in Manifest \ Mentioned :
            work' = [work EXCEPT ![w].prev = prev, ![w].man = m, ![w].pc = "data"]
      BY <1>3 DEF MakeManifest
    <2>2. m \in Manifest /\ m # None
      BY DEF Mentioned
    <2> DEFINE r == [work[w] EXCEPT !.prev = prev, !.man = m, !.pc = "data"]
    <2>3. work' = [work EXCEPT ![w] = r]
      BY <2>1
    <2>4. /\ r \in Run /\ r.pc = "data" /\ r.day = work[w].day /\ r.todo = work[w].todo
          /\ r.snap = work[w].snap /\ r.man = m
      <3>1. work[w] \in Run /\ prev \in Manifest /\ m \in Manifest
        BY <1>2, <1>3, <2>2
      <3> QED BY <3>1, RunMakes, ZenonT(60)
    <2> HIDE DEF r
    <2>5. RunOK(r)
      <3>1. "data" \notin HasData
        BY DEF HasData
      <3> QED BY <1>1, <1>2, <2>2, <2>4, <3>1 DEF RunOK
    <2>6. /\ UNCHANGED <<today, due, occurred, online, row, store, lock, check, faults>>
          /\ lock' \in BOOLEAN /\ faults' \in 0 .. MaxFaults
      BY DEF ReadPrevious, IInv, TypeOK
    <2> QED BY <2>3, <2>4, <2>5, <2>6, RunStep
  <1>4. \E prev \in Manifest : MakeManifest(w, prev)
    <2>1. CASE MakeManifest(w, None)
      BY <1>2, <2>1
    <2>2. CASE \E d \in Earlier(Window(w)) : MakeManifest(w, row[d].man)
      <3>1. PICK d \in Earlier(Window(w)) : MakeManifest(w, row[d].man)
        BY <2>2
      <3>2. d \in Day
        <4>1. Window(w) \in Day
          BY <1>1, Current
        <4> QED BY <4>1, ArchiveAssumption DEF Earlier, Day
      <3>3. row[d] \in Row
        BY <3>2 DEF IInv, TypeOK
      <3> QED BY <3>1, <3>3, Fields
    <2> QED BY <2>1, <2>2 DEF ReadPrevious
  <1> QED BY <1>3, <1>4

LEMMA ReadBackKeeps ==
    ASSUME IInv, NEW w \in Worker, ReadBack(w)
    PROVE  IInv'
  <1>1. work[w].pc = "readback" /\ {"update", "failed"} \subseteq WorkPc
        /\ "readback" \in HasDay \cap HasSnap \cap HasMan \cap HasData
    BY DEF ReadBack, At, WorkPc, HasDay, HasSnap, HasMan, HasData
  <1>2. UNCHANGED <<today, due, occurred, online, row, store, lock, check, faults>>
    BY DEF ReadBack
  <1>3. PICK pc \in {"update", "failed"} : Goto(w, pc)
    BY DEF ReadBack
  <1> QED BY <1>1, <1>2, <1>3, MoveStep

LEMMA FaultCounted ==
    ASSUME IInv, Fault
    PROVE  faults' \in 0 .. MaxFaults
  <1>1. faults \in 0 .. MaxFaults
    BY DEF IInv, TypeOK
  <1> QED BY <1>1, ArchiveAssumption DEF Fault

\* The run ends.
LEMMA EndKeeps ==
    ASSUME IInv, NEW w \in Worker, Release(w) \/ Abort(w)
    PROVE  IInv'
  <1>1. PICK r \in {Done, NoWork} : work' = [work EXCEPT ![w] = r]
    BY DEF Release, Abort
  <1>2. r \in Run /\ RunOK(r)
    BY Resting
  <1>3. UNCHANGED <<today, due, occurred, online, row, store, check>>
    BY DEF Release, Abort
  <1>4. lock' \in BOOLEAN
    BY DEF Release, Abort, IInv, TypeOK
  <1>5. faults' \in 0 .. MaxFaults
    BY FaultCounted DEF Release, Abort, IInv, TypeOK
  <1> QED BY <1>1, <1>2, <1>3, <1>4, <1>5, RunStep

-----------------------------------------------------------------------------
(* Steps that change a row or an object. *)

\* A step that gives day d another row and one run another state.
LEMMA RowStep ==
    ASSUME IInv, NEW w \in Worker, NEW r \in Run, RunOK(r), work' = [work EXCEPT ![w] = r],
           NEW d \in Day, NEW new \in Row, row' = [row EXCEPT ![d] = new],
           new.status # "none", d < today, ~Old(d),
           new.status = "verified" => new.man # None,
           row[d].man # None => new.man # None,
           new.man # None => new.sum = Of(d) /\ store[d].data = Of(d),
           UNCHANGED <<today, due, occurred, online, store, lock, check>>,
           faults' \in 0 .. MaxFaults
    PROVE  IInv'
  <1> HIDE DEF Run, Row, Objects, Check, None
  <1>1. work' \in [Worker -> Run] /\ row' \in [Day -> Row]
    BY DEF IInv, TypeOK
  <1>2. TypeOK'
    BY <1>1 DEF IInv, TypeOK
  <1>3. \A e : Of(e)' = Of(e) /\ (Old(e)' <=> Old(e))
    BY DEF Of, Old
  <1>4. \A x \in Worker : work'[x] = work[x] \/ RunOK(work[x])'
    <2>1. RunOK(r)'
      BY <1>3 DEF RunOK
    <2>2. work \in [Worker -> Run]
      BY DEF IInv, TypeOK
    <2> QED BY <2>1, <2>2
  <1>5. row'[d] = new /\ \A x \in Day : x # d => row'[x] = row[x]
    BY DEF IInv, TypeOK
  <1>6. RowOK(d)'
    BY <1>3, <1>5 DEF RowOK
  <1>7. \A x \in Day : row'[x] = row[x] \/ RowOK(x)'
    BY <1>5, <1>6
  <1>8. \A x \in Day : row[x].man # None => row'[x].man # None
    BY <1>5
  <1>9. \A v \in Verifier : check'[v] = check[v]
    OBVIOUS
  <1>10. \A x \in Day : store'[x].data = store[x].data
    OBVIOUS
  <1> HIDE DEF IInv, RunOK, RowOK, CheckOK, TypeOK
  <1> QED BY <1>2, <1>4, <1>7, <1>8, <1>9, <1>10, Frame

LEMMA CreateKeeps ==
    ASSUME IInv, NEW w \in Worker, Create(w)
    PROVE  IInv'
  <1> DEFINE d == Window(w)
  <1>1. work[w].pc = "create" /\ "create" \in HasDay
    BY Pcs DEF Create, At
  <1>2. d \in Day /\ d < today /\ ~Old(d) /\ row[d] \in Row /\ RowOK(d)
    BY <1>1, Current
  <1>3. CASE work' = [work EXCEPT ![w] = Done] /\ row' = row
    <2>1. /\ UNCHANGED <<today, due, occurred, online, store, lock, check, faults>>
          /\ lock' \in BOOLEAN /\ faults' \in 0 .. MaxFaults
      BY DEF Create, IInv, TypeOK
    <2> QED BY <1>3, <2>1, Resting, RunStep
  <1>4. CASE /\ row' = [row EXCEPT ![d].status = "pending"] /\ Goto(w, "read")
             /\ row[d].status = "none"
    <2> DEFINE new == [row[d] EXCEPT !.status = "pending"]
               r == [work[w] EXCEPT !.pc = "read"]
    <2>1. "read" \in WorkPc /\ "read" \notin HasSnap \cup HasMan \cup HasData
          /\ "pending" \in Status
      BY DEF WorkPc, HasSnap, HasMan, HasData, Status
    <2>2. r \in Run /\ RunOK(r)
      BY <1>1, <2>1, Moved
    <2>3. new \in Row /\ new.status = "pending" /\ new.man = row[d].man
      BY <1>2, <2>1, RowAt
    <2>4. row[d].man = None
      BY <1>2, <1>4 DEF RowOK
    <2>5. work' = [work EXCEPT ![w] = r] /\ row' = [row EXCEPT ![d] = new]
      BY <1>4 DEF Goto
    <2>6. /\ UNCHANGED <<today, due, occurred, online, store, lock, check>>
          /\ faults' \in 0 .. MaxFaults
      BY DEF Create, IInv, TypeOK
    <2> HIDE DEF new, r, d
    <2> QED BY <1>2, <2>2, <2>3, <2>4, <2>5, <2>6, RowStep
  <1> QED BY <1>3, <1>4 DEF Create

LEMMA MarkFailedKeeps ==
    ASSUME IInv, NEW w \in Worker, MarkFailed(w)
    PROVE  IInv'
  <1> DEFINE d == Window(w)
             new == [row[d] EXCEPT !.status = "failed"]
  <1>1. work[w].pc = "failed" /\ "failed" \in HasDay /\ "failed" \in Status
    BY Pcs DEF MarkFailed, At, Status
  <1>2. d \in Day /\ d < today /\ ~Old(d) /\ row[d] \in Row /\ RowOK(d)
    BY <1>1, Current
  <1>3. new \in Row /\ new.status = "failed" /\ new.man = row[d].man /\ new.sum = row[d].sum
    BY <1>1, <1>2, RowAt
  <1>4. work' = [work EXCEPT ![w] = Done] /\ row' = [row EXCEPT ![d] = new]
    BY DEF MarkFailed
  <1>5. new.man # None => new.sum = Of(d) /\ store[d].data = Of(d)
    BY <1>2, <1>3 DEF RowOK
  <1>6. /\ UNCHANGED <<today, due, occurred, online, store, lock, check>>
        /\ faults' \in 0 .. MaxFaults
    BY DEF MarkFailed, IInv, TypeOK
  <1> HIDE DEF new, d
  <1> QED BY <1>2, <1>3, <1>4, <1>5, <1>6, Resting, RowStep

\* The row that an update writes.
LEMMA VerifiedRow ==
    ASSUME IInv, NEW w \in Worker, work[w].pc = "update"
    PROVE  /\ Verified(w) \in Row /\ Verified(w).status = "verified" /\ Verified(w).man # None
           /\ Verified(w).sum = Of(Window(w)) /\ store[Window(w)].data = Of(Window(w))
  <1>1. "update" \in HasSnap \cap HasMan \cap HasData
    BY DEF HasSnap, HasMan, HasData
  <1>2. work[w] \in Run /\ RunOK(work[w])
    BY Current
  <1>3. "verified" \in Status
    BY DEF Status
  <1>4. Verified(w) \in Row
    <2> HIDE DEF Status, Manifest
    <2> QED BY <1>2, <1>3, Fields DEF Verified, Row
  <1>5. /\ Verified(w).status = "verified" /\ Verified(w).man = work[w].man
        /\ Verified(w).sum = work[w].snap
    BY DEF Verified
  <1> QED BY <1>1, <1>2, <1>4, <1>5 DEF RunOK, Window

LEMMA UpdateKeeps ==
    ASSUME IInv, NEW w \in Worker, Update(w)
    PROVE  IInv'
  <1> DEFINE d == Window(w)
             new == Verified(w)
  <1>1. work[w].pc = "update" /\ "update" \in HasDay
    BY Pcs DEF Update, At
  <1>2. d \in Day /\ d < today /\ ~Old(d)
    BY <1>1, Current
  <1>3. /\ new \in Row /\ new.status = "verified" /\ new.man # None
        /\ new.sum = Of(d) /\ store[d].data = Of(d)
    BY <1>1, VerifiedRow
  <1>4. row' = [row EXCEPT ![d] = new] /\ GoOn(w, work[w].todo)
    BY DEF Update, NextWindow
  <1>5. PICK r \in Run : RunOK(r) /\ work' = [work EXCEPT ![w] = r]
    BY <1>4, Current, GoingOn
  <1>6. /\ UNCHANGED <<today, due, occurred, online, store, lock, check>>
        /\ faults' \in 0 .. MaxFaults
    BY DEF Update, IInv, TypeOK
  <1> HIDE DEF new, d
  <1> QED BY <1>2, <1>3, <1>4, <1>5, <1>6, RowStep

\* A step that puts an object of day d and moves one run on.
LEMMA StoreStep ==
    ASSUME IInv, NEW w \in Worker, NEW d \in Day, NEW new \in Objects,
           store' = [store EXCEPT ![d] = new], new.data \in {store[d].data, Of(d)},
           NEW r \in Run, work' = [work EXCEPT ![w] = r], RunOK(work[w])',
           UNCHANGED <<today, due, occurred, online, row, lock, check>>,
           faults' \in 0 .. MaxFaults
    PROVE  IInv'
  <1> HIDE DEF Run, Row, Objects, Check, None
  <1>1. work' \in [Worker -> Run] /\ store' \in [Day -> Objects]
    BY DEF IInv, TypeOK
  <1>2. TypeOK'
    BY <1>1 DEF IInv, TypeOK
  <1>3. \A x \in Worker : work'[x] = work[x] \/ RunOK(work[x])'
    <2>1. work \in [Worker -> Run]
      BY DEF IInv, TypeOK
    <2> QED BY <2>1
  <1>4. \A x \in Day : store'[x].data \in {store[x].data, Of(x)}
    BY DEF IInv, TypeOK
  <1>5. \A x \in Day : row'[x] = row[x]
    OBVIOUS
  <1>6. \A v \in Verifier : check'[v] = check[v]
    OBVIOUS
  <1> HIDE DEF IInv, RunOK, RowOK, CheckOK, TypeOK
  <1> QED BY <1>2, <1>3, <1>4, <1>5, <1>6, Frame

\* What is put is the whole day.
LEMMA PutObject ==
    ASSUME IInv, NEW w \in Worker, work[w].pc \in {"data", "manifest"}
    PROVE  LET d == Window(w) IN
           /\ d \in Day /\ work[w].snap = Of(d)
           /\ [store[d] EXCEPT !.data = work[w].snap] \in Objects
           /\ [store[d] EXCEPT !.data = work[w].snap].data = Of(d)
           /\ [store[d] EXCEPT !.man = work[w].man] \in Objects
           /\ [store[d] EXCEPT !.man = work[w].man].data = store[d].data
  <1>1. {"data", "manifest"} \subseteq HasDay \cap HasSnap
    BY DEF HasDay, HasSnap, WorkPc
  <1>2. work[w] \in Run /\ RunOK(work[w]) /\ Window(w) \in Day /\ store[Window(w)] \in Objects
    BY <1>1, Current
  <1>3. work[w].snap = Of(Window(w))
    BY <1>1, <1>2 DEF RunOK, Window
  <1>4. work[w].snap \in SUBSET Event /\ work[w].man \in Manifest
    BY <1>2, Fields
  <1> HIDE DEF Window, Day, Manifest, Objects, Run
  <1> QED BY <1>2, <1>3, <1>4, ObjectsAt

LEMMA PutKeeps ==
    ASSUME IInv, NEW w \in Worker, PutData(w) \/ PutManifest(w)
    PROVE  IInv'
  <1> DEFINE d == Window(w)
  <1>1. /\ UNCHANGED <<today, due, occurred, online, row, lock, check>>
        /\ faults' \in 0 .. MaxFaults
    BY DEF PutData, PutManifest, IInv, TypeOK
  <1>2. \A x : Of(x)' = Of(x) /\ (Old(x)' <=> Old(x))
    BY <1>1 DEF Of, Old
  <1>3. work[w] \in Run /\ RunOK(work[w])
    BY Current
  <1>4. CASE PutData(w)
    <2> DEFINE new == [store[d] EXCEPT !.data = work[w].snap]
               r == [work[w] EXCEPT !.pc = "manifest"]
    <2>1. work[w].pc = "data" /\ "data" \in HasDay \cap HasSnap \cap HasMan
          /\ "manifest" \in WorkPc
      BY <1>4 DEF PutData, At, WorkPc, HasDay, HasSnap, HasMan
    <2>2. d \in Day /\ work[w].snap = Of(d) /\ new \in Objects /\ new.data = Of(d)
      BY <2>1, PutObject
    <2>3. store' = [store EXCEPT ![d] = new] /\ work' = [work EXCEPT ![w] = r]
      BY <1>4 DEF PutData, Goto
    <2>4. /\ r \in Run /\ r.pc = "manifest" /\ r.day = d /\ r.todo = work[w].todo
          /\ r.snap = work[w].snap /\ r.man = work[w].man
      BY <1>3, <2>1, RunAt DEF Window
    <2>5. store'[d].data = Of(d)
      <3> HIDE DEF new, r, d
      <3> QED BY <2>2, <2>3 DEF IInv, TypeOK
    <2>6. RunOK(work[w])'
      <3>1. work[w].day = d
        BY DEF Window
      <3> HIDE DEF new, r, d
      <3>2. work'[w] = r
        BY <2>3 DEF IInv, TypeOK
      <3> QED BY <1>1, <1>2, <1>3, <2>1, <2>2, <2>4, <2>5, <3>1, <3>2 DEF RunOK
    <2> HIDE DEF new, r, d
    <2> QED BY <1>1, <2>2, <2>3, <2>4, <2>6, StoreStep
  <1>5. CASE PutManifest(w)
    <2> DEFINE new == [store[d] EXCEPT !.man = work[w].man]
               r == [work[w] EXCEPT !.pc = "readback"]
    <2>1. work[w].pc = "manifest" /\ "readback" \in WorkPc
          /\ "manifest" \in HasDay \cap HasSnap \cap HasMan \cap HasData
      BY <1>5 DEF PutManifest, At, WorkPc, HasDay, HasSnap, HasMan, HasData
    <2>2. d \in Day /\ new \in Objects /\ new.data = store[d].data
      BY <2>1, PutObject
    <2>3. store' = [store EXCEPT ![d] = new] /\ work' = [work EXCEPT ![w] = r]
      BY <1>5 DEF PutManifest, Goto
    <2>4. /\ r \in Run /\ r.pc = "readback" /\ r.day = d /\ r.todo = work[w].todo
          /\ r.snap = work[w].snap /\ r.man = work[w].man
      BY <1>3, <2>1, RunAt DEF Window
    <2>5. store'[d].data = store[d].data
      <3> HIDE DEF new, r, d
      <3> QED BY <2>2, <2>3 DEF IInv, TypeOK
    <2>6. RunOK(work[w])'
      <3>1. work[w].day = d
        BY DEF Window
      <3> HIDE DEF new, r, d
      <3>2. work'[w] = r
        BY <2>3 DEF IInv, TypeOK
      <3> QED BY <1>1, <1>2, <1>3, <2>1, <2>2, <2>4, <2>5, <3>1, <3>2 DEF RunOK
    <2> HIDE DEF new, r, d
    <2> QED BY <1>1, <2>2, <2>3, <2>4, <2>6, StoreStep
  <1> QED BY <1>4, <1>5

-----------------------------------------------------------------------------
(* verify. *)

LEMMA VerifyReadKeeps ==
    ASSUME IInv, NEW v \in Verifier,
           VerifyObjects(v) \/ \E d \in Day : VerifyRow(v, d)
    PROVE  IInv'
  <1> USE DEF IInv, TypeOK
  <1> HIDE DEF Run, Row, Objects, Check, None
  <1>1. UNCHANGED <<today, due, occurred, online, row, store, lock, work, faults>>
    BY DEF VerifyObjects, VerifyRow
  <1>2. PICK c \in Check :
          /\ check' = [check EXCEPT ![v] = c]
          /\ c.pc # "idle" /\ c.row.man # None => row[c.day].man # None
          /\ c.pc = "confirm" => c.row.man # None
    <2>1. CASE VerifyObjects(v)
      <3>1. check[v] \in Check /\ CheckOK(v) /\ check[v].pc = "objects"
        BY <2>1 DEF VerifyObjects
      <3>2. PICK pc \in {"confirm", "idle"} :
              /\ check' = [check EXCEPT ![v].pc = pc]
              /\ pc = "confirm" => check[v].row.man # None
        BY <2>1 DEF VerifyObjects
      <3> DEFINE c == [check[v] EXCEPT !.pc = pc]
      <3>3. c \in Check /\ c.pc = pc /\ c.day = check[v].day /\ c.row = check[v].row
        <4>1. pc \in {"idle", "objects", "confirm"}
          OBVIOUS
        <4> QED BY <3>1, <4>1, CheckAt, ZenonT(60)
      <3>4. check' = [check EXCEPT ![v] = c]
        BY <3>2
      <3> HIDE DEF c
      <3> QED BY <3>1, <3>2, <3>3, <3>4 DEF CheckOK
    <2>2. ASSUME NEW d \in Day, VerifyRow(v, d)
          PROVE  \E c \in Check :
                   /\ check' = [check EXCEPT ![v] = c]
                   /\ c.pc # "idle" /\ c.row.man # None => row[c.day].man # None
                   /\ c.pc = "confirm" => c.row.man # None
      <3> DEFINE c == [pc |-> "objects", day |-> d, row |-> row[d]]
      <3>1. c \in Check
        BY DEF Check
      <3>2. c.pc = "objects" /\ c.day = d /\ c.row = row[d]
        OBVIOUS
      <3>3. check' = [check EXCEPT ![v] = c]
        BY <2>2 DEF VerifyRow
      <3> HIDE DEF c
      <3> QED BY <3>1, <3>2, <3>3
    <2> QED BY <2>1, <2>2
  <1>3. check' \in [Verifier -> Check]
    BY <1>2
  <1>4. TypeOK'
    BY <1>1, <1>3
  <1>5. \A x \in Verifier : check'[x] = check[x] \/ CheckOK(x)'
    <2>1. check'[v] = c /\ \A x \in Verifier : x # v => check'[x] = check[x]
      BY <1>2
    <2>2. CheckOK(v)'
      BY <1>1, <1>2, <2>1 DEF CheckOK
    <2> QED BY <2>1, <2>2
  <1>6. \A x \in Day : row'[x] = row[x] /\ store'[x].data = store[x].data
    BY <1>1
  <1>7. \A w \in Worker : work'[w] = work[w]
    BY <1>1
  <1> HIDE DEF IInv, TypeOK
  <1> QED BY <1>1, <1>4, <1>5, <1>6, <1>7, Frame

LEMMA VerifyConfirmKeeps ==
    ASSUME IInv, NEW v \in Verifier, VerifyConfirm(v)
    PROVE  IInv'
  <1> USE DEF IInv, TypeOK
  <1> HIDE DEF Run, Row, Objects, Check, None
  <1>0. PICK d \in Day : d = check[v].day
    BY Fields
  <1> DEFINE new == [row[d] EXCEPT !.status = "verified"]
             c == [check[v] EXCEPT !.pc = "idle"]
  <1>1. UNCHANGED <<today, due, occurred, online, store, lock, work, faults>>
    BY DEF VerifyConfirm
  <1>2. check[v] \in Check /\ CheckOK(v) /\ check[v].pc = "confirm"
    BY DEF VerifyConfirm
  <1>3. row[d] \in Row /\ RowOK(d) /\ row[d].man # None
    BY <1>0, <1>2, Fields DEF CheckOK
  <1>4. /\ new \in Row /\ new.status = "verified" /\ new.man = row[d].man
        /\ new.sum = row[d].sum
    BY <1>3, RowAt DEF Status
  <1>5. c \in Check /\ c.pc = "idle"
    BY <1>2, CheckAt
  <1>6. row' = [row EXCEPT ![d] = new] /\ check' = [check EXCEPT ![v] = c]
    BY <1>0 DEF VerifyConfirm
  <1> HIDE DEF new, c
  <1>7. row' \in [Day -> Row] /\ check' \in [Verifier -> Check]
    BY <1>3, <1>4, <1>5, <1>6
  <1>8. TypeOK'
    BY <1>1, <1>7
  <1>9. row'[d] = new /\ \A x \in Day : x # d => row'[x] = row[x]
    BY <1>3, <1>6
  <1>10. \A x : Of(x)' = Of(x) /\ (Old(x)' <=> Old(x))
    BY <1>1 DEF Of, Old
  <1>11. RowOK(d)'
    BY <1>1, <1>3, <1>4, <1>9, <1>10 DEF RowOK
  <1>12. \A x \in Day : row'[x] = row[x] \/ RowOK(x)'
    BY <1>9, <1>11
  <1>13. \A x \in Day : row[x].man # None => row'[x].man # None
    BY <1>4, <1>9
  <1>14. \A x \in Verifier : check'[x] = check[x] \/ CheckOK(x)'
    <2>1. check'[v].pc = "idle" /\ \A x \in Verifier : x # v => check'[x] = check[x]
      BY <1>5, <1>6
    <2>2. CheckOK(v)'
      BY <2>1 DEF CheckOK
    <2> QED BY <2>1, <2>2
  <1>15. \A x \in Day : store'[x].data = store[x].data
    BY <1>1
  <1>16. \A w \in Worker : work'[w] = work[w]
    BY <1>1
  <1> HIDE DEF IInv, TypeOK
  <1> QED BY <1>1, <1>8, <1>12, <1>13, <1>14, <1>15, <1>16, Frame

-----------------------------------------------------------------------------
(* Failures. *)

\* Whatever took effect of the call that failed is what its step would have done.
LEMMA FailKeeps ==
    ASSUME IInv, NEW w \in Worker, Fail(w)
    PROVE  IInv'
  <1> DEFINE d == Window(w)
             r == [work[w] EXCEPT !.pc = "failed"]
  <1>1. work[w].pc \in Caught /\ work[w].pc \in HasDay /\ "failed" \in WorkPc
        /\ "failed" \notin HasSnap \cup HasMan \cup HasData
    BY Pcs DEF Fail, WorkPc, HasSnap, HasMan, HasData
  <1>2. /\ d \in Day /\ d < today /\ ~Old(d)
        /\ row[d] \in Row /\ RowOK(d) /\ store[d] \in Objects
    BY <1>1, Current
  <1>3. r \in Run /\ RunOK(r)
    BY <1>1, Moved
  <1>4. work' = [work EXCEPT ![w] = r]
    BY DEF Fail, Goto
  <1>5. UNCHANGED <<today, due, occurred, online, lock, check>>
    BY DEF Fail
  <1>6. faults' \in 0 .. MaxFaults
    BY FaultCounted DEF Fail
  <1>7. \A x : Of(x)' = Of(x) /\ (Old(x)' <=> Old(x))
    BY <1>5 DEF Of, Old
  <1>8. CASE row' = row /\ store' = store
    <2> HIDE DEF r, d
    <2>1. lock' \in BOOLEAN
      BY <1>5 DEF IInv, TypeOK
    <2> QED BY <1>3, <1>4, <1>5, <1>6, <1>8, <2>1, RunStep
  <1>9. ASSUME NEW new \in Objects, new.data \in {store[d].data, Of(d)},
               store' = [store EXCEPT ![d] = new], row' = row
        PROVE  IInv'
    <2> HIDE DEF r, d
    <2>1. work'[w] = r
      BY <1>4 DEF IInv, TypeOK
    <2>2. r.pc = "failed"
      BY <1>1, RunAt DEF r, IInv, TypeOK
    <2>3. RunOK(work[w])'
      BY <1>1, <1>3, <1>5, <1>7, <2>1, <2>2 DEF RunOK
    <2> QED BY <1>2, <1>3, <1>4, <1>5, <1>6, <1>9, <2>3, StoreStep
  <1>10. CASE /\ At(w, "data") /\ store' = [store EXCEPT ![d].data = work[w].snap]
              /\ row' = row
    <2> DEFINE new == [store[d] EXCEPT !.data = work[w].snap]
    <2>1. new \in Objects /\ new.data = Of(d)
      BY <1>10, PutObject DEF At
    <2>2. store' = [store EXCEPT ![d] = new]
      BY <1>10
    <2> HIDE DEF new, d, r
    <2> QED BY <1>9, <1>10, <2>1, <2>2
  <1>11. CASE /\ At(w, "manifest") /\ store' = [store EXCEPT ![d].man = work[w].man]
              /\ row' = row
    <2> DEFINE new == [store[d] EXCEPT !.man = work[w].man]
    <2>1. new \in Objects /\ new.data = store[d].data
      BY <1>11, PutObject DEF At
    <2>2. store' = [store EXCEPT ![d] = new]
      BY <1>11
    <2> HIDE DEF new, d, r
    <2> QED BY <1>9, <1>11, <2>1, <2>2
  <1>12. CASE At(w, "update") /\ row' = [row EXCEPT ![d] = Verified(w)] /\ store' = store
    <2> DEFINE new == Verified(w)
    <2>1. /\ new \in Row /\ new.status = "verified" /\ new.man # None
          /\ new.sum = Of(d) /\ store[d].data = Of(d)
      BY <1>12, VerifiedRow DEF At
    <2>2. row' = [row EXCEPT ![d] = new]
      BY <1>12
    <2> HIDE DEF new, d, r
    <2> QED BY <1>2, <1>3, <1>4, <1>5, <1>6, <1>12, <2>1, <2>2, RowStep
  <1>13. /\ \/ store' = store
            \/ At(w, "data") /\ store' = [store EXCEPT ![d].data = work[w].snap]
            \/ At(w, "manifest") /\ store' = [store EXCEPT ![d].man = work[w].man]
         /\ \/ row' = row
            \/ At(w, "update") /\ row' = [row EXCEPT ![d] = Verified(w)]
    <2>1. /\ store' \in {store} \cup (IF At(w, "data")
                                      THEN {[store EXCEPT ![d].data = work[w].snap]} ELSE {})
                                \cup (IF At(w, "manifest")
                                      THEN {[store EXCEPT ![d].man = work[w].man]} ELSE {})
          /\ row' \in {row} \cup (IF At(w, "update") THEN {[row EXCEPT ![d] = Verified(w)]}
                                  ELSE {})
      BY DEF Fail
    <2> QED BY <2>1
  <1> HIDE DEF d, r
  <1> QED BY <1>8, <1>10, <1>11, <1>12, <1>13 DEF At

LEMMA CrashKeeps ==
    ASSUME IInv, Crash
    PROVE  IInv'
  <1> HIDE DEF Run, Row, Objects, Check, None
  <1>1. UNCHANGED <<today, occurred, online, row, store, lock>>
    BY DEF Crash
  <1>2. due' \in {due, FALSE} /\ faults' \in 0 .. MaxFaults
    BY FaultCounted DEF Crash
  <1>3. work' = [w \in Worker |-> NoWork] /\ NoWork \in Run /\ RunOK(NoWork)
    BY Resting DEF Crash
  <1>4. \A v \in Verifier : /\ [check[v] EXCEPT !.pc = "idle"] \in Check
                            /\ [check[v] EXCEPT !.pc = "idle"].pc = "idle"
    BY CheckAt DEF IInv, TypeOK
  <1>5. check' = [v \in Verifier |-> [check[v] EXCEPT !.pc = "idle"]]
    BY DEF Crash
  <1>6. check' \in [Verifier -> Check] /\ \A v \in Verifier : check'[v].pc = "idle"
    BY <1>4, <1>5
  <1> HIDE DEF NoWork
  <1>7. work' \in [Worker -> Run]
    BY <1>3
  <1>8. TypeOK'
    BY <1>1, <1>2, <1>6, <1>7 DEF IInv, TypeOK
  <1>9. \A x : Of(x)' = Of(x) /\ (Old(x)' <=> Old(x))
    BY <1>1 DEF Of, Old
  <1>10. ASSUME NEW w \in Worker PROVE RunOK(work[w])'
    <2>1. work'[w] = NoWork
      BY <1>3
    <2>2. NoWork.pc = "idle" /\ NoWork.day = None /\ NoWork.todo = {}
      BY DEF NoWork, RunOf
    <2>3. "idle" \notin HasDay \cup HasSnap \cup HasMan \cup HasData
      BY DEF HasDay, HasSnap, HasMan, HasData
    <2> QED BY <2>1, <2>2, <2>3, Days DEF RunOK
  <1>11. \A v \in Verifier : CheckOK(v)'
    BY <1>6 DEF CheckOK
  <1>12. \A x \in Day : row'[x] = row[x] /\ store'[x].data = store[x].data
    BY <1>1
  <1>13. due' => due
    BY <1>2
  <1> HIDE DEF IInv, TypeOK
  <1> QED BY <1>1, <1>8, <1>10, <1>11, <1>12, <1>13, Frame

-----------------------------------------------------------------------------
(* Time and events. *)

\* The days that grow old are settled.
LEMMA NewDayKeeps ==
    ASSUME IInv, NewDay
    PROVE  IInv'
  <1> USE DEF IInv
  <1> HIDE DEF Run, Row, Objects, Check, None, TypeOK
  <1>1. /\ UNCHANGED <<occurred, online, row, store, lock, work, check, faults>>
        /\ today' = today + 1 /\ today < MaxDay /\ today \in Nat /\ MaxDay \in Nat
        /\ Retention \in Nat /\ Day \subseteq Nat
    BY ArchiveAssumption DEF NewDay, TypeOK, Day
  <1>2. \A d : Of(d)' = Of(d)
    BY <1>1 DEF Of
  <1>3. \A d \in Day : /\ d < today => d < today'
                       /\ Old(d) => Old(d)'
                       /\ ~Old(d) /\ Old(d)' => d + Retention = today
    BY <1>1 DEF Old
  <1>4. TypeOK'
    <2>1. today' \in Day /\ due' \in BOOLEAN
      BY <1>1 DEF NewDay, TypeOK, Day
    <2> QED BY <1>1, <2>1 DEF TypeOK
  <1>5. (due => today > 1)'
    BY <1>1 DEF TypeOK, Day
  <1>6. ASSUME NEW w \in Worker PROVE RunOK(work[w])'
    <2>1. \A d \in Day : d = work[w].day \/ d \in work[w].todo => d + Retention # today
      BY DEF NewDay, Unsettled
    <2> QED BY <1>1, <1>2, <1>3, <2>1 DEF RunOK
  <1>7. ASSUME NEW d \in Day PROVE RowOK(d)'
    <2>1. row[d].status = "failed" => d + Retention # today
      BY DEF NewDay, Unsettled
    <2> QED BY <1>1, <1>2, <1>3, <2>1 DEF RowOK
  <1>8. ASSUME NEW v \in Verifier PROVE CheckOK(v)'
    BY <1>1 DEF CheckOK
  <1>9. ASSUME NEW e \in Event PROVE EventOK(e)'
    <2>1. occurred[e] \in Day \cup {None} /\ EventOK(e)
      BY DEF TypeOK
    <2>2. occurred[e] \in Nat
      <3> HIDE DEF IInv
      <3>1. CASE occurred[e] \in Day
        BY <3>1, Days
      <3>2. CASE occurred[e] = None
        BY <3>2, Days
      <3> QED BY <2>1, <3>1, <3>2
    <2> QED BY <1>1, <1>3, <2>1, <2>2 DEF EventOK
  <1> QED BY <1>4, <1>5, <1>6, <1>7, <1>8, <1>9

\* The days that are archived are over.
LEMMA RecordKeeps ==
    ASSUME IInv, NEW e \in Event, Record(e)
    PROVE  IInv'
  <1> USE DEF IInv
  <1> HIDE DEF Run, Row, Objects, Check, None, TypeOK
  <1>1. /\ UNCHANGED <<today, due, row, store, lock, work, check, faults>>
        /\ online' = online \cup {e}
        /\ occurred' = [occurred EXCEPT ![e] = today]
        /\ occurred[e] = None /\ today \in Day
    BY DEF Record, TypeOK
  <1>2. ASSUME NEW d \in Day, d < today PROVE Of(d)' = Of(d)
    <2>1. d # today /\ d # None
      BY <1>2, Days
    <2> QED BY <1>1, <2>1 DEF Of, TypeOK
  <1>3. \A d : Old(d)' <=> Old(d)
    BY <1>1 DEF Old
  <1>4. TypeOK'
    BY <1>1 DEF TypeOK
  <1>5. ASSUME NEW w \in Worker PROVE RunOK(work[w])'
    <2>1. work[w].pc \in HasDay => work[w].day \in Day /\ work[w].day < today
      BY Current DEF Window
    <2>2. work[w].pc \in HasDay => Of(work[w].day)' = Of(work[w].day)
      BY <1>1, <1>2, <2>1
    <2>3. RunOK(work[w])
      OBVIOUS
    <2> QED BY <1>1, <1>3, <2>2, <2>3, Pcs DEF RunOK
  <1>6. ASSUME NEW d \in Day PROVE RowOK(d)'
    BY <1>1, <1>2, <1>3 DEF RowOK
  <1>7. ASSUME NEW v \in Verifier PROVE CheckOK(v)'
    BY <1>1 DEF CheckOK
  <1>8. ASSUME NEW x \in Event PROVE EventOK(x)'
    <2>1. CASE x = e
      <3>1. occurred'[x] = today /\ x \in online'
        BY <1>1, <2>1 DEF TypeOK
      <3> QED BY <1>1, <3>1, Days DEF EventOK
    <2>2. CASE x # e
      <3>1. occurred'[x] = occurred[x] /\ (x \in online' <=> x \in online)
        BY <1>1, <2>2 DEF TypeOK
      <3> QED BY <1>1, <1>3, <3>1 DEF EventOK
    <2> QED BY <2>1, <2>2
  <1> QED BY <1>1, <1>4, <1>5, <1>6, <1>7, <1>8

\* Only events of old, verified days are purged.
LEMMA PurgeKeeps ==
    ASSUME IInv, Purge
    PROVE  IInv'
  <1> USE DEF IInv
  <1> HIDE DEF Run, Row, Objects, Check, None, TypeOK
  <1>1. UNCHANGED <<today, due, occurred, row, store, lock, work, check, faults>>
    BY DEF Purge
  <1>2. online' \subseteq online /\ \A e \in online \ online' : Old(occurred[e])
    BY DEF Purge, Eligible, Old
  <1>3. \A d : Of(d)' = Of(d) /\ (Old(d)' <=> Old(d))
    BY <1>1 DEF Of, Old
  <1>4. TypeOK'
    BY <1>1, <1>2 DEF TypeOK
  <1>5. ASSUME NEW w \in Worker PROVE RunOK(work[w])'
    BY <1>1, <1>3 DEF RunOK
  <1>6. ASSUME NEW d \in Day PROVE RowOK(d)'
    BY <1>1, <1>3 DEF RowOK
  <1>7. ASSUME NEW v \in Verifier PROVE CheckOK(v)'
    BY <1>1 DEF CheckOK
  <1>8. ASSUME NEW e \in Event PROVE EventOK(e)'
    BY <1>1, <1>2, <1>3 DEF EventOK
  <1> QED BY <1>1, <1>4, <1>5, <1>6, <1>7, <1>8

-----------------------------------------------------------------------------
(* The inductive invariant. *)

LEMMA InitIInv == Init => IInv
  <1> SUFFICES ASSUME Init PROVE IInv
    OBVIOUS
  <1> HIDE DEF Init, NoWork, NoRow
  <1>1. NoRow \in Row /\ NoRow.status = "none" /\ NoRow.man = None
    <2>1. "none" \in Status /\ None \in Manifest
      BY ArchiveAssumption DEF Status, Manifest, None
    <2> HIDE DEF Status, Manifest, None
    <2> QED BY <2>1 DEF NoRow, Row
  <1>2. 1 \in Day /\ None \in Manifest /\ 0 \in 0 .. MaxFaults
    BY ArchiveAssumption DEF Day, Manifest, None
  <1>3. NoWork \in Run /\ RunOK(NoWork) /\ None \in Day \cup {None}
    BY Resting
  <1>4. [pc |-> "idle", day |-> 1, row |-> NoRow] \in Check
    <2> HIDE DEF Row, Day
    <2> QED BY <1>1, <1>2 DEF Check
  <1>5. [data |-> {}, man |-> None] \in Objects
    <2> HIDE DEF Manifest, None
    <2> QED BY <1>2 DEF Objects
  <1>6. TypeOK
    <2> HIDE DEF Run, Row, Objects, Check, None, Day, Manifest
    <2> QED BY <1>1, <1>2, <1>3, <1>4, <1>5 DEF Init, TypeOK
  <1>7. due => today > 1
    BY DEF Init
  <1>8. ASSUME NEW w \in Worker PROVE RunOK(work[w])
    BY <1>3 DEF Init
  <1>9. ASSUME NEW d \in Day PROVE RowOK(d)
    BY <1>1 DEF Init, RowOK
  <1>10. ASSUME NEW v \in Verifier PROVE CheckOK(v)
    BY <1>1 DEF Init, CheckOK
  <1>11. ASSUME NEW e \in Event PROVE EventOK(e)
    BY Days DEF Init, EventOK
  <1> QED BY <1>6, <1>7, <1>8, <1>9, <1>10, <1>11 DEF IInv

\* A step that changes the lock or what is due only.
LEMMA LockKeeps ==
    ASSUME IInv, ExpireLock \/ DailySkipped \/ UNCHANGED vars
    PROVE  IInv'
  <1>1. /\ UNCHANGED <<today, occurred, online, row, store, work, check, faults>>
        /\ due' \in {due, FALSE} /\ lock' \in {lock, FALSE}
    BY DEF ExpireLock, DailySkipped, vars
  <1>2. TypeOK'
    <2> HIDE DEF Run, Row, Objects, Check, None, Day
    <2> QED BY <1>1 DEF IInv, TypeOK
  <1>3. due' => due
    BY <1>1
  <1>4. \A d \in Day : row'[d] = row[d] /\ store'[d].data = store[d].data
    BY <1>1
  <1>5. \A w \in Worker : work'[w] = work[w]
    BY <1>1
  <1>6. \A v \in Verifier : check'[v] = check[v]
    BY <1>1
  <1> QED BY <1>1, <1>2, <1>3, <1>4, <1>5, <1>6, Frame

LEMMA NextIInv == IInv /\ [Next]_vars => IInv'
  <1> SUFFICES ASSUME IInv, [Next]_vars PROVE IInv'
    OBVIOUS
  <1>1. CASE UNCHANGED vars \/ DailySkipped \/ ExpireLock
    BY <1>1, LockKeeps
  <1>2. CASE NewDay
    BY <1>2, NewDayKeeps
  <1>3. CASE Purge
    BY <1>3, PurgeKeeps
  <1>4. CASE Crash
    BY <1>4, CrashKeeps
  <1>5. ASSUME NEW e \in Event, Record(e) PROVE IInv'
    BY <1>5, RecordKeeps
  <1>6. ASSUME NEW w \in Worker,
               DailyTick(w) \/ RetryTick(w) \/ Step(w) \/ Fail(w) \/ Abort(w)
        PROVE  IInv'
    <2>1. CASE DailyTick(w) \/ RetryTick(w)
      BY <2>1, TickKeeps
    <2>2. CASE ListFailed(w)
      BY <2>2, ListKeeps
    <2>3. CASE Look(w)
      BY <2>3, LookKeeps
    <2>4. CASE Create(w)
      BY <2>4, CreateKeeps
    <2>5. CASE ReadRows(w)
      BY <2>5, ReadRowsKeeps
    <2>6. CASE ReadPrevious(w)
      BY <2>6, ReadPreviousKeeps
    <2>7. CASE PutData(w) \/ PutManifest(w)
      BY <2>7, PutKeeps
    <2>8. CASE ReadBack(w)
      BY <2>8, ReadBackKeeps
    <2>9. CASE Update(w)
      BY <2>9, UpdateKeeps
    <2>10. CASE MarkFailed(w)
      BY <2>10, MarkFailedKeeps
    <2>11. CASE Release(w) \/ Abort(w)
      BY <2>11, EndKeeps
    <2>12. CASE Fail(w)
      BY <2>12, FailKeeps
    <2> QED
      BY <1>6, <2>1, <2>2, <2>3, <2>4, <2>5, <2>6, <2>7, <2>8, <2>9, <2>10, <2>11, <2>12
      DEF Step
  <1>7. ASSUME NEW v \in Verifier,
               VerifyObjects(v) \/ VerifyConfirm(v) \/ \E d \in Day : VerifyRow(v, d)
        PROVE  IInv'
    BY <1>7, VerifyReadKeeps, VerifyConfirmKeeps
  <1> QED BY <1>1, <1>2, <1>3, <1>4, <1>5, <1>6, <1>7 DEF Next

THEOREM Invariance == Spec => []IInv
  BY InitIInv, NextIInv, PTL DEF Spec

-----------------------------------------------------------------------------
(* The theorems. *)

\* The state stays well typed.
THEOREM TypeCorrect == Spec => []TypeOK
  <1>1. IInv => TypeOK
    BY DEF IInv
  <1> QED BY <1>1, Invariance, PTL

\* A verified row stands for all the events of its day, whichever runs of the
\* jobs overlapped and whatever verify requests confirmed it.
THEOREM VerifiedWhole == Spec => []VerifiedIsWhole
  <1>1. IInv => VerifiedIsWhole
    BY DEF IInv, RowOK, VerifiedIsWhole
  <1> QED BY <1>1, Invariance, PTL

\* The purge deletes no event that a restore could not bring back.
THEOREM PurgedRestorable == Spec => PurgedIsRestorable
  <1> DEFINE A == \A e \in online \ online' :
                    /\ row[occurred[e]].status = "verified"
                    /\ e \in store[occurred[e]].data
  <1>1. ASSUME IInv, [Next]_vars PROVE [A]_vars
    <2>1. CASE Purge
      <3>1. ASSUME NEW e \in online \ online'
            PROVE  /\ row[occurred[e]].status = "verified"
                   /\ e \in store[occurred[e]].data
        <4>1. e \in Event /\ row[occurred[e]].status = "verified"
          BY <1>1, <2>1, <3>1 DEF Purge, Eligible, IInv, TypeOK
        <4>2. occurred[e] \in Day
          BY <1>1, <3>1, <4>1 DEF IInv, TypeOK, EventOK
        <4>3. store[occurred[e]].data = Of(occurred[e])
          BY <1>1, <4>1, <4>2 DEF IInv, RowOK
        <4> QED BY <4>1, <4>3 DEF Of
      <3> QED BY <3>1
    <2>2. CASE online \subseteq online'
      BY <2>2
    <2>3. Purge \/ online \subseteq online'
      BY <1>1
      DEF Next, vars, NewDay, DailySkipped, ExpireLock, Crash, Record, DailyTick, RetryTick,
          Step, ListFailed, Look, Create, ReadRows, ReadPrevious, PutData, PutManifest,
          ReadBack, Update, MarkFailed, Release, Fail, Abort, VerifyObjects, VerifyConfirm,
          VerifyRow
    <2> QED BY <2>1, <2>2, <2>3
  <1> QED BY <1>1, Invariance, PTL DEF Spec, PurgedIsRestorable

-----------------------------------------------------------------------------
(* Runs that end within their lock. *)

\* Where a run is about to replace the row and the objects of its day.
Working == {"create", "read", "prev", "data", "manifest", "readback", "update"}

Alone == /\ \A w \in Worker \ {w1} : work[w] = NoWork
         /\ \A v \in Verifier : check[v].pc = "idle"

\* A run does not work on a verified day, and when it is to update the row the day's
\* objects are its own.
WorkOK(w) ==
    /\ work[w].pc \in Working => row[work[w].day].status # "verified"
    /\ At(w, "update") => store[work[w].day] = [data |-> work[w].snap, man |-> work[w].man]

ExclusiveInv == IInv /\ Alone /\ VerifiedMatchesObjects /\ \A w \in Worker : WorkOK(w)

LEMMA ExclusiveInit == Init => ExclusiveInv
  <1> SUFFICES ASSUME Init PROVE ExclusiveInv
    OBVIOUS
  <1>1. IInv
    BY InitIInv
  <1> QED BY <1>1 DEF Init, ExclusiveInv, Alone, VerifiedMatchesObjects, WorkOK, Working, At,
                      NoWork, RunOf, NoRow

\* A step of the one run, which leaves the rows and objects of other days alone.
LEMMA ExclusiveStep ==
    ASSUME ExclusiveInv, IInv', Alone', NEW w \in Worker,
           \A d \in Day : d # work[w].day => row'[d] = row[d] /\ store'[d] = store[d],
           work[w].day \in Day /\ row'[work[w].day].status = "verified" =>
             store'[work[w].day] = [data |-> row'[work[w].day].sum, man |-> row'[work[w].day].man],
           WorkOK(w)', \A q \in Worker : q # w => work[q].pc = "idle" /\ work'[q] = work[q]
    PROVE  ExclusiveInv'
  <1>1. VerifiedMatchesObjects'
    BY DEF ExclusiveInv, VerifiedMatchesObjects
  <1>2. \A q \in Worker : WorkOK(q)'
    BY DEF WorkOK, Working, At
  <1> QED BY <1>1, <1>2 DEF ExclusiveInv

\* A busy run is w1, and no other is busy.
LEMMA OnlyRun ==
    ASSUME ExclusiveInv, NEW w \in Worker, work[w].pc # "idle"
    PROVE  w = w1 /\ \A q \in Worker : q # w => work[q].pc = "idle"
  BY DEF ExclusiveInv, Alone, NoWork, RunOf

\* Rows and objects stay, and no run comes to work on another day than it did.
LEMMA ExclusiveQuiet ==
    ASSUME ExclusiveInv, IInv', Alone', UNCHANGED <<row, store>>,
           \A w \in Worker : work'[w] = work[w] \/ work'[w].pc \notin Working
    PROVE  ExclusiveInv'
  <1>1. VerifiedMatchesObjects'
    BY DEF ExclusiveInv, VerifiedMatchesObjects
  <1>2. \A q \in Worker : WorkOK(q)'
    BY DEF ExclusiveInv, WorkOK, Working, At
  <1> QED BY <1>1, <1>2 DEF ExclusiveInv

LEMMA WentOn ==
    ASSUME IInv, NEW w \in Worker, NEW left, GoOn(w, left)
    PROVE  /\ work'[w].pc \in {"look", "release"}
           /\ \A q \in Worker : q # w => work'[q] = work[q]
  <1>1. work \in [Worker -> Run]
    BY DEF IInv, TypeOK
  <1> QED BY <1>1 DEF GoOn, Done, RunOf

LEMMA Went ==
    ASSUME IInv, NEW w \in Worker, NEW pc \in WorkPc, Goto(w, pc)
    PROVE  /\ work'[w].pc = pc /\ work'[w].day = work[w].day
           /\ work'[w].snap = work[w].snap /\ work'[w].man = work[w].man
           /\ \A q \in Worker : q # w => work'[q] = work[q]
  <1>1. work \in [Worker -> Run] /\ work[w] \in Run
    BY DEF IInv, TypeOK
  <1>2. /\ work'[w] = [work[w] EXCEPT !.pc = pc]
        /\ \A q \in Worker : q # w => work'[q] = work[q]
    BY <1>1 DEF Goto
  <1> QED BY <1>1, <1>2, RunAt

LEMMA ExclusiveReads ==
    ASSUME ExclusiveInv, IInv', Alone', NEW w \in Worker,
           Look(w) \/ ReadRows(w) \/ ReadPrevious(w) \/ ReadBack(w)
    PROVE  ExclusiveInv'
  <1>1. /\ UNCHANGED <<row, store>> /\ work[w].pc \in {"look", "read", "prev", "readback"} /\ IInv
        /\ work \in [Worker -> Run] /\ work[w] \in Run
    BY DEF Look, ReadRows, ReadPrevious, ReadBack, At, ExclusiveInv, IInv, TypeOK
  <1>2. \A q \in Worker : q # w => work[q].pc = "idle"
    BY <1>1, OnlyRun
  <1>3. work[w].pc \in Working => row[work[w].day].status # "verified"
    BY DEF ExclusiveInv, WorkOK
  <1>4. ASSUME WorkOK(w)', \A q \in Worker : q # w => work'[q] = work[q]
        PROVE  ExclusiveInv'
    <2>1. work[w].day \in Day /\ row'[work[w].day].status = "verified" =>
            store'[work[w].day] = [data |-> row'[work[w].day].sum, man |-> row'[work[w].day].man]
      BY <1>1 DEF ExclusiveInv, VerifiedMatchesObjects
    <2> QED BY <1>1, <1>2, <1>4, <2>1, ExclusiveStep
  <1>5. CASE Look(w)
    <2>1. CASE row[work[w].day].status = "verified"
      BY <1>1, <1>4, <1>5, <2>1, WentOn DEF Look, Window, NextWindow, WorkOK, Working, At
    <2>2. CASE row[work[w].day].status # "verified"
      <3>1. PICK pc \in {"create", "read"} : Goto(w, pc)
        BY <1>5, <2>2 DEF Look, Window
      <3>2. pc \in WorkPc
        BY DEF WorkPc
      <3> QED BY <1>1, <1>4, <2>2, <3>1, <3>2, Went DEF WorkOK, At
    <2> QED BY <2>1, <2>2
  <1>6. CASE ReadRows(w)
    <2> DEFINE S == online \cap Of(Window(w))
    <2>1. work'[w] = [work[w] EXCEPT !.snap = S, !.pc = "prev"]
          /\ \A q \in Worker : q # w => work'[q] = work[q]
      BY <1>1, <1>6 DEF ReadRows
    <2>2. S \in SUBSET Event
      BY DEF Of
    <2> HIDE DEF S
    <2>3. work'[w].pc = "prev" /\ work'[w].day = work[w].day
      BY <1>1, <2>1 DEF Run
    <2>4. row[work[w].day].status # "verified"
      BY <1>3, <1>6 DEF ReadRows, At, Working
    <2> QED BY <1>1, <1>4, <2>1, <2>3, <2>4 DEF WorkOK, At
  <1>7. CASE ReadPrevious(w)
    <2>1. PICK p, m : work' = [work EXCEPT ![w].prev = p, ![w].man = m, ![w].pc = "data"]
      <3>1. PICK p : MakeManifest(w, p)
        BY <1>7 DEF ReadPrevious
      <3> QED BY <3>1 DEF MakeManifest
    <2>2. work'[w] = [work[w] EXCEPT !.prev = p, !.man = m, !.pc = "data"]
          /\ \A q \in Worker : q # w => work'[q] = work[q]
      BY <1>1, <2>1
    <2>3. work'[w].pc = "data" /\ work'[w].day = work[w].day
      BY <1>1, <2>2 DEF Run
    <2>4. row[work[w].day].status # "verified"
      BY <1>3, <1>7 DEF ReadPrevious, At, Working
    <2> QED BY <1>1, <1>4, <2>2, <2>3, <2>4 DEF WorkOK, At
  <1>8. CASE ReadBack(w)
    <2>1. PICK pc \in {"update", "failed"} : Goto(w, pc) /\
            (pc = "update" => store[work[w].day] = [data |-> work[w].snap, man |-> work[w].man])
      BY <1>8 DEF ReadBack, Window
    <2>2. pc \in WorkPc
      BY DEF WorkPc
    <2>3. row[work[w].day].status # "verified"
      BY <1>3, <1>8 DEF ReadBack, At, Working
    <2> QED BY <1>1, <1>4, <2>1, <2>2, <2>3, Went DEF WorkOK, At, Working
  <1> QED BY <1>5, <1>6, <1>7, <1>8

LEMMA ExclusiveWrites ==
    ASSUME ExclusiveInv, IInv', Alone', NEW w \in Worker,
           Create(w) \/ PutData(w) \/ PutManifest(w) \/ Update(w) \/ MarkFailed(w) \/ Fail(w)
    PROVE  ExclusiveInv'
  <1> DEFINE d == work[w].day
  <1>1. /\ work[w].pc \in Working \cup {"failed"} /\ IInv
        /\ work \in [Worker -> Run] /\ work[w] \in Run
        /\ row \in [Day -> Row] /\ store \in [Day -> Objects]
    BY DEF Create, PutData, PutManifest, Update, MarkFailed, Fail, At, Caught, Working,
           ExclusiveInv, IInv, TypeOK
  <1>2. \A q \in Worker : q # w => work[q].pc = "idle"
    BY <1>1, OnlyRun DEF Working
  <1>3. d \in Day
    <2>1. work[w].pc \in HasDay
      BY <1>1 DEF Working, HasDay, WorkPc
    <2> QED BY <1>1, <2>1 DEF IInv, RunOK
  <1>4. work[w].pc \in Working => row[d].status # "verified"
    BY DEF ExclusiveInv, WorkOK
  <1>5. /\ row[d].status = "verified" => store[d] = [data |-> row[d].sum, man |-> row[d].man]
    BY <1>3 DEF ExclusiveInv, VerifiedMatchesObjects
  <1>6. ASSUME \A x \in Day : x # d => row'[x] = row[x] /\ store'[x] = store[x],
               row'[d].status = "verified" => store'[d] = [data |-> row'[d].sum, man |-> row'[d].man],
               WorkOK(w)', \A q \in Worker : q # w => work'[q] = work[q]
        PROVE  ExclusiveInv'
    BY <1>1, <1>2, <1>6, ExclusiveStep
  <1>7. CASE Create(w)
    <2>1. CASE row[d].status = "none"
      <3>1. /\ row' = [row EXCEPT ![d].status = "pending"] /\ UNCHANGED store /\ Goto(w, "read")
        BY <1>7, <2>1 DEF Create, Window
      <3>2. row'[d].status = "pending" /\ \A x \in Day : x # d => row'[x] = row[x]
        BY <1>1, <1>3, <3>1 DEF Row
      <3>3. work'[w].pc = "read" /\ work'[w].day = d /\ \A q \in Worker : q # w => work'[q] = work[q]
        BY <1>1, <3>1, Went DEF WorkPc
      <3> QED BY <1>6, <3>1, <3>2, <3>3 DEF WorkOK, At
    <2>2. CASE row[d].status # "none"
      <3>1. UNCHANGED <<row, store>> /\ work' = [work EXCEPT ![w] = Done]
        BY <1>7, <2>2 DEF Create, Window
      <3>2. work'[w].pc = "release" /\ \A q \in Worker : q # w => work'[q] = work[q]
        BY <1>1, <3>1 DEF Done, RunOf
      <3> QED BY <1>5, <1>6, <3>1, <3>2 DEF WorkOK, At, Working
    <2> QED BY <2>1, <2>2
  <1>8. CASE PutData(w) \/ PutManifest(w)
    <2>1. PICK pc \in {"manifest", "readback"} : Goto(w, pc)
      BY <1>8 DEF PutData, PutManifest
    <2>2. UNCHANGED row /\ \A x \in Day : x # d => store'[x] = store[x]
      BY <1>1, <1>8 DEF PutData, PutManifest, Window
    <2>3. work'[w].pc = pc /\ work'[w].day = d /\ \A q \in Worker : q # w => work'[q] = work[q]
      BY <1>1, <2>1, Went DEF WorkPc
    <2>4. row[d].status # "verified"
      BY <1>4, <1>8 DEF PutData, PutManifest, At, Working
    <2> QED BY <1>6, <2>2, <2>3, <2>4 DEF WorkOK, At
  <1>9. CASE Update(w)
    <2>1. row' = [row EXCEPT ![d] = Verified(w)] /\ UNCHANGED store /\ GoOn(w, work[w].todo)
      BY <1>9 DEF Update, Window, NextWindow
    <2>2. store[d] = [data |-> work[w].snap, man |-> work[w].man]
      BY <1>9 DEF Update, ExclusiveInv, WorkOK
    <2>3. row'[d] = Verified(w) /\ \A x \in Day : x # d => row'[x] = row[x]
      BY <1>1, <1>3, <2>1
    <2>4. WorkOK(w)' /\ \A q \in Worker : q # w => work'[q] = work[q]
      BY <1>1, <2>1, WentOn DEF WorkOK, Working, At
    <2> QED BY <1>6, <2>1, <2>2, <2>3, <2>4 DEF Verified
  <1>10. CASE MarkFailed(w)
    <2>1. row' = [row EXCEPT ![d].status = "failed"] /\ UNCHANGED store
            /\ work' = [work EXCEPT ![w] = Done]
      BY <1>10 DEF MarkFailed, Window
    <2>2. row'[d].status = "failed" /\ \A x \in Day : x # d => row'[x] = row[x]
      BY <1>1, <1>3, <2>1 DEF Row
    <2>3. work'[w].pc = "release" /\ \A q \in Worker : q # w => work'[q] = work[q]
      BY <1>1, <2>1 DEF Done, RunOf
    <2> QED BY <1>6, <2>1, <2>2, <2>3 DEF WorkOK, Working, At
  <1>11. CASE Fail(w)
    <2>1. Goto(w, "failed") /\ work[w].pc \in Working
      BY <1>11 DEF Fail, Caught, Working
    <2>2. work'[w].pc = "failed" /\ \A q \in Worker : q # w => work'[q] = work[q]
      BY <1>1, <2>1, Went DEF WorkPc
    <2>3. \A x \in Day : x # d => row'[x] = row[x] /\ store'[x] = store[x]
      BY <1>1, <1>11 DEF Fail, Window
    <2>4. CASE At(w, "update")
      <3>1. UNCHANGED store /\ row' \in {row, [row EXCEPT ![d] = Verified(w)]}
        BY <1>11, <2>4 DEF Fail, At, Window
      <3>2. store[d] = [data |-> work[w].snap, man |-> work[w].man]
        BY <2>4 DEF ExclusiveInv, WorkOK
      <3>3. row'[d] \in {row[d], Verified(w)}
        BY <1>1, <1>3, <3>1
      <3> QED BY <1>5, <1>6, <2>2, <2>3, <3>1, <3>2, <3>3 DEF WorkOK, Working, At, Verified
    <2>5. CASE ~At(w, "update")
      <3>1. row' = row
        BY <1>11, <2>5 DEF Fail
      <3> QED BY <1>4, <1>6, <2>1, <2>2, <2>3, <3>1 DEF WorkOK, Working, At
    <2> QED BY <2>4, <2>5
  <1> QED BY <1>7, <1>8, <1>9, <1>10, <1>11

\* The steps of the rest: time, ticks, the ends of runs.
LEMMA ExclusiveRest ==
    ASSUME ExclusiveInv, IInv', Alone',
           \/ NewDay \/ DailySkipped \/ ExpireLock \/ Purge \/ Crash
           \/ \E e \in Event : Record(e)
           \/ \E w \in Worker : DailyTick(w) \/ RetryTick(w) \/ ListFailed(w) \/ Release(w) \/ Abort(w)
    PROVE  ExclusiveInv'
  <1>1. IInv /\ work \in [Worker -> Run]
    BY DEF ExclusiveInv, IInv, TypeOK
  <1>2. CASE \/ NewDay \/ DailySkipped \/ ExpireLock \/ Purge \/ Crash \/ \E e \in Event : Record(e)
    <2>1. UNCHANGED <<row, store>>
      BY <1>2 DEF NewDay, DailySkipped, ExpireLock, Purge, Crash, Record
    <2>2. \A w \in Worker : work'[w] = work[w] \/ work'[w].pc \notin Working
      <3>1. CASE Crash
        <4>1. work' = [w \in Worker |-> NoWork] /\ NoWork.pc \notin Working
          BY <3>1 DEF Crash, NoWork, RunOf, Working
        <4> QED BY <4>1
      <3>2. CASE ~Crash
        BY <1>2, <3>2 DEF NewDay, DailySkipped, ExpireLock, Purge, Record
      <3> QED BY <3>1, <3>2
    <2> QED BY <2>1, <2>2, ExclusiveQuiet
  <1>3. ASSUME NEW w \in Worker, DailyTick(w) \/ RetryTick(w) \/ ListFailed(w) \/ Release(w) \/ Abort(w)
        PROVE  ExclusiveInv'
    <2>1. UNCHANGED <<row, store>>
      BY <1>3 DEF DailyTick, RetryTick, ListFailed, Release, Abort
    <2>2. CASE DailyTick(w) \/ Release(w) \/ Abort(w)
      <3>1. PICK r \in {RunOf("look", today - 1, {}), NoWork, Done} : work' = [work EXCEPT ![w] = r]
        BY <2>2 DEF DailyTick, Release, Abort
      <3>2. r.pc \notin Working
        BY DEF RunOf, NoWork, Done, Working
      <3>3. \A q \in Worker : work'[q] = work[q] \/ work'[q].pc \notin Working
        BY <1>1, <3>1, <3>2
      <3> QED BY <2>1, <3>3, ExclusiveQuiet
    <2>3. CASE RetryTick(w)
      <3>1. Goto(w, "list")
        BY <2>3 DEF RetryTick
      <3>2. work'[w].pc = "list" /\ \A q \in Worker : q # w => work'[q] = work[q]
        BY <1>1, <3>1, Went DEF WorkPc
      <3>3. \A q \in Worker : work'[q] = work[q] \/ work'[q].pc \notin Working
        BY <3>2 DEF Working
      <3> QED BY <2>1, <3>3, ExclusiveQuiet
    <2>4. CASE ListFailed(w)
      <3>1. PICK left : GoOn(w, left)
        BY <2>4 DEF ListFailed
      <3>2. \A q \in Worker : work'[q] = work[q] \/ work'[q].pc \notin Working
        BY <1>1, <3>1, WentOn DEF Working
      <3> QED BY <2>1, <3>2, ExclusiveQuiet
    <2> QED BY <1>3, <2>2, <2>3, <2>4
  <1> QED BY <1>2, <1>3

LEMMA ExclusiveNext ==
    ASSUME ExclusiveInv, mode = "exclusive", [MCNext]_<<vars, mode>>
    PROVE  ExclusiveInv'
  <1>1. IInv'
    BY NextIInv DEF MCNext, ExclusiveInv, vars
  <1>2. CASE UNCHANGED vars
    BY <1>1, <1>2, ExclusiveQuiet DEF vars, ExclusiveInv, Alone
  <1>3. CASE MCNext
    <2>1. Alone' /\ Next /\ \A v \in Verifier : check'[v].pc = "idle"
      BY <1>3 DEF MCNext, Exclusive, Alone
    <2>2. ASSUME NEW v \in Verifier PROVE ~VerifyConfirm(v) /\ ~VerifyObjects(v)
      BY DEF VerifyConfirm, VerifyObjects, ExclusiveInv, Alone
    <2>3. ASSUME NEW v \in Verifier, NEW d \in Day PROVE ~VerifyRow(v, d)
      <3> SUFFICES ASSUME VerifyRow(v, d) PROVE FALSE
        OBVIOUS
      <3>1. check'[v].pc = "objects"
        BY DEF VerifyRow, ExclusiveInv, IInv, TypeOK
      <3> QED BY <2>1, <3>1
    <2> QED BY <1>1, <2>1, <2>2, <2>3, ExclusiveReads, ExclusiveWrites, ExclusiveRest DEF Next, Step
  <1> QED BY <1>2, <1>3 DEF vars

\* Where a run of archiveWindow ends within its lock, a verified row describes the
\* data and manifest objects that a restore would find.
THEOREM VerifiedMatchesExclusively == MCSpec => []VerifiedMatchesObjectsExclusively
  <1>1. MCInit => (mode = "exclusive" => ExclusiveInv)
    BY ExclusiveInit DEF MCInit
  <1>2. (mode = "exclusive" => ExclusiveInv) /\ [MCNext]_<<vars, mode>> => (mode = "exclusive" => ExclusiveInv)'
    BY ExclusiveNext DEF MCNext
  <1>3. (mode = "exclusive" => ExclusiveInv) => VerifiedMatchesObjectsExclusively
    BY DEF ExclusiveInv, VerifiedMatchesObjectsExclusively
  <1> QED BY <1>1, <1>2, <1>3, PTL DEF MCSpec
=============================================================================
