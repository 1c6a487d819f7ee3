------------------------ MODULE AuditDeliveryProofs ------------------------
(***************************************************************************)
(* Proofs about AuditDelivery for every set of events and processes and    *)
(* every batch limit, stream length and number of faults.                  *)
(***************************************************************************)
EXTENDS AuditDelivery, TLAPS

-----------------------------------------------------------------------------
(* The inductive invariant. *)

\* Only a call that reached Redis has put its event in the stream.
NotYetQueued ==
    \A e \in Event : call[e] \in {"new", "insert", "enqueue", "done", "died"}
                        => ~Queued(e) /\ e \notin trimmed

\* What a retry job has read and not replayed yet is still accounted for.
BatchAccounted ==
    \A p \in Process : \A x \in retry[p].batch :
        rows[x.ev] > 0 \/ x \in stream \/ x.ev \in trimmed

\* What a retry job is about to acknowledge is stored.
CurrentStored == \A p \in Process : \A x \in retry[p].cur : rows[x.ev] > 0

IInv == TypeOK /\ StoredAtMostOnce /\ NoSilentLoss /\ NotYetQueued
          /\ BatchAccounted /\ CurrentStored

-----------------------------------------------------------------------------
(* Lemmas about the operators. *)

\* An insert stores its event, stores it once, and removes nothing.
LEMMA InsertLemma ==
    ASSUME NEW e \in Event, rows \in [Event -> Nat], Insert(e)
    PROVE  /\ rows' \in [Event -> Nat]
           /\ rows'[e] > 0
           /\ \A d \in Event : rows[d] > 0 => rows'[d] > 0
           /\ \A d \in Event : d # e => rows'[d] = rows[d]
           /\ StoredAtMostOnce => StoredAtMostOnce'
  BY DEF Insert, StoredAtMostOnce

\* An XADD concerns its own event; whatever MAXLEN drops is recorded.
LEMMA AppendLemma ==
    ASSUME NEW e \in Event, NEW n \in {1, 2}, TypeOK, Append(e, n)
    PROVE  /\ stream' \in SUBSET Entry
           /\ nextSid' \in Nat
           /\ trimmed' \in SUBSET Event
           /\ trimmed \subseteq trimmed'
           /\ Queued(e)' \/ e \in trimmed'
           /\ \A x \in stream : x \in stream' \/ x.ev \in trimmed'
           /\ \A d \in Event : d # e /\ Queued(d)' => Queued(d)
           /\ \A d \in Event : d # e /\ d \in trimmed' => d \in trimmed \/ Queued(d)
           /\ \A d \in Event : Queued(d) => Queued(d)' \/ d \in trimmed'
  <1> DEFINE fresh == {[sid |-> nextSid + i, ev |-> e] : i \in 0 .. n - 1}
             full  == stream \cup fresh
             excess == Cardinality(full) - MaxLen
  <1>1. PICK gone \in {{}, IF excess > 0 THEN OldestOf(full, excess) ELSE {}} :
            /\ stream' = full \ gone
            /\ trimmed' = trimmed \cup {x.ev : x \in gone}
            /\ nextSid' = nextSid + n
    BY DEF Append
  <1>2. nextSid \in Nat /\ stream \in SUBSET Entry /\ trimmed \in SUBSET Event
    BY DEF TypeOK
  <1>3. gone \subseteq full
    BY DEF OldestOf
  <1>4. \A x \in fresh : x.ev = e
    OBVIOUS
  <1>5. [sid |-> nextSid + 0, ev |-> e] \in fresh
    OBVIOUS
  <1>6. fresh \in SUBSET Entry
    <2>1. \A i \in 0 .. n - 1 : nextSid + i \in Nat
      BY <1>2
    <2> QED BY <2>1 DEF Entry
  <1>7. \A x \in gone : x.ev \in Event
    BY <1>2, <1>3, <1>6 DEF Entry
  <1>8. \A x \in full : x \in stream' \/ x.ev \in trimmed'
    BY <1>1
  <1> HIDE DEF fresh, full, excess
  <1>9. full = stream \cup fresh
    BY DEF full
  <1>10. \A d \in Event : d # e /\ d \in trimmed' => d \in trimmed \/ Queued(d)
    BY <1>1, <1>3, <1>4, <1>9 DEF Queued
  <1>11. stream' \in SUBSET Entry /\ nextSid' \in Nat /\ trimmed' \in SUBSET Event
    BY <1>1, <1>2, <1>6, <1>7, <1>9
  <1>12. Queued(e)' \/ e \in trimmed'
    BY <1>4, <1>5, <1>8, <1>9 DEF Queued
  <1>13. \A d \in Event : d # e /\ Queued(d)' => Queued(d)
    BY <1>1, <1>4, <1>9 DEF Queued
  <1>14. \A d \in Event : Queued(d) => Queued(d)' \/ d \in trimmed'
    BY <1>8, <1>9 DEF Queued
  <1> QED
    BY <1>1, <1>8, <1>9, <1>10, <1>11, <1>12, <1>13, <1>14

-----------------------------------------------------------------------------
(* The invariant holds initially and every action preserves it. *)

LEMMA InitIInv == Init => IInv
  <1> SUFFICES ASSUME Init PROVE IInv
    OBVIOUS
  <1> USE DEF Init
  <1>1. TypeOK
    <2>1. retry \in [Process -> [batch : SUBSET Entry, cur : SUBSET Entry]]
      BY DEF IdleRetry
    <2>2. faults \in 0 .. MaxFaults
      BY DeliveryAssumption
    <2>3. rows \in [Event -> Nat] /\ call \in [Event -> CallState]
      BY DEF CallState
    <2> QED BY <2>1, <2>2, <2>3 DEF TypeOK
  <1>2. StoredAtMostOnce /\ NoSilentLoss /\ NotYetQueued
    BY DEF StoredAtMostOnce, NoSilentLoss, NotYetQueued, Queued
  <1>3. BatchAccounted /\ CurrentStored
    BY DEF BatchAccounted, CurrentStored, IdleRetry
  <1> QED BY <1>1, <1>2, <1>3 DEF IInv

\* The steps of a call of recordBestEffort.
LEMMA CallPreserves ==
    ASSUME IInv, NEW e \in Event,
           RecordBestEffort(e) \/ Record(e) \/ RecordRejected(e) \/ RecordFails(e)
    PROVE  IInv'
  <1> USE DEF IInv
  <1>1. /\ rows' \in [Event -> Nat]
        /\ \A d \in Event : rows[d] > 0 => rows'[d] > 0
        /\ StoredAtMostOnce'
    BY InsertLemma
       DEF RecordBestEffort, Record, RecordRejected, RecordFails, TypeOK, StoredAtMostOnce
  <1>2. /\ stream' = stream /\ nextSid' = nextSid /\ trimmed' = trimmed
        /\ appKeys' = appKeys /\ retry' = retry
    BY DEF RecordBestEffort, Record, RecordRejected, RecordFails
  <1>3. /\ call[e] \in {"new", "insert"}
        /\ \/ call' = [call EXCEPT ![e] = "insert"]
           \/ call' = [call EXCEPT ![e] = "done"]
           \/ call' = [call EXCEPT ![e] = "enqueue"]
    BY DEF RecordBestEffort, Record, RecordRejected, RecordFails, SetCall
  <1>4. faults' \in 0 .. MaxFaults
    BY DeliveryAssumption
       DEF RecordBestEffort, Record, RecordRejected, RecordFails, Fault, TypeOK
  <1>5. call' \in [Event -> CallState]
    BY <1>3 DEF TypeOK, CallState
  <1>6. TypeOK'
    BY <1>1, <1>2, <1>4, <1>5 DEF TypeOK
  <1>7. \A d \in Event : Queued(d)' = Queued(d)
    BY <1>2 DEF Queued
  <1>8. NoSilentLoss'
    BY <1>1, <1>2, <1>3, <1>7 DEF NoSilentLoss, TypeOK
  <1>9. NotYetQueued'
    BY <1>2, <1>3, <1>7 DEF NotYetQueued, TypeOK
  <1>10. BatchAccounted'
    BY <1>1, <1>2 DEF BatchAccounted, TypeOK, Entry
  <1>11. CurrentStored'
    BY <1>1, <1>2 DEF CurrentStored, TypeOK, Entry
  <1> QED BY <1>1, <1>6, <1>8, <1>9, <1>10, <1>11

\* The steps that append to the stream.
LEMMA AppendPreserves ==
    ASSUME IInv, NEW e \in Event, Enqueue(e) \/ EnqueueFails(e)
    PROVE  IInv'
  <1> USE DEF IInv
  <1>1. /\ rows' = rows /\ appKeys' = appKeys /\ retry' = retry
        /\ call[e] = "enqueue"
        /\ \/ call' = [call EXCEPT ![e] = "queued"]
           \/ call' = [call EXCEPT ![e] = "gap"]
    BY DEF Enqueue, EnqueueFails, SetCall
  <1>2. faults' \in 0 .. MaxFaults
    BY DeliveryAssumption DEF Enqueue, EnqueueFails, Fault, TypeOK
  <1>3. call' \in [Event -> CallState]
    BY <1>1 DEF TypeOK, CallState
  <1>4. StoredAtMostOnce'
    BY <1>1 DEF StoredAtMostOnce
  <1>5. CurrentStored'
    BY <1>1 DEF CurrentStored
  <1>6. CASE \E n \in {1, 2} : Append(e, n)
    <2>1. PICK n \in {1, 2} : Append(e, n)
      BY <1>6
    <2>2. TypeOK'
      BY <1>1, <1>2, <1>3, <2>1, AppendLemma DEF TypeOK
    <2>3. NoSilentLoss'
      BY <1>1, <2>1, AppendLemma DEF NoSilentLoss, TypeOK
    <2>4. NotYetQueued'
      BY <1>1, <2>1, AppendLemma DEF NotYetQueued, TypeOK
    <2>5. BatchAccounted'
      BY <1>1, <2>1, AppendLemma DEF BatchAccounted
    <2> QED BY <1>4, <1>5, <2>2, <2>3, <2>4, <2>5
  <1>7. CASE /\ UNCHANGED <<stream, nextSid, trimmed>>
             /\ call' = [call EXCEPT ![e] = "gap"]
    <2>1. \A d \in Event : Queued(d)' = Queued(d)
      BY <1>7 DEF Queued
    <2>2. TypeOK'
      BY <1>1, <1>2, <1>3, <1>7 DEF TypeOK
    <2>3. NoSilentLoss' /\ NotYetQueued'
      BY <1>1, <1>7, <2>1 DEF NoSilentLoss, NotYetQueued, TypeOK
    <2>4. BatchAccounted'
      BY <1>1, <1>7 DEF BatchAccounted
    <2> QED BY <1>4, <1>5, <2>2, <2>3, <2>4
  <1> QED
    BY <1>6, <1>7 DEF Enqueue, EnqueueFails, SetCall

\* The steps of a retry job.  Whatever leaves the stream is stored.
LEMMA RetryFacts ==
    ASSUME IInv, NEW p \in Process,
           \/ RetryTick(p) \/ RetryInsert(p) \/ RetryRejected(p)
           \/ RetryInsertFails(p) \/ Ack(p) \/ AckFails(p)
    PROVE  /\ rows' \in [Event -> Nat]
           /\ \A d \in Event : rows[d] > 0 => rows'[d] > 0
           /\ StoredAtMostOnce'
           /\ stream' \subseteq stream
           /\ \A x \in stream \ stream' : rows[x.ev] > 0
           /\ UNCHANGED <<nextSid, appKeys, call, trimmed>>
           /\ faults' \in 0 .. MaxFaults
           /\ \A q \in Process \ {p} : retry'[q] = retry[q]
           /\ retry' \in [Process -> [batch : SUBSET Entry, cur : SUBSET Entry]]
           /\ \/ retry'[p].batch \subseteq retry[p].batch
              \/ retry'[p].batch \subseteq stream /\ stream' = stream
           /\ \A x \in retry'[p].cur : rows'[x.ev] > 0
  <1> USE DEF IInv
  <1>0. rows \in [Event -> Nat] /\ stream \in SUBSET Entry
        /\ retry \in [Process -> [batch : SUBSET Entry, cur : SUBSET Entry]]
        /\ faults \in 0 .. MaxFaults
    BY DEF TypeOK
  <1>1. CASE RetryTick(p)
    <2>1. OldestOf(stream, Limit) \subseteq stream
      BY DEF OldestOf
    <2>2. /\ retry[p].cur = {}
          /\ retry'[p].batch = OldestOf(stream, Limit)
          /\ retry'[p].cur = retry[p].cur
      BY <1>0, <1>1 DEF RetryTick, IdleRetry
    <2>3. /\ \A q \in Process \ {p} : retry'[q] = retry[q]
          /\ retry' \in [Process -> [batch : SUBSET Entry, cur : SUBSET Entry]]
      BY <1>0, <1>1, <2>1 DEF RetryTick
    <2>4. UNCHANGED <<rows, stream, nextSid, appKeys, call, trimmed, faults>>
      BY <1>1 DEF RetryTick
    <2>5. retry'[p].batch \subseteq stream /\ retry'[p].cur = {}
      BY <2>1, <2>2
    <2>6. StoredAtMostOnce'
      BY <2>4 DEF StoredAtMostOnce
    <2> QED BY <1>0, <2>3, <2>4, <2>5, <2>6
  <1>2. CASE RetryInsert(p)
    <2>1. PICK x \in retry[p].batch :
             /\ Insert(x.ev)
             /\ retry' = [retry EXCEPT ![p] = [batch |-> @.batch \ {x}, cur |-> {x}]]
      BY <1>2 DEF RetryInsert
    <2>2. x \in Entry /\ x.ev \in Event
      BY <1>0 DEF Entry
    <2>3. /\ rows' \in [Event -> Nat] /\ rows'[x.ev] > 0
          /\ \A d \in Event : rows[d] > 0 => rows'[d] > 0
          /\ StoredAtMostOnce'
      BY <1>0, <2>1, <2>2, InsertLemma
    <2>4. /\ retry'[p] = [batch |-> retry[p].batch \ {x}, cur |-> {x}]
          /\ \A q \in Process \ {p} : retry'[q] = retry[q]
          /\ retry' \in [Process -> [batch : SUBSET Entry, cur : SUBSET Entry]]
      BY <1>0, <2>1, <2>2
    <2>5. stream' = stream /\ UNCHANGED <<nextSid, appKeys, call, trimmed, faults>>
      BY <1>2 DEF RetryInsert
    <2>6. retry'[p].batch \subseteq retry[p].batch /\ retry'[p].cur = {x}
      BY <2>4
    <2> QED BY <1>0, <2>3, <2>4, <2>5, <2>6
  <1>3. CASE RetryRejected(p)
    <2>1. retry' = [retry EXCEPT ![p] = IdleRetry]
      BY <1>3 DEF RetryRejected, Stop
    <2> QED BY <1>0, <1>3, <2>1 DEF RetryRejected, IdleRetry, StoredAtMostOnce
  <1>4. CASE RetryInsertFails(p)
    <2>1. retry' = [retry EXCEPT ![p] = IdleRetry]
      BY <1>4 DEF RetryInsertFails, Stop
    <2>2. PICK x \in retry[p].batch : UNCHANGED rows \/ Insert(x.ev)
      BY <1>4 DEF RetryInsertFails
    <2>3. x.ev \in Event
      BY <1>0 DEF Entry
    <2>4. /\ rows' \in [Event -> Nat]
          /\ \A d \in Event : rows[d] > 0 => rows'[d] > 0
          /\ StoredAtMostOnce'
      BY <1>0, <2>2, <2>3, InsertLemma DEF StoredAtMostOnce
    <2> QED
      BY <1>0, <1>4, <2>1, <2>4, DeliveryAssumption
         DEF RetryInsertFails, IdleRetry, Fault
  <1>5. CASE Ack(p)
    <2>1. \A x \in retry[p].cur : rows[x.ev] > 0
      BY DEF CurrentStored
    <2>2. /\ retry'[p] = [batch |-> retry[p].batch, cur |-> {}]
          /\ \A q \in Process \ {p} : retry'[q] = retry[q]
          /\ retry' \in [Process -> [batch : SUBSET Entry, cur : SUBSET Entry]]
      BY <1>0, <1>5 DEF Ack
    <2> QED BY <1>0, <1>5, <2>1, <2>2 DEF Ack, StoredAtMostOnce
  <1>6. CASE AckFails(p)
    <2>1. \A x \in retry[p].cur : rows[x.ev] > 0
      BY DEF CurrentStored
    <2>2. retry' = [retry EXCEPT ![p] = IdleRetry]
      BY <1>6 DEF AckFails, Stop
    <2> QED
      BY <1>0, <1>6, <2>1, <2>2, DeliveryAssumption
         DEF AckFails, IdleRetry, Fault, StoredAtMostOnce
  <1> QED BY <1>1, <1>2, <1>3, <1>4, <1>5, <1>6

LEMMA RetryPreserves ==
    ASSUME IInv, NEW p \in Process,
           \/ RetryTick(p) \/ RetryInsert(p) \/ RetryRejected(p)
           \/ RetryInsertFails(p) \/ Ack(p) \/ AckFails(p)
    PROVE  IInv'
  <1> USE DEF IInv
  <1>1. TypeOK'
    BY RetryFacts DEF TypeOK
  <1>2. \A d \in Event : Queued(d)' => Queued(d)
    BY RetryFacts DEF Queued
  <1>3. \A d \in Event : Queued(d) => Queued(d)' \/ rows'[d] > 0
    BY RetryFacts DEF Queued
  <1>4. NoSilentLoss'
    BY <1>3, RetryFacts DEF NoSilentLoss
  <1>5. NotYetQueued'
    BY <1>2, RetryFacts DEF NotYetQueued
  <1>6. BatchAccounted'
    <2> SUFFICES ASSUME NEW q \in Process, NEW x \in retry'[q].batch
                 PROVE  rows'[x.ev] > 0 \/ x \in stream' \/ x.ev \in trimmed'
      BY DEF BatchAccounted
    <2>1. x.ev \in Event
      BY <1>1 DEF TypeOK, Entry
    <2>2. x \in retry[q].batch \/ (x \in stream /\ stream' = stream)
      BY RetryFacts
    <2>3. rows[x.ev] > 0 \/ x \in stream \/ x.ev \in trimmed
      BY <2>2 DEF BatchAccounted
    <2> QED BY <2>1, <2>3, RetryFacts
  <1>7. CurrentStored'
    <2> SUFFICES ASSUME NEW q \in Process, NEW x \in retry'[q].cur
                 PROVE  rows'[x.ev] > 0
      BY DEF CurrentStored
    <2>1. x.ev \in Event
      BY <1>1 DEF TypeOK, Entry
    <2>2. CASE q = p
      BY <2>2, RetryFacts
    <2>3. CASE q # p
      BY <2>1, <2>3, RetryFacts DEF CurrentStored
    <2> QED BY <2>2, <2>3
  <1> QED BY <1>1, <1>4, <1>5, <1>6, <1>7, RetryFacts

LEMMA CrashPreserves ==
    ASSUME IInv, NEW p \in Process, Crash(p)
    PROVE  IInv'
  <1> USE DEF IInv, Crash
  <1>1. /\ \A d \in Event : Queued(d)' = Queued(d)
        /\ \A d \in Event : call'[d] = call[d]
              \/ (call[d] \in {"insert", "enqueue"} /\ call'[d] = "died")
    BY DEF Queued
  <1>2. call' \in [Event -> CallState]
    BY DEF TypeOK, CallState
  <1>3. TypeOK'
    BY <1>2, DeliveryAssumption DEF TypeOK, IdleRetry, Fault
  <1>4. NoSilentLoss' /\ NotYetQueued'
    BY <1>1 DEF NoSilentLoss, NotYetQueued
  <1>5. \A q \in Process : retry'[q] = retry[q] \/ retry'[q] = IdleRetry
    BY DEF TypeOK
  <1>6. BatchAccounted' /\ CurrentStored'
    BY <1>5 DEF BatchAccounted, CurrentStored, IdleRetry
  <1> QED BY <1>3, <1>4, <1>6 DEF StoredAtMostOnce

LEMMA OthersPreserve == IInv /\ (Flush \/ CacheKey \/ UNCHANGED vars) => IInv'
  BY DEF IInv, Flush, CacheKey, vars, TypeOK, StoredAtMostOnce, NoSilentLoss,
         NotYetQueued, BatchAccounted, CurrentStored, Queued

LEMMA NextIInv == IInv /\ [Next]_vars => IInv'
  BY CallPreserves, AppendPreserves, RetryPreserves, CrashPreserves, OthersPreserve
     DEF Next, CallStep, RetryStep

LEMMA InductiveInvariant == Spec => []IInv
  BY InitIInv, NextIInv, PTL DEF Spec

-----------------------------------------------------------------------------
(* The theorems. *)

\* The state is well typed.
THEOREM TypeCorrect == Spec => []TypeOK
  <1>1. IInv => TypeOK
    BY DEF IInv
  <1> QED BY <1>1, InductiveInvariant, PTL

\* However inserts fail, are replayed or race, no event has two rows.
THEOREM AtMostOnce == Spec => []StoredAtMostOnce
  <1>1. IInv => StoredAtMostOnce
    BY DEF IInv
  <1> QED BY <1>1, InductiveInvariant, PTL

\* recordBestEffort that queued its event did not lose it.
THEOREM NothingLostSilently == Spec => []NoSilentLoss
  <1>1. IInv => NoSilentLoss
    BY DEF IInv
  <1> QED BY <1>1, InductiveInvariant, PTL

-----------------------------------------------------------------------------
(* Steps, and the fate of one event. *)

\* What one step may do to an event and to its entries.
StepFacts ==
    /\ \A d \in Event : rows[d] > 0 => rows'[d] > 0
    /\ \A d \in Event : rows[d] = 0 /\ rows'[d] > 0
          => call[d] = "insert" \/ Queued(d) \/ d \in trimmed
    /\ trimmed \subseteq trimmed'
    /\ \A x \in stream \ stream' : rows'[x.ev] > 0 \/ x.ev \in trimmed'
    /\ \A d \in Event : Queued(d)' => Queued(d) \/ call[d] = "enqueue"
    /\ \A d \in Event : d \in trimmed'
          => d \in trimmed \/ Queued(d) \/ call[d] = "enqueue"
    /\ \A d \in Event : call[d] \in {"gap", "died"} => call'[d] = call[d]

LEMMA CallStepFacts ==
    ASSUME IInv, NEW e \in Event,
           RecordBestEffort(e) \/ Record(e) \/ RecordRejected(e) \/ RecordFails(e)
    PROVE  StepFacts
  <1> USE DEF IInv
  <1>1. UNCHANGED <<stream, trimmed>>
    BY DEF RecordBestEffort, Record, RecordRejected, RecordFails
  <1>2. \A d \in Event : Queued(d)' = Queued(d)
    BY <1>1 DEF Queued
  <1>3. /\ call[e] \in {"new", "insert"}
        /\ \A d \in Event \ {e} : call'[d] = call[d]
    BY DEF RecordBestEffort, Record, RecordRejected, RecordFails, SetCall, TypeOK
  <1>4. UNCHANGED rows \/ (call[e] = "insert" /\ Insert(e))
    BY DEF RecordBestEffort, Record, RecordRejected, RecordFails
  <1>5. /\ \A d \in Event : rows[d] > 0 => rows'[d] > 0
        /\ \A d \in Event : rows[d] = 0 /\ rows'[d] > 0 => call[d] = "insert"
    BY <1>4, InsertLemma DEF TypeOK
  <1> QED BY <1>1, <1>2, <1>3, <1>5 DEF StepFacts

LEMMA AppendStepFacts ==
    ASSUME IInv, NEW e \in Event, Enqueue(e) \/ EnqueueFails(e)
    PROVE  StepFacts
  <1> USE DEF IInv
  <1>1. /\ rows' = rows /\ call[e] = "enqueue"
        /\ \A d \in Event \ {e} : call'[d] = call[d]
    BY DEF Enqueue, EnqueueFails, SetCall, TypeOK
  <1>2. CASE \E n \in {1, 2} : Append(e, n)
    <2>1. /\ trimmed \subseteq trimmed'
          /\ \A x \in stream : x \in stream' \/ x.ev \in trimmed'
          /\ \A d \in Event : d # e /\ Queued(d)' => Queued(d)
          /\ \A d \in Event : d # e /\ d \in trimmed' => d \in trimmed \/ Queued(d)
      BY <1>2, AppendLemma
    <2>2. \A d \in Event : rows[d] = 0 => ~(rows'[d] > 0)
      BY <1>1
    <2> QED BY <1>1, <2>1, <2>2 DEF StepFacts
  <1>3. CASE UNCHANGED <<stream, trimmed>>
    <2>1. \A d \in Event : Queued(d)' = Queued(d)
      BY <1>3 DEF Queued
    <2>2. \A d \in Event : rows[d] = 0 => ~(rows'[d] > 0)
      BY <1>1
    <2> QED BY <1>1, <1>3, <2>1, <2>2 DEF StepFacts
  <1> QED BY <1>2, <1>3 DEF Enqueue, EnqueueFails

LEMMA RetryStepFacts ==
    ASSUME IInv, NEW p \in Process,
           \/ RetryTick(p) \/ RetryInsert(p) \/ RetryRejected(p)
           \/ RetryInsertFails(p) \/ Ack(p) \/ AckFails(p)
    PROVE  StepFacts
  <1> USE DEF IInv
  <1>1. UNCHANGED rows \/ \E x \in retry[p].batch : Insert(x.ev)
    BY DEF RetryTick, RetryInsert, RetryRejected, RetryInsertFails, Ack, AckFails
  <1>2. \A d \in Event : rows[d] = 0 /\ rows'[d] > 0 => Queued(d) \/ d \in trimmed
    <2> SUFFICES ASSUME NEW d \in Event, rows[d] = 0, rows'[d] > 0
                 PROVE  Queued(d) \/ d \in trimmed
      OBVIOUS
    <2>1. PICK x \in retry[p].batch : Insert(x.ev)
      BY <1>1
    <2>2. x.ev \in Event
      BY DEF TypeOK, Entry
    <2>3. x.ev = d
      BY <2>1, <2>2, InsertLemma DEF TypeOK
    <2>4. rows[x.ev] > 0 \/ x \in stream \/ x.ev \in trimmed
      BY DEF BatchAccounted
    <2> QED BY <2>3, <2>4 DEF Queued
  <1>3. \A d \in Event : Queued(d)' => Queued(d)
    BY RetryFacts DEF Queued
  <1>4. \A x \in stream \ stream' : rows'[x.ev] > 0
    BY RetryFacts DEF TypeOK, Entry
  <1> QED BY <1>2, <1>3, <1>4, RetryFacts DEF StepFacts

LEMMA OtherStepFacts ==
    ASSUME IInv,
           (\E p \in Process : Crash(p)) \/ Flush \/ CacheKey \/ UNCHANGED vars
    PROVE  StepFacts
  <1> USE DEF IInv
  <1>1. UNCHANGED <<rows, stream, trimmed>>
    BY DEF Crash, Flush, CacheKey, vars
  <1>2. \A d \in Event : call[d] \in {"gap", "died"} => call'[d] = call[d]
    BY DEF Crash, Flush, CacheKey, vars
  <1>3. \A d \in Event : Queued(d)' = Queued(d)
    BY <1>1 DEF Queued
  <1> QED BY <1>1, <1>2, <1>3 DEF StepFacts, TypeOK

LEMMA EveryStep == IInv /\ [Next]_vars => StepFacts
  BY CallStepFacts, AppendStepFacts, RetryStepFacts, OtherStepFacts
     DEF Next, CallStep, RetryStep

\* One step changes the fate of an event in a legal way, or not at all.
LEMMA FateMoves ==
    ASSUME IInv, StepFacts, NEW e \in Event, Fate(e)' # Fate(e)
    PROVE  <<Fate(e), Fate(e)'>> \in Log!Moves
  <1> USE DEF Log!Moves
  <1>1. /\ rows[e] > 0 => rows'[e] > 0
        /\ ~(rows[e] > 0) /\ rows'[e] > 0
              => call[e] = "insert" \/ Queued(e) \/ e \in trimmed
        /\ Queued(e) => Queued(e)' \/ rows'[e] > 0 \/ e \in trimmed'
        /\ Queued(e)' => Queued(e) \/ call[e] = "enqueue"
        /\ e \in trimmed => e \in trimmed'
        /\ e \in trimmed' => e \in trimmed \/ Queued(e) \/ call[e] = "enqueue"
        /\ call[e] \in {"gap", "died"} => call'[e] = call[e]
        /\ call[e] = "enqueue" => ~Queued(e) /\ e \notin trimmed
    BY DEF StepFacts, IInv, NotYetQueued, TypeOK, Queued
  <1>2. CASE rows[e] > 0
    BY <1>1, <1>2 DEF Fate
  <1>3. CASE ~(rows[e] > 0) /\ Queued(e)
    BY <1>1, <1>3 DEF Fate
  <1>4. CASE ~(rows[e] > 0) /\ ~Queued(e) /\ e \in trimmed
    BY <1>1, <1>4 DEF Fate
  <1>5. CASE ~(rows[e] > 0) /\ ~Queued(e) /\ e \notin trimmed /\ call[e] \in {"gap", "died"}
    BY <1>1, <1>5 DEF Fate
  <1>6. CASE ~(rows[e] > 0) /\ ~Queued(e) /\ e \notin trimmed /\ call[e] \notin {"gap", "died"}
    BY <1>6 DEF Fate
  <1> QED
    BY <1>2, <1>3, <1>4, <1>5, <1>6

\* No entry leaves the stream before its event is stored, unless MAXLEN
\* removes it.
THEOREM AcknowledgedIsStored == Spec => AckFollowsInsert
  <1>1. IInv /\ [Next]_vars
          => [\A x \in stream \ stream' : rows'[x.ev] > 0 \/ x.ev \in trimmed']_vars
    BY EveryStep DEF StepFacts
  <1> QED
    BY <1>1, InductiveInvariant, PTL DEF Spec, AckFollowsInsert

\* Delivery implements the abstract log, for any number of events, processes,
\* failures and crashes and any queue bound.
THEOREM Implementation == Spec => ImplementsLog
  <1>1. Init => Log!Init
    BY DEF Init, Log!Init, fates, Fate, Queued
  <1>2. IInv /\ [Next]_vars => [Log!Next]_fates
    <2> SUFFICES ASSUME IInv, [Next]_vars PROVE Log!Next
      OBVIOUS
    <2>1. StepFacts
      BY EveryStep
    <2>2. fates' \in [Event -> Log!Status]
      BY DEF fates, Fate, Log!Status
    <2>3. \A e \in Event : fates'[e] # fates[e] => <<fates[e], fates'[e]>> \in Log!Moves
      <3> SUFFICES ASSUME NEW e \in Event, fates'[e] # fates[e]
                   PROVE  <<fates[e], fates'[e]>> \in Log!Moves
        OBVIOUS
      <3>1. fates[e] = Fate(e) /\ fates'[e] = Fate(e)'
        BY DEF fates
      <3> QED BY <2>1, <3>1, FateMoves
    <2> QED BY <2>2, <2>3 DEF Log!Next
  <1> QED
    BY <1>1, <1>2, InductiveInvariant, PTL DEF Spec, ImplementsLog, Log!Spec
=============================================================================
