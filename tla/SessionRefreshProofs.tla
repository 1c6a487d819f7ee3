------------------------ MODULE SessionRefreshProofs ------------------------
(***************************************************************************)
(* Whatever overlaps, fails or is lost, the token of a live session is not *)
(* known as used or as replaced (ActiveIsClean), for any number of devices *)
(* and requests.  Devices that wait for their answers are never stranded   *)
(* by a lost one (HandUsablePatiently), nor is their retry taken for reuse *)
(* (PatientRetryIsNotReuse).                                               *)
(***************************************************************************)
EXTENDS MCSessionRefresh, FiniteSetTheorems, TLAPS

\* Requests that may still issue a token, and those that are not idle.
Pending == {r \in Request : req[r].pc \in {"select", "grace", "used", "revoke", "update"}}
Busy    == {r \in Request : ~At(r, "idle")}

\* A token is left for every request that may still issue one.
Bounded == next + Cardinality(Pending) <= MaxToken + 1

\* Every token that is anywhere was issued before.
Issued ==
    /\ \A s \in Session : active[s] < next
    /\ \A t \in Token : t >= next => t \notin used /\ grace[t] = None
    /\ \A t \in Token : grace[t] < next
    /\ \A s \in Session : hand[s] < next
    /\ \A r \in Request : req[r].tok < next /\ req[r].new < next

\* A token identifies one live session.
OneSession ==
    \A s1, s2 \in Session : active[s1] = active[s2] /\ active[s1] # None => s1 = s2

\* Before its update, only the session a request has found can hold the token it
\* presented; from then on none does.
Replaced ==
    \A r \in Request, s \in Session : active[s] = req[r].tok /\ active[s] # None =>
        /\ req[r].pc = "update" => s = req[r].ses
        /\ req[r].pc \notin {"setGrace", "setUsed"}

IInv == TypeOK /\ Bounded /\ Issued /\ OneSession /\ Replaced /\ ActiveIsClean

-----------------------------------------------------------------------------
(* Counting requests. *)

LEMMA Finite ==
    /\ IsFiniteSet(Pending) /\ Cardinality(Pending) \in Nat
    /\ IsFiniteSet(Pending') /\ Cardinality(Pending') \in Nat
    /\ IsFiniteSet(Busy) /\ Cardinality(Busy) \in Nat
  <1>1. Pending \in SUBSET Request /\ Pending' \in SUBSET Request /\ Busy \in SUBSET Request
    BY DEF Pending, Busy
  <1>2. IsFiniteSet(Pending) /\ IsFiniteSet(Pending') /\ IsFiniteSet(Busy)
    BY <1>1, FS_Subset, RefreshAssumption
  <1> QED BY <1>2, FS_CardinalityType

\* A step that issues no token and starts no request keeps the bound.
LEMMA BoundedKept ==
    ASSUME TypeOK, Bounded, next' = next, Pending' \subseteq Pending
    PROVE  Bounded'
  <1>1. Cardinality(Pending') <= Cardinality(Pending)
    BY Finite, FS_Subset
  <1> QED BY <1>1, Finite, RefreshAssumption DEF Bounded, TypeOK

LEMMA PendingSpare ==
    ASSUME TypeOK, Spare
    PROVE  next + Cardinality(Pending) <= MaxToken /\ next \in 1 .. MaxToken
  <1>1. Pending \in SUBSET Busy
    BY DEF Pending, Busy, At
  <1>2. Cardinality(Pending) <= Cardinality(Busy)
    BY <1>1, Finite, FS_Subset
  <1>3. next + Cardinality(Busy) <= MaxToken
    BY DEF Spare, Busy
  <1> QED BY <1>2, <1>3, Finite, RefreshAssumption DEF TypeOK

\* With a token to spare, a token may be issued ...
LEMMA SpareIssued ==
    ASSUME TypeOK, Spare, next' = next + 1, Pending' = Pending
    PROVE  Bounded'
  BY PendingSpare, Finite, RefreshAssumption DEF Bounded, TypeOK

\* ... or a request be started.
LEMMA SpareStarted ==
    ASSUME TypeOK, Spare, NEW r \in Request, next' = next, Pending' \subseteq Pending \cup {r}
    PROVE  Bounded'
  <1>1. /\ IsFiniteSet(Pending \cup {r})
        /\ Cardinality(Pending \cup {r}) \in Nat
        /\ Cardinality(Pending \cup {r}) <= Cardinality(Pending) + 1
    <2>1. IsFiniteSet(Pending \cup {r})
            /\ Cardinality(Pending \cup {r})
                 = IF r \in Pending THEN Cardinality(Pending) ELSE Cardinality(Pending) + 1
      BY Finite, FS_AddElement
    <2> QED BY <2>1, Finite
  <1>2. Cardinality(Pending') <= Cardinality(Pending \cup {r})
    BY <1>1, FS_Subset
  <1> QED BY <1>1, <1>2, PendingSpare, Finite, RefreshAssumption DEF Bounded, TypeOK

\* A request that still may issue a token finds one.
LEMMA TokenLeft ==
    ASSUME TypeOK, Bounded, NEW r \in Pending, next' = next + 1, Pending' \subseteq Pending \ {r}
    PROVE  Bounded' /\ next \in 1 .. MaxToken /\ next' \in 1 .. MaxToken + 1
  <1>1. /\ IsFiniteSet(Pending \ {r})
        /\ Cardinality(Pending \ {r}) = Cardinality(Pending) - 1
    <2>1. IsFiniteSet(Pending \ {r})
            /\ Cardinality(Pending \ {r})
                 = IF r \in Pending THEN Cardinality(Pending) - 1 ELSE Cardinality(Pending)
      BY Finite, FS_RemoveElement
    <2> QED BY <2>1
  <1>2. Cardinality(Pending') <= Cardinality(Pending \ {r})
    BY <1>1, FS_Subset
  <1> QED BY <1>1, <1>2, Finite, RefreshAssumption DEF Bounded, TypeOK

-----------------------------------------------------------------------------
(* The inductive invariant. *)

LEMMA InitIInv == Init => IInv
  <1> SUFFICES ASSUME Init PROVE IInv
    OBVIOUS
  <1> USE RefreshAssumption DEF Init, None, Token, NoReq, Pc
  <1>1. TypeOK
    <2>1. (CHOOSE s \in Session : TRUE) \in Session
      OBVIOUS
    <2> QED BY <2>1 DEF TypeOK
  <1>2. Bounded
    <2>1. Pending = {}
      BY DEF Pending
    <2> QED BY <2>1, FS_EmptySet DEF Bounded
  <1>3. Issued /\ OneSession /\ Replaced /\ ActiveIsClean
    BY DEF Issued, OneSession, Replaced, ActiveIsClean
  <1> QED BY <1>1, <1>2, <1>3 DEF IInv

LEMMA TokenFacts ==
    /\ None \in Token
    /\ \A t \in Token : t \in Nat
    /\ \A t \in 1 .. MaxToken : t \in Token /\ t # None
  BY RefreshAssumption DEF Token, None

LEMMA Numbers ==
    ASSUME TypeOK
    PROVE  /\ next \in Nat
           /\ \A s \in Session : active[s] \in Nat /\ hand[s] \in Nat
           /\ \A t \in Token : grace[t] \in Nat
           /\ \A r \in Request : req[r].tok \in Nat /\ req[r].new \in Nat
  <1>1. next \in Nat
    BY RefreshAssumption DEF TypeOK
  <1>2. \A s \in Session : active[s] \in Nat /\ hand[s] \in Nat
    BY TokenFacts DEF TypeOK
  <1>3. \A t \in Token : grace[t] \in Nat
    BY TokenFacts DEF TypeOK
  <1>4. \A r \in Request : req[r].tok \in Nat /\ req[r].new \in Nat
    <2>1. \A r \in Request : req[r].tok \in Token /\ req[r].new \in Token
      BY DEF TypeOK
    <2> QED BY <2>1, TokenFacts
  <1> QED BY <1>1, <1>2, <1>3, <1>4

\* A device signs in: its row gets a token that nothing mentions.
LEMMA ExchangePreserves ==
    ASSUME IInv, NEW s \in Session, Exchange(s)
    PROVE  IInv'
  <1> USE DEF IInv, Exchange
  <1>1. Bounded' /\ next' \in 1 .. MaxToken + 1 /\ next \in 1 .. MaxToken
    <2>1. Pending' = Pending
      BY DEF Pending
    <2>2. next \in 1 .. MaxToken
      BY PendingSpare
    <2> QED BY <2>1, <2>2, SpareIssued, RefreshAssumption
  <1>2. next \in Token /\ next # None /\ next \in Nat /\ next' = next + 1
    BY <1>1, TokenFacts
  <1>3. TypeOK'
    <2>1. active' \in [Session -> Token] /\ hand' \in [Session -> Token]
      BY <1>2 DEF TypeOK
    <2>2. expired' \in SUBSET Session
      BY DEF TypeOK
    <2> QED BY <1>1, <2>1, <2>2 DEF TypeOK
  <1>4. /\ active'[s] = next
        /\ \A x \in Session : x # s => active'[x] = active[x]
        /\ UNCHANGED <<grace, used, req>>
        /\ \A x \in Session : hand'[x] \in {hand[x], next}
    BY DEF TypeOK
  <1>5. Issued'
    <2>1. \A x \in Session : active'[x] < next' /\ hand'[x] < next'
      BY <1>2, <1>4, Numbers DEF Issued
    <2>2. \A t \in Token : t >= next' => t \notin used' /\ grace'[t] = None
      BY <1>2, <1>4, TokenFacts DEF TypeOK, Issued
    <2>3. \A t \in Token : grace'[t] < next'
      BY <1>2, <1>4, Numbers DEF Issued
    <2>4. \A r \in Request : req'[r].tok < next' /\ req'[r].new < next'
      BY <1>2, <1>4, Numbers DEF Issued
    <2> QED BY <2>1, <2>2, <2>3, <2>4 DEF Issued
  <1>6. OneSession'
    BY <1>2, <1>3, <1>4, TokenFacts DEF TypeOK, Issued, OneSession
  <1>7. Replaced'
    BY <1>2, <1>3, <1>4, TokenFacts DEF TypeOK, Issued, Replaced
  <1>8. ActiveIsClean'
    BY <1>2, <1>3, <1>4, TokenFacts DEF TypeOK, Issued, ActiveIsClean
  <1> QED BY <1>1, <1>3, <1>5, <1>6, <1>7, <1>8

\* A request is sent.
LEMMA SendPreserves ==
    ASSUME IInv, NEW r \in Request, NEW s \in Session, Send(r, s)
    PROVE  IInv'
  <1> USE DEF IInv, Send
  <1>1. Bounded'
    <2>1. Pending' \subseteq Pending \cup {r}
      BY DEF Pending, TypeOK
    <2> QED BY <2>1, SpareStarted
  <1>2. /\ req' \in [Request -> [pc : Pc, dev : Session, tok : Token,
                                 ses : Session, new : Token]]
        /\ \A q \in Request : q # r => req'[q] = req[q]
        /\ req'[r].pc = "select" /\ req'[r].tok = hand[s] /\ req'[r].new = None
    BY TokenFacts DEF TypeOK, Pc
  <1>3. TypeOK'
    BY <1>2 DEF TypeOK
  <1>4. next \in Nat /\ None < next
    BY RefreshAssumption DEF TypeOK, None
  <1>5. Issued'
    BY <1>2, <1>4 DEF TypeOK, Issued
  <1>6. OneSession' /\ Replaced' /\ ActiveIsClean'
    BY <1>2 DEF TypeOK, OneSession, Replaced, ActiveIsClean
  <1> QED BY <1>1, <1>3, <1>5, <1>6

\* What a lookup, an answer or a failure does to its request.
Looked(r) ==
    /\ req' \in [Request -> [pc : Pc, dev : Session, tok : Token,
                             ses : Session, new : Token]]
    /\ \A q \in Request : q # r => req'[q] = req[q]
    /\ req'[r].tok \in {req[r].tok, None}
    /\ req'[r].new \in {req[r].new, None, grace[req[r].tok]}
    /\ req'[r].pc \notin {"setGrace", "setUsed"}
    /\ req'[r].pc = "update" => /\ req'[r].tok = req[r].tok
                                /\ active[req'[r].ses] = req[r].tok
    /\ r \in Pending' => r \in Pending

LEMMA LookedFacts ==
    ASSUME TypeOK, NEW r \in Request,
           Select(r) \/ Grace(r) \/ Used(r) \/ Answer(r) \/ Reject(r) \/ Fail(r)
    PROVE  Looked(r)
  <1>0. /\ req \in [Request -> [pc : Pc, dev : Session, tok : Token,
                                ses : Session, new : Token]]
        /\ grace \in [Token -> Token]
    BY DEF TypeOK
  <1> USE <1>0, TokenFacts DEF Looked, Pending, At, Goto
  <1>1. CASE Select(r)
    <2>1. CASE req' = [req EXCEPT ![r].pc = "grace"] /\ req[r].pc = "select"
      BY <2>1 DEF Pc
    <2>2. ASSUME NEW s \in Session, active[s] = req[r].tok, req[r].pc = "select",
                 NEW pc \in {"update", "reject"},
                 req' = [req EXCEPT ![r].ses = s, ![r].pc = pc]
          PROVE  Looked(r)
      BY <2>2 DEF Pc
    <2> QED BY <1>1, <2>1, <2>2 DEF Select
  <1>2. CASE Grace(r)
    <2>1. CASE req' = [req EXCEPT ![r].pc = "used"] /\ req[r].pc = "grace"
      BY <2>1 DEF Pc
    <2>2. CASE /\ req' = [req EXCEPT ![r].pc = "answer", ![r].new = grace[req[r].tok]]
               /\ req[r].pc = "grace"
      BY <2>2, ZenonT(60) DEF Pc
    <2> QED BY <1>2, <2>1, <2>2 DEF Grace
  <1>3. CASE Used(r)
    BY <1>3, ZenonT(60) DEF Used, Pc
  <1>4. CASE Answer(r) \/ Reject(r)
    <2>1. req' = [req EXCEPT ![r] = [pc |-> "idle", dev |-> req[r].dev, tok |-> None,
                                     ses |-> req[r].dev, new |-> None]]
      BY <1>4 DEF Answer, Reject, NoReq
    <2> QED BY <2>1 DEF Pc
  <1>5. CASE Fail(r)
    BY <1>5 DEF Fail, Pc
  <1> QED BY <1>1, <1>2, <1>3, <1>4, <1>5

\* A lookup, an answer or a failure changes neither rows nor notes.
LEMMA LookPreserves ==
    ASSUME IInv, NEW r \in Request,
           Select(r) \/ Grace(r) \/ Used(r) \/ Answer(r) \/ Reject(r) \/ Fail(r)
    PROVE  IInv'
  <1> USE DEF IInv
  <1>1. /\ UNCHANGED <<active, expired, grace, used, next>>
        /\ hand' \in [Session -> Token]
        /\ \A s \in Session : hand'[s] = hand[s] \/ hand'[s] = req[r].new
        /\ faults' \in 0 .. MaxFaults
    BY RefreshAssumption DEF Select, Grace, Used, Answer, Reject, Fail, TypeOK
  <1>2. Looked(r)
    BY LookedFacts
  <1>3. Bounded'
    <2>1. Pending' \subseteq Pending
      BY <1>2 DEF Looked, Pending
    <2> QED BY <1>1, <2>1, BoundedKept
  <1>4. TypeOK'
    BY <1>1, <1>2 DEF TypeOK, Looked
  <1>5. Issued'
    <2>1. next \in Nat /\ None < next
      BY RefreshAssumption DEF TypeOK, None
    <2>2. \A q \in Request : req'[q].tok < next /\ req'[q].new < next
      BY <1>2, <2>1 DEF Looked, Issued, TypeOK
    <2> QED BY <1>1, <2>1, <2>2 DEF Issued, TypeOK
  <1>6. Replaced'
    <2>1. ASSUME NEW s \in Session, active[s] = req'[r].tok, active[s] # None
          PROVE  req'[r].pc = "update" => s = req'[r].ses
      BY <1>2, <2>1 DEF Looked, OneSession, TypeOK
    <2> QED BY <1>1, <1>2, <2>1 DEF Looked, Replaced
  <1>7. OneSession' /\ ActiveIsClean'
    BY <1>1 DEF OneSession, ActiveIsClean
  <1> QED BY <1>3, <1>4, <1>5, <1>6, <1>7

\* Sessions are deleted, or expire.
LEMMA RevokePreserves ==
    ASSUME IInv, (\E r \in Request : Revoke(r)) \/ (\E s \in Session : ExpireRefresh(s))
    PROVE  IInv'
  <1> USE DEF IInv
  <1>1. /\ UNCHANGED <<grace, used, hand, next, faults>>
        /\ active' \in [Session -> Token] /\ expired' \in SUBSET Session
        /\ \A s \in Session : active'[s] \in {active[s], None}
    BY TokenFacts DEF Revoke, ExpireRefresh, TypeOK
  <1>2. /\ req' \in [Request -> [pc : Pc, dev : Session, tok : Token,
                                 ses : Session, new : Token]]
        /\ \A q \in Request : /\ req'[q].tok = req[q].tok /\ req'[q].new = req[q].new
                              /\ req'[q].ses = req[q].ses
                              /\ req'[q].pc \in {req[q].pc, "reject"}
    BY DEF Revoke, ExpireRefresh, Goto, TypeOK, Pc
  <1>3. Bounded'
    <2>1. Pending' \subseteq Pending
      BY <1>2 DEF Pending
    <2> QED BY <1>1, <2>1, BoundedKept
  <1>4. TypeOK'
    BY <1>1, <1>2 DEF TypeOK
  <1>5. Issued'
    <2>1. next \in Nat /\ None < next
      BY RefreshAssumption DEF TypeOK, None
    <2> QED BY <1>1, <1>2, <2>1 DEF TypeOK, Issued
  <1>6. OneSession' /\ Replaced' /\ ActiveIsClean'
    BY <1>1, <1>2 DEF TypeOK, OneSession, Replaced, ActiveIsClean
  <1> QED BY <1>3, <1>4, <1>5, <1>6

\* The rotation: the only row that can hold the presented token gets a new one.
LEMMA UpdatePreserves ==
    ASSUME IInv, NEW r \in Request, Update(r)
    PROVE  IInv'
  <1> USE DEF IInv, Update
  <1>1. /\ UNCHANGED <<grace, used, hand, faults>> /\ next' = next + 1
        /\ \A q \in Request : q # r => req'[q] = req[q]
        /\ req'[r].new = next /\ req'[r].pc = "setGrace"
        /\ req'[r].tok = req[r].tok
        /\ req[r].pc = "update"
    BY DEF TypeOK, At
  <1>2. Bounded' /\ next \in 1 .. MaxToken /\ next' \in 1 .. MaxToken + 1
    <2>1. r \in Pending
      BY <1>1 DEF Pending
    <2>2. Pending' \subseteq Pending \ {r}
      BY <1>1 DEF Pending, TypeOK
    <2> QED BY <1>1, <2>1, <2>2, TokenLeft
  <1>3. next \in Token /\ next # None /\ next \in Nat
    BY <1>2, TokenFacts
  <1>4. /\ active' \in [Session -> Token] /\ expired' \in SUBSET Session
        /\ \A s \in Session : s # req[r].ses => active'[s] = active[s]
        /\ active'[req[r].ses] \in {None, next}
    BY <1>3 DEF TypeOK
  <1>5. TypeOK'
    <2>1. req' \in [Request -> [pc : Pc, dev : Session, tok : Token,
                               ses : Session, new : Token]]
      <3>1. req' = [req EXCEPT ![r].new = next, ![r].pc = "setGrace"]
        OBVIOUS
      <3>2. req \in [Request -> [pc : Pc, dev : Session, tok : Token,
                                ses : Session, new : Token]]
        BY DEF TypeOK
      <3>3. "setGrace" \in Pc
        BY DEF Pc
      <3> HIDE DEF Update, IInv
      <3> QED BY <1>3, <3>1, <3>2, <3>3
    <2> QED BY <1>1, <1>2, <1>4, <2>1 DEF TypeOK
  <1>6. Issued'
    <2>1. None < next
      BY <1>2, RefreshAssumption DEF None
    <2> QED BY <1>1, <1>3, <1>4, <2>1, TokenFacts DEF TypeOK, Issued
  <1>7. OneSession'
    BY <1>3, <1>4, TokenFacts DEF TypeOK, Issued, OneSession
  <1>8. ActiveIsClean'
    BY <1>1, <1>3, <1>4, TokenFacts DEF TypeOK, Issued, ActiveIsClean
  <1>9. Replaced'
    <2>1. ASSUME NEW q \in Request, q # r, NEW s \in Session,
                 active'[s] = req'[q].tok, active'[s] # None
          PROVE  active[s] = req[q].tok /\ active[s] # None /\ req'[q] = req[q]
      BY <1>1, <1>3, <1>4, <2>1, TokenFacts DEF TypeOK, Issued
    <2>2. ASSUME NEW s \in Session, active'[s] # None
          PROVE  active'[s] # req[r].tok
      <3>1. CASE s = req[r].ses
        BY <1>3, <1>4, <2>2, <3>1, TokenFacts DEF TypeOK, Issued
      <3>2. CASE s # req[r].ses
        BY <1>1, <1>4, <2>2, <3>2 DEF Replaced
      <3> QED BY <3>1, <3>2
    <2>3. ASSUME NEW q \in Request, NEW s \in Session,
                 active'[s] = req'[q].tok, active'[s] # None
          PROVE  /\ req'[q].pc = "update" => s = req'[q].ses
                 /\ req'[q].pc \notin {"setGrace", "setUsed"}
      <3>1. CASE q = r
        BY <1>1, <2>2, <2>3, <3>1
      <3>2. CASE q # r
        <4>1. active[s] = req[q].tok /\ active[s] # None /\ req'[q] = req[q]
          BY <2>1, <2>3, <3>2
        <4>2. Replaced
          OBVIOUS
        <4> HIDE DEF Update, IInv
        <4> QED BY <4>1, <4>2 DEF Replaced
      <3> QED BY <3>1, <3>2
    <2> HIDE DEF Update, IInv
    <2> QED BY <2>3 DEF Replaced
  <1> QED BY <1>2, <1>5, <1>6, <1>7, <1>8, <1>9

\* The notes are about a token that no live session holds.
LEMMA NotePreserves ==
    ASSUME IInv, NEW r \in Request, SetGrace(r) \/ SetUsed(r)
    PROVE  IInv'
  <1> USE DEF IInv
  <1>1. /\ UNCHANGED <<active, expired, hand, next, faults>>
        /\ grace' \in [Token -> Token] /\ used' \in SUBSET Token
        /\ \A t \in Token : t # req[r].tok => grace'[t] = grace[t]
        /\ grace'[req[r].tok] \in {grace[req[r].tok], req[r].new}
        /\ used' \subseteq used \cup {req[r].tok}
        /\ req[r].pc \in {"setGrace", "setUsed"}
    BY DEF SetGrace, SetUsed, TypeOK, At
  <1>2. /\ req' \in [Request -> [pc : Pc, dev : Session, tok : Token,
                                 ses : Session, new : Token]]
        /\ \A q \in Request : q # r => req'[q] = req[q]
        /\ req'[r].tok = req[r].tok /\ req'[r].new = req[r].new
        /\ req'[r].pc \in {"setUsed", "answer"}
    BY DEF SetGrace, SetUsed, Goto, TypeOK, Pc
  <1>3. Bounded'
    <2>1. Pending' \subseteq Pending
      BY <1>1, <1>2 DEF Pending
    <2> QED BY <1>1, <2>1, BoundedKept
  <1>4. TypeOK'
    BY <1>1, <1>2 DEF TypeOK
  <1>5. Issued'
    <2>1. /\ req[r].tok \in Token /\ req[r].tok < next /\ req[r].new < next
          /\ next \in Nat
      BY RefreshAssumption DEF TypeOK, Issued
    <2>2. \A t \in Token : grace'[t] < next
      BY <1>1, <2>1 DEF Issued
    <2>3. \A t \in Token : t >= next => t \notin used' /\ grace'[t] = None
      BY <1>1, <2>1, TokenFacts DEF Issued
    <2>4. \A q \in Request : req'[q].tok < next /\ req'[q].new < next
      BY <1>2 DEF Issued
    <2> QED BY <1>1, <2>2, <2>3, <2>4 DEF Issued
  <1>6. OneSession' /\ Replaced'
    BY <1>1, <1>2 DEF TypeOK, OneSession, Replaced
  <1>7. ActiveIsClean'
    BY <1>1 DEF TypeOK, ActiveIsClean, Replaced
  <1> QED BY <1>3, <1>4, <1>5, <1>6, <1>7

\* A grace note expires, or nothing happens.
LEMMA OthersPreserve ==
    ASSUME IInv, (\E t \in Token : ExpireGrace(t)) \/ UNCHANGED vars
    PROVE  IInv'
  <1> USE DEF IInv
  <1>1. /\ UNCHANGED <<active, expired, used, hand, req, next, faults>>
        /\ grace' \in [Token -> Token]
        /\ \A t \in Token : grace'[t] \in {grace[t], None}
    BY TokenFacts DEF ExpireGrace, vars, TypeOK
  <1>2. Bounded'
    BY <1>1 DEF Bounded, Pending
  <1>3. TypeOK'
    BY <1>1 DEF TypeOK
  <1>4. Issued'
    <2>1. next \in Nat /\ None < next
      BY RefreshAssumption DEF TypeOK, None
    <2> QED BY <1>1, <2>1 DEF TypeOK, Issued
  <1>5. OneSession' /\ Replaced' /\ ActiveIsClean'
    BY <1>1 DEF TypeOK, OneSession, Replaced, ActiveIsClean
  <1> QED BY <1>2, <1>3, <1>4, <1>5

LEMMA NextIInv == IInv /\ [Next]_vars => IInv'
  BY ExchangePreserves, SendPreserves, LookPreserves, RevokePreserves,
     UpdatePreserves, NotePreserves, OthersPreserve DEF Next, Handle

LEMMA InductiveInvariant == Spec => []IInv
  BY InitIInv, NextIInv, PTL DEF Spec

-----------------------------------------------------------------------------
(* The theorems. *)

\* Sessions, notes, devices and requests keep their types, and the issued tokens
\* stay within the bound.
THEOREM TypeCorrect == Spec => []TypeOK
  <1>1. IInv => TypeOK
    BY DEF IInv
  <1> QED BY <1>1, InductiveInvariant, PTL

\* The token that refreshSession gave a live session is never in a used or grace
\* note, so the next refresh with it is not taken for reuse.
THEOREM ActiveNeverUsed == Spec => []ActiveIsClean
  <1>1. IInv => ActiveIsClean
    BY DEF IInv
  <1> QED BY <1>1, InductiveInvariant, PTL

-----------------------------------------------------------------------------
(* Devices that wait for their answers.  *)

Asks(r, s) == ~At(r, "idle") /\ req[r].dev = s

OneRequest == \A s \in Session, r, q \in Request : Asks(r, s) /\ Asks(q, s) => r = q

\* Every token was issued to one device, and a grace note leads to a token of the
\* same device.
Owned(own) ==
    /\ \A s \in Session : active[s] # None => own[active[s]] = s
    /\ \A s \in Session : hand[s] # None => own[hand[s]] = s
    /\ \A r \in Request : req[r].tok # None => own[req[r].tok] = req[r].dev
    /\ \A r \in Request : req[r].new # None => own[req[r].new] = req[r].dev
    /\ \A t \in Token : grace[t] # None => own[grace[t]] = own[t]

Apart == \E own \in [Token -> Session] : Owned(own)

\* A request rotates the session of its own device, and looks for reuse only of a
\* token without a grace note.
Presented ==
    \A r \in Request : ~At(r, "idle") =>
      /\ req[r].tok # None
      /\ At(r, "update") => req[r].ses = req[r].dev
      /\ req[r].pc \in {"used", "revoke"} => grace[req[r].tok] = None

Noting(s) == \E r \in Request : Asks(r, s) /\ req[r].pc \in {"setGrace", "setUsed"}

\* A device follows its session: it holds the active token or, once the notes are
\* written, one that is known as used; what it is about to be answered is active.
Followed ==
    \A s \in Session : active[s] # None =>
      /\ grace[hand[s]] \in {None, active[s]}
      /\ ~Noting(s) => hand[s] = active[s] \/ hand[s] \in used
      /\ \A r \in Request : Asks(r, s) =>
           /\ req[r].tok = hand[s]
           /\ At(r, "update") => hand[s] = active[s]
           /\ req[r].pc \in {"setGrace", "setUsed", "answer"} => req[r].new = active[s]
           /\ At(r, "answer") => hand[s] \in used

PatientInv == IInv /\ OneRequest /\ Apart /\ Presented /\ Followed

ReqState == [pc : Pc, dev : Session, tok : Token, ses : Session, new : Token]

\* The tables and notes are what they were, but for an expiry, and one request goes on
\* with the token it has.
LEMMA OnwardPatient ==
    ASSUME PatientInv, IInv', OneRequest', NEW r \in Request, NEW pc, req[r].pc # "idle", pc # "idle",
           UNCHANGED <<active, grace, used, hand>>,
           \A q \in Request : q # r => req'[q] = req[q],
           req'[r].pc = pc, req'[r].dev = req[r].dev, req'[r].tok = req[r].tok,
           req'[r].new \in {req[r].new, grace[req[r].tok]},
           pc = "update" => req'[r].ses = req[r].dev
                            /\ (active[req[r].dev] # None => hand[req[r].dev] = active[req[r].dev]),
           pc \in {"used", "revoke"} => grace[req[r].tok] = None,
           pc \notin {"setGrace", "setUsed"} /\ req[r].pc \notin {"setGrace", "setUsed"},
           pc = "answer" /\ active[req[r].dev] # None =>
             req'[r].new = active[req[r].dev] /\ hand[req[r].dev] \in used
    PROVE  PatientInv'
  <1> USE DEF PatientInv
  <1>1. /\ req[r].tok \in Token /\ req[r].dev \in Session
        /\ \A q \in Request : req'[q].dev = req[q].dev /\ req'[q].tok = req[q].tok
                              /\ (At(q, "idle")' <=> At(q, "idle"))
    BY DEF IInv, TypeOK, At
  <1>2. Apart'
    <2>1. PICK own \in [Token -> Session] : Owned(own)
      BY DEF Apart
    <2>2. req'[r].new # None => own[req'[r].new] = req[r].dev
      BY <1>1, <2>1 DEF Owned, Presented, At
    <2>3. Owned(own)'
      BY <1>1, <2>1, <2>2 DEF Owned
    <2> QED BY <2>3 DEF Apart
  <1>3. Presented'
    BY <1>1 DEF Presented, At
  <1>4. Followed'
    <2> SUFFICES ASSUME NEW s \in Session, active[s] # None
                 PROVE  /\ grace[hand[s]] \in {None, active[s]}
                        /\ ~Noting(s)' => hand[s] = active[s] \/ hand[s] \in used
                        /\ \A q \in Request : Asks(q, s)' =>
                             /\ req'[q].tok = hand[s]
                             /\ At(q, "update")' => hand[s] = active[s]
                             /\ req'[q].pc \in {"setGrace", "setUsed", "answer"} => req'[q].new = active[s]
                             /\ At(q, "answer")' => hand[s] \in used
      BY DEF Followed
    <2>1. Noting(s) => Noting(s)'
      BY <1>1 DEF Noting, Asks
    <2>2. ASSUME NEW q \in Request, Asks(q, s)', q # r
          PROVE  /\ req'[q].tok = hand[s]
                 /\ At(q, "update")' => hand[s] = active[s]
                 /\ req'[q].pc \in {"setGrace", "setUsed", "answer"} => req'[q].new = active[s]
                 /\ At(q, "answer")' => hand[s] \in used
      BY <1>1, <2>2 DEF Followed, Asks, At
    <2>3. ASSUME Asks(r, s)'
          PROVE  /\ req'[r].tok = hand[s]
                 /\ At(r, "update")' => hand[s] = active[s]
                 /\ req'[r].pc \in {"setGrace", "setUsed", "answer"} => req'[r].new = active[s]
                 /\ At(r, "answer")' => hand[s] \in used
      BY <1>1, <2>3 DEF Followed, Asks, At
    <2> QED BY <2>1, <2>2, <2>3 DEF Followed
  <1> QED BY <1>2, <1>3, <1>4

\* The lookups of a request.
LEMMA LookupPatient ==
    ASSUME PatientInv, IInv', OneRequest', NEW r \in Request, Select(r) \/ Grace(r) \/ Used(r)
    PROVE  PatientInv'
  <1> DEFINE d == req[r].dev
             t == req[r].tok
  <1>1. /\ UNCHANGED <<active, grace, used, hand>> /\ req[r].pc \in {"select", "grace", "used"}
        /\ req \in [Request -> ReqState] /\ d \in Session /\ t \in Token /\ req[r].new \in Token
        /\ grace \in [Token -> Token]
    BY DEF Select, Grace, Used, At, PatientInv, IInv, TypeOK, ReqState
  <1>2. t # None
    BY <1>1 DEF PatientInv, Presented, At
  <1>3. CASE Select(r)
    <2>1. CASE req' = [req EXCEPT ![r].pc = "grace"]
      <3>1. /\ req'[r] = [req[r] EXCEPT !.pc = "grace"]
            /\ \A q \in Request : q # r => req'[q] = req[q]
        BY <1>1, <2>1
      <3>2. /\ req'[r].pc = "grace" /\ req'[r].dev = d /\ req'[r].tok = t /\ req'[r].new = req[r].new
        BY <1>1, <3>1 DEF ReqState
      <3> QED BY <1>1, <3>1, <3>2, OnwardPatient
    <2>2. ASSUME NEW s \in Session, active[s] = t, NEW pc \in {"update", "reject"},
                 req' = [req EXCEPT ![r].ses = s, ![r].pc = pc]
          PROVE  PatientInv'
      <3>1. /\ req'[r] = [req[r] EXCEPT !.ses = s, !.pc = pc]
            /\ \A q \in Request : q # r => req'[q] = req[q]
        BY <1>1, <2>2
      <3>2. /\ req'[r].pc = pc /\ req'[r].dev = d /\ req'[r].tok = t /\ req'[r].new = req[r].new
            /\ req'[r].ses = s
        BY <1>1, <3>1 DEF ReqState
      <3>3. s = d
        BY <1>1, <1>2, <2>2 DEF PatientInv, Apart, Owned
      <3>4. active[d] # None => hand[d] = active[d]
        BY <1>1, <2>2, <3>3 DEF PatientInv, Followed, Asks, At
      <3> QED BY <1>1, <2>2, <3>1, <3>2, <3>3, <3>4, OnwardPatient
    <2> QED BY <1>3, <2>1, <2>2 DEF Select, Goto
  <1>4. CASE Grace(r)
    <2>1. CASE grace[t] = None
      <3>1. req' = [req EXCEPT ![r].pc = "used"]
        BY <1>4, <2>1 DEF Grace, Goto
      <3>2. /\ req'[r] = [req[r] EXCEPT !.pc = "used"]
            /\ \A q \in Request : q # r => req'[q] = req[q]
        BY <1>1, <3>1
      <3>3. /\ req'[r].pc = "used" /\ req'[r].dev = d /\ req'[r].tok = t /\ req'[r].new = req[r].new
        BY <1>1, <3>2 DEF ReqState
      <3> QED BY <1>1, <2>1, <3>2, <3>3, OnwardPatient
    <2>2. CASE grace[t] # None
      <3>1. req' = [req EXCEPT ![r].pc = "answer", ![r].new = grace[t]]
        BY <1>4, <2>2 DEF Grace
      <3>2. /\ req'[r] = [req[r] EXCEPT !.pc = "answer", !.new = grace[t]]
            /\ \A q \in Request : q # r => req'[q] = req[q]
        BY <1>1, <3>1
      <3>3. /\ req'[r].pc = "answer" /\ req'[r].dev = d /\ req'[r].tok = t /\ req'[r].new = grace[t]
        BY <1>1, <3>2 DEF ReqState
      <3>4. ASSUME active[d] # None PROVE grace[t] = active[d] /\ hand[d] \in used
        <4>1. Asks(r, d) /\ hand[d] = t /\ grace[t] = active[d]
          BY <1>1, <2>2, <3>4 DEF PatientInv, Followed, Asks, At
        <4>2. ~Noting(d)
          BY <1>1, <1>4, <4>1 DEF PatientInv, OneRequest, Noting, Grace, At
        <4>3. t # active[d]
          BY <1>1, <2>2, <3>4 DEF PatientInv, IInv, ActiveIsClean
        <4> QED BY <1>1, <3>4, <4>1, <4>2, <4>3 DEF PatientInv, Followed
      <3> QED BY <1>1, <3>2, <3>3, <3>4, OnwardPatient
    <2> QED BY <2>1, <2>2
  <1>5. CASE Used(r)
    <2>1. PICK pc \in {"revoke", "reject"} : req' = [req EXCEPT ![r].pc = pc]
      BY <1>5 DEF Used, Goto
    <2>2. /\ req'[r] = [req[r] EXCEPT !.pc = pc]
          /\ \A q \in Request : q # r => req'[q] = req[q]
      BY <1>1, <2>1
    <2>3. /\ req'[r].pc = pc /\ req'[r].dev = d /\ req'[r].tok = t /\ req'[r].new = req[r].new
      BY <1>1, <2>2 DEF ReqState
    <2>4. grace[t] = None
      BY <1>1, <1>5 DEF Used, At, PatientInv, Presented
    <2> QED BY <1>1, <2>2, <2>3, <2>4, OnwardPatient
  <1> QED BY <1>3, <1>4, <1>5

\* The answer arrives or is lost: either way the device can ask again.
LEMMA EndPatient ==
    ASSUME PatientInv, IInv', OneRequest', NEW r \in Request, Answer(r) \/ Reject(r)
    PROVE  PatientInv'
  <1> DEFINE d == req[r].dev
  <1>1. /\ UNCHANGED <<active, grace, used>> /\ req[r].pc \in {"answer", "reject"}
        /\ req' = [req EXCEPT ![r] = NoReq(d)] /\ d \in Session
        /\ req \in [Request -> ReqState] /\ hand \in [Session -> Token]
        /\ hand' = hand \/ (At(r, "answer") /\ hand' = [hand EXCEPT ![d] = req[r].new])
    <2>1. d \in Session /\ req \in [Request -> ReqState] /\ hand \in [Session -> Token]
      BY DEF PatientInv, IInv, TypeOK, ReqState
    <2>2. CASE Answer(r)
      <3>1. /\ UNCHANGED <<active, grace, used>> /\ At(r, "answer")
            /\ req' = [req EXCEPT ![r] = NoReq(req[r].dev)]
            /\ hand' = hand \/ hand' = [hand EXCEPT ![req[r].dev] = req[r].new]
        BY <2>2 DEF Answer
      <3> QED BY <2>1, <3>1 DEF At
    <2>3. CASE Reject(r)
      <3>1. /\ UNCHANGED <<active, grace, used, hand>> /\ At(r, "reject")
            /\ req' = [req EXCEPT ![r] = NoReq(req[r].dev)]
        BY <2>3 DEF Reject
      <3> QED BY <2>1, <3>1 DEF At
    <2> QED BY <2>2, <2>3
  <1>2. /\ \A q \in Request : q # r => req'[q] = req[q]
        /\ req'[r].pc = "idle" /\ req'[r].tok = None /\ req'[r].new = None /\ req'[r].dev = d
    BY <1>1 DEF NoReq
  <1>3. /\ \A s \in Session : s # d => hand'[s] = hand[s]
        /\ hand'[d] = hand[d] \/ (At(r, "answer") /\ hand'[d] = req[r].new)
    BY <1>1
  <1>4. Asks(r, d)
    BY <1>1 DEF Asks, At
  <1>5. Apart'
    <2>1. PICK own \in [Token -> Session] : Owned(own)
      BY DEF PatientInv, Apart
    <2>2. \A s \in Session : hand'[s] # None => own[hand'[s]] = s
      BY <1>3, <2>1 DEF Owned
    <2>3. Owned(own)'
      BY <1>1, <1>2, <2>1, <2>2 DEF Owned
    <2> QED BY <2>3 DEF Apart
  <1>6. Presented'
    BY <1>1, <1>2 DEF PatientInv, Presented, At
  <1>7. Followed'
    <2> SUFFICES ASSUME NEW s \in Session, active[s] # None
                 PROVE  /\ grace[hand'[s]] \in {None, active[s]}
                        /\ ~Noting(s)' => hand'[s] = active[s] \/ hand'[s] \in used
                        /\ \A q \in Request : Asks(q, s)' =>
                             /\ req'[q].tok = hand'[s]
                             /\ At(q, "update")' => hand'[s] = active[s]
                             /\ req'[q].pc \in {"setGrace", "setUsed", "answer"} => req'[q].new = active[s]
                             /\ At(q, "answer")' => hand'[s] \in used
      BY <1>1 DEF Followed
    <2>1. CASE s # d
      <3>1. \A q \in Request : Asks(q, s)' => Asks(q, s) /\ req'[q] = req[q]
        BY <1>2 DEF Asks, At
      <3>2. Noting(s) => Noting(s)'
        BY <1>2, <2>1 DEF Noting, Asks, At
      <3> QED BY <1>3, <2>1, <3>1, <3>2 DEF PatientInv, Followed, At
    <2>2. CASE s = d
      <3>1. \A q \in Request : ~Asks(q, s)'
        BY <1>2, <1>4, <2>2 DEF PatientInv, OneRequest, Asks, At
      <3>2. ~Noting(d)
        BY <1>1, <1>4 DEF PatientInv, OneRequest, Noting, At
      <3>3. CASE hand'[d] = hand[d]
        BY <2>2, <3>1, <3>2, <3>3 DEF PatientInv, Followed
      <3>4. CASE At(r, "answer") /\ hand'[d] = req[r].new
        <4>1. hand'[d] = active[d]
          BY <1>1, <1>4, <2>2, <3>4 DEF PatientInv, Followed, At
        <4>2. grace[active[d]] = None
          BY <2>2 DEF PatientInv, IInv, ActiveIsClean
        <4> QED BY <2>2, <3>1, <4>1, <4>2
      <3> QED BY <1>3, <3>3, <3>4
    <2> QED BY <2>1, <2>2
  <1> QED BY <1>5, <1>6, <1>7 DEF PatientInv

\* Reuse deletes every row; the requests under way find none.
LEMMA RevokePatient ==
    ASSUME PatientInv, IInv', OneRequest', NEW r \in Request, Revoke(r)
    PROVE  PatientInv'
  <1>1. /\ UNCHANGED <<grace, used, hand>> /\ req[r].pc = "revoke"
        /\ \A s \in Session : active'[s] = None
        /\ req' = [req EXCEPT ![r].pc = "reject"] /\ req \in [Request -> ReqState]
    BY DEF Revoke, At, Goto, PatientInv, IInv, TypeOK, ReqState
  <1>2. \A q \in Request :
          /\ req'[q].dev = req[q].dev /\ req'[q].tok = req[q].tok /\ req'[q].new = req[q].new
          /\ req'[q].ses = req[q].ses /\ req'[q].pc = IF q = r THEN "reject" ELSE req[q].pc
    BY <1>1 DEF ReqState
  <1>3. Apart'
    <2>1. PICK own \in [Token -> Session] : Owned(own)
      BY DEF PatientInv, Apart
    <2>2. Owned(own)'
      BY <1>1, <1>2, <2>1 DEF Owned
    <2> QED BY <2>2 DEF Apart
  <1>4. Presented'
    BY <1>1, <1>2 DEF PatientInv, Presented, At
  <1>5. Followed'
    BY <1>1 DEF Followed
  <1> QED BY <1>3, <1>4, <1>5 DEF PatientInv

\* The rotation.
LEMMA UpdatePatient ==
    ASSUME PatientInv, IInv', OneRequest', NEW r \in Request, Update(r)
    PROVE  PatientInv'
  <1> DEFINE d == req[r].dev
             t == req[r].tok
  <1>1. /\ UNCHANGED <<grace, used, hand>> /\ req[r].pc = "update" /\ next' = next + 1
        /\ req' = [req EXCEPT ![r].new = next, ![r].pc = "setGrace"]
        /\ active' = active \/ active' = [active EXCEPT ![req[r].ses] = next]
        /\ active[req[r].ses] = None => active' = active
        /\ active[req[r].ses] # None => active' = [active EXCEPT ![req[r].ses] = next]
    BY DEF Update, At
  <1>2. /\ req \in [Request -> ReqState] /\ d \in Session /\ t \in Token
        /\ active \in [Session -> Token]
    BY DEF PatientInv, IInv, TypeOK, ReqState
  <1>3. next \in 1 .. MaxToken
    <2>1. next' \in 1 .. MaxToken + 1 /\ next \in 1 .. MaxToken + 1
      BY DEF PatientInv, IInv, TypeOK
    <2> QED BY <1>1, <2>1, RefreshAssumption
  <1>4. next \in Token /\ next # None /\ next \in Nat
    BY <1>3, TokenFacts
  <1>5. req[r].ses = d /\ t # None
    BY <1>1 DEF PatientInv, Presented, At
  <1>6. /\ req'[r].dev = d /\ req'[r].tok = t /\ req'[r].new = next /\ req'[r].pc = "setGrace"
        /\ \A q \in Request : q # r => req'[q] = req[q]
    <2>1. /\ req'[r] = [req[r] EXCEPT !.new = next, !.pc = "setGrace"]
          /\ \A q \in Request : q # r => req'[q] = req[q]
      BY <1>1, <1>2
    <2> QED BY <1>2, <2>1 DEF ReqState
  <1>7. /\ \A s \in Session : s # d => active'[s] = active[s]
        /\ active'[d] = IF active[d] = None THEN None ELSE next
    BY <1>1, <1>2, <1>5
  <1>8. /\ \A s \in Session : active[s] # next /\ hand[s] # next
        /\ \A q \in Request : req[q].tok # next /\ req[q].new # next
        /\ \A x \in Token : grace[x] # next
        /\ grace[next] = None
    BY <1>3, <1>4, TokenFacts DEF PatientInv, IInv, TypeOK, Issued
  <1>9. Apart'
    <2>1. PICK own \in [Token -> Session] : Owned(own)
      BY DEF PatientInv, Apart
    <2>a. /\ [own EXCEPT ![next] = d] \in [Token -> Session] /\ [own EXCEPT ![next] = d][next] = d
          /\ \A x \in Token : x # next => [own EXCEPT ![next] = d][x] = own[x]
      BY <1>2, <1>4
    <2>2. PICK own2 \in [Token -> Session] :
            own2[next] = d /\ \A x \in Token : x # next => own2[x] = own[x]
      BY <2>a
    <2>3. \A s \in Session : /\ active'[s] # None => own2[active'[s]] = s
                             /\ hand'[s] # None => own2[hand'[s]] = s
      BY <1>1, <1>2, <1>7, <1>8, <2>1, <2>2, SMTT(120) DEF Owned, PatientInv, IInv, TypeOK
    <2>4. \A q \in Request : /\ req'[q].tok # None => own2[req'[q].tok] = req'[q].dev
                             /\ req'[q].new # None => own2[req'[q].new] = req'[q].dev
      <3>1. \A q \in Request : req[q].tok \in Token /\ req[q].new \in Token
        BY <1>2 DEF ReqState
      <3> QED BY <1>6, <1>8, <2>1, <2>2, <3>1 DEF Owned
    <2>5. \A x \in Token : grace'[x] # None => own2[grace'[x]] = own2[x]
      BY <1>1, <1>8, <2>1, <2>2 DEF Owned, PatientInv, IInv, TypeOK
    <2>6. Owned(own2)'
      BY <2>3, <2>4, <2>5 DEF Owned
    <2> QED BY <2>2, <2>6 DEF Apart
  <1>10. Presented'
    BY <1>1, <1>5, <1>6, ZenonT(60) DEF PatientInv, Presented, At
  <1>11. Followed'
    <2> SUFFICES ASSUME NEW s \in Session, active'[s] # None
                 PROVE  /\ grace[hand[s]] \in {None, active'[s]}
                        /\ ~Noting(s)' => hand[s] = active'[s] \/ hand[s] \in used
                        /\ \A q \in Request : Asks(q, s)' =>
                             /\ req'[q].tok = hand[s]
                             /\ At(q, "update")' => hand[s] = active'[s]
                             /\ req'[q].pc \in {"setGrace", "setUsed", "answer"} => req'[q].new = active'[s]
                             /\ At(q, "answer")' => hand[s] \in used
      BY <1>1 DEF Followed
    <2>1. CASE s # d
      <3>1. \A q \in Request : Asks(q, s)' => Asks(q, s) /\ req'[q] = req[q]
        BY <1>6, <2>1 DEF Asks, At
      <3>2. Noting(s) => Noting(s)'
        BY <1>1, <1>6, <2>1 DEF Noting, Asks, At
      <3> QED BY <1>7, <2>1, <3>1, <3>2 DEF PatientInv, Followed, At
    <2>2. CASE s = d
      <3>1. active[d] # None /\ active'[d] = next
        BY <1>7, <2>2
      <3>2. Asks(r, s) /\ Asks(r, s)' /\ Noting(s)'
        BY <1>1, <1>6, <2>2 DEF Asks, At, Noting
      <3>3. hand[d] = active[d] /\ hand[d] = t
        BY <1>1, <1>2, <2>2, <3>1, <3>2 DEF PatientInv, Followed, At
      <3>4. grace[hand[d]] = None
        BY <1>2, <3>1, <3>3 DEF PatientInv, IInv, ActiveIsClean
      <3>5. \A q \in Request : Asks(q, s)' => q = r
        BY <3>2 DEF OneRequest
      <3>6. ASSUME NEW q \in Request, Asks(q, s)'
            PROVE  /\ req'[q].tok = hand[d] /\ req'[q].pc = "setGrace" /\ req'[q].new = active'[d]
        BY <1>6, <2>2, <3>1, <3>3, <3>5, <3>6
      <3> QED BY <2>2, <3>2, <3>4, <3>6 DEF At
    <2> QED BY <2>1, <2>2
  <1> QED BY <1>9, <1>10, <1>11 DEF PatientInv

\* The two notes, both about the token rotated away.
LEMMA NotePatient ==
    ASSUME PatientInv, IInv', OneRequest', NEW r \in Request, SetGrace(r) \/ SetUsed(r)
    PROVE  PatientInv'
  <1> DEFINE d == req[r].dev
             t == req[r].tok
             n == req[r].new
  <1>1. /\ UNCHANGED <<active, hand>> /\ req[r].pc \in {"setGrace", "setUsed"}
        /\ used \subseteq used'
        /\ grace' = grace \/ grace' = [grace EXCEPT ![t] = n]
        /\ \/ req[r].pc = "setGrace" /\ req' = [req EXCEPT ![r].pc = "setUsed"]
           \/ req[r].pc = "setUsed" /\ req' = [req EXCEPT ![r].pc = "answer"] /\ t \in used' /\ grace' = grace
    BY DEF SetGrace, SetUsed, At, Goto
  <1>2. /\ req \in [Request -> ReqState] /\ d \in Session /\ t \in Token /\ n \in Token
        /\ grace \in [Token -> Token]
    BY DEF PatientInv, IInv, TypeOK, ReqState
  <1>3. t # None
    BY <1>1 DEF PatientInv, Presented, At
  <1>4. \A q \in Request : /\ req'[q].dev = req[q].dev /\ req'[q].tok = req[q].tok
                           /\ req'[q].new = req[q].new /\ req'[q].ses = req[q].ses
    BY <1>1, <1>2 DEF ReqState
  <1>5. /\ \A q \in Request : q # r => req'[q] = req[q]
        /\ req'[r].pc = IF req[r].pc = "setGrace" THEN "setUsed" ELSE "answer"
    BY <1>1, <1>2 DEF ReqState
  <1>6. \A q \in Request : At(q, "idle")' <=> At(q, "idle")
    BY <1>1, <1>5 DEF At
  <1>7. \A x \in Token : grace'[x] = grace[x] \/ (x = t /\ grace'[x] = n)
    BY <1>1, <1>2
  <1>8. Apart'
    <2>1. PICK own \in [Token -> Session] : Owned(own)
      BY DEF PatientInv, Apart
    <2>2. \A x \in Token : grace'[x] # None => own[grace'[x]] = own[x]
      BY <1>2, <1>3, <1>7, <2>1 DEF Owned
    <2>3. Owned(own)'
      BY <1>1, <1>4, <2>1, <2>2 DEF Owned
    <2> QED BY <2>3 DEF Apart
  <1>9. Presented'
    <2>1. ASSUME NEW q \in Request, req[q].pc \in {"used", "revoke"} PROVE req[q].tok # t
      <3> SUFFICES ASSUME req[q].tok = t PROVE FALSE
        OBVIOUS
      <3>1. req[q].dev = d
        BY <1>2, <1>3 DEF PatientInv, Apart, Owned
      <3>2. Asks(q, d) /\ Asks(r, d)
        BY <1>1, <2>1, <3>1 DEF Asks, At
      <3> QED BY <1>1, <1>2, <2>1, <3>2 DEF PatientInv, OneRequest
    <2>2. ASSUME NEW q \in Request, req'[q].pc \in {"used", "revoke"} PROVE grace'[req'[q].tok] = None
      <3>1. q # r /\ req'[q] = req[q]
        BY <1>5, <2>2
      <3>2. req[q].tok \in Token /\ req[q].tok # t /\ grace[req[q].tok] = None
        BY <1>2, <2>1, <2>2, <3>1 DEF ReqState, PatientInv, Presented, At
      <3> QED BY <1>7, <3>1, <3>2
    <2>3. \A q \in Request : At(q, "update")' => At(q, "update")
      BY <1>5 DEF At
    <2> QED BY <1>4, <1>6, <2>2, <2>3 DEF PatientInv, Presented
  <1>10. Followed'
    <2> SUFFICES ASSUME NEW s \in Session, active[s] # None
                 PROVE  /\ grace'[hand[s]] \in {None, active[s]}
                        /\ ~Noting(s)' => hand[s] = active[s] \/ hand[s] \in used'
                        /\ \A q \in Request : Asks(q, s)' =>
                             /\ req'[q].tok = hand[s]
                             /\ At(q, "update")' => hand[s] = active[s]
                             /\ req'[q].pc \in {"setGrace", "setUsed", "answer"} => req'[q].new = active[s]
                             /\ At(q, "answer")' => hand[s] \in used'
      BY <1>1 DEF Followed
    <2>1. hand[s] \in Token
      BY DEF PatientInv, IInv, TypeOK
    <2>2. Asks(r, s) => t = hand[s] /\ n = active[s]
      BY <1>1 DEF PatientInv, Followed
    <2>3. s = d => Asks(r, s)
      BY <1>1 DEF Asks, At
    <2>4. hand[s] = t => s = d
      BY <1>2, <1>3 DEF PatientInv, Apart, Owned
    <2>5. grace'[hand[s]] \in {None, active[s]}
      BY <1>7, <2>1, <2>2, <2>3, <2>4 DEF PatientInv, Followed
    <2>6. ~Noting(s)' => hand[s] = active[s] \/ hand[s] \in used'
      <3>1. CASE s # d
        <4>1. Noting(s) => Noting(s)'
          BY <1>4, <1>5, <3>1 DEF Noting, Asks, At
        <4> QED BY <1>1, <4>1 DEF PatientInv, Followed
      <3>2. CASE s = d /\ req[r].pc = "setGrace"
        <4>1. Asks(r, s)' /\ req'[r].pc = "setUsed"
          BY <1>4, <1>5, <3>2 DEF Asks, At
        <4> QED BY <4>1 DEF Noting
      <3>3. CASE s = d /\ req[r].pc = "setUsed"
        BY <1>1, <2>2, <2>3, <3>3
      <3> QED BY <1>1, <3>1, <3>2, <3>3
    <2>7. ASSUME NEW q \in Request, Asks(q, s)'
          PROVE  /\ req'[q].tok = hand[s]
                 /\ At(q, "update")' => hand[s] = active[s]
                 /\ req'[q].pc \in {"setGrace", "setUsed", "answer"} => req'[q].new = active[s]
                 /\ At(q, "answer")' => hand[s] \in used'
      <3>1. Asks(q, s)
        BY <1>4, <1>6, <2>7 DEF Asks
      <3>2. CASE q = r
        BY <1>1, <1>4, <1>5, <2>2, <3>1, <3>2 DEF At
      <3>3. CASE q # r
        BY <1>1, <1>5, <3>1, <3>3 DEF PatientInv, Followed, At
      <3> QED BY <3>2, <3>3
    <2> QED BY <2>5, <2>6, <2>7
  <1> QED BY <1>8, <1>9, <1>10 DEF PatientInv

\* A device asks with the token it holds.
LEMMA SendPatient ==
    ASSUME PatientInv, IInv', OneRequest', NEW r \in Request, NEW d \in Session, Send(r, d)
    PROVE  PatientInv'
  <1>1. /\ UNCHANGED <<active, grace, used, hand>> /\ At(r, "idle") /\ hand[d] # None
        /\ req' = [req EXCEPT ![r] = [pc |-> "select", dev |-> d, tok |-> hand[d], ses |-> d, new |-> None]]
    BY DEF Send
  <1>2. req \in [Request -> ReqState]
    BY DEF PatientInv, IInv, TypeOK, ReqState
  <1>3. /\ req'[r] = [pc |-> "select", dev |-> d, tok |-> hand[d], ses |-> d, new |-> None]
        /\ \A q \in Request : q # r => req'[q] = req[q]
    BY <1>1, <1>2
  <1>4. /\ req'[r].pc = "select" /\ req'[r].dev = d /\ req'[r].tok = hand[d] /\ req'[r].new = None
    BY <1>3
  <1>5. Apart'
    <2>1. PICK own \in [Token -> Session] : Owned(own)
      BY DEF PatientInv, Apart
    <2>2. Owned(own)'
      BY <1>1, <1>3, <1>4, <2>1 DEF Owned
    <2> QED BY <2>2 DEF Apart
  <1>6. Presented'
    BY <1>1, <1>3, <1>4 DEF PatientInv, Presented, At
  <1>7. \A q \in Request, s \in Session : q # r => (Asks(q, s)' <=> Asks(q, s))
    BY <1>3 DEF Asks, At
  <1>8. Followed'
    <2> SUFFICES ASSUME NEW s \in Session, active[s] # None
                 PROVE  /\ grace[hand[s]] \in {None, active[s]}
                        /\ ~Noting(s)' => hand[s] = active[s] \/ hand[s] \in used
                        /\ \A q \in Request : Asks(q, s)' =>
                             /\ req'[q].tok = hand[s]
                             /\ At(q, "update")' => hand[s] = active[s]
                             /\ req'[q].pc \in {"setGrace", "setUsed", "answer"} => req'[q].new = active[s]
                             /\ At(q, "answer")' => hand[s] \in used
      BY <1>1 DEF Followed
    <2>1. Noting(s) => Noting(s)'
      BY <1>1, <1>3, <1>7 DEF Noting, At
    <2>2. ASSUME NEW q \in Request, Asks(q, s)'
          PROVE  /\ req'[q].tok = hand[s]
                 /\ At(q, "update")' => hand[s] = active[s]
                 /\ req'[q].pc \in {"setGrace", "setUsed", "answer"} => req'[q].new = active[s]
                 /\ At(q, "answer")' => hand[s] \in used
      <3>1. CASE q = r
        BY <1>4, <2>2, <3>1 DEF Asks, At
      <3>2. CASE q # r
        BY <1>3, <1>7, <2>2, <3>2 DEF PatientInv, Followed, At
      <3> QED BY <3>1, <3>2
    <2> QED BY <2>1, <2>2 DEF PatientInv, Followed
  <1> QED BY <1>5, <1>6, <1>8 DEF PatientInv

\* A device signs in, with no request under way.
LEMMA ExchangePatient ==
    ASSUME PatientInv, IInv', OneRequest', NEW d \in Session, Exchange(d)
    PROVE  PatientInv'
  <1>1. /\ UNCHANGED <<grace, used, req>> /\ InFlight(d) = {} /\ next' = next + 1
        /\ active' = [active EXCEPT ![d] = next] /\ hand' = [hand EXCEPT ![d] = next]
    BY DEF Exchange
  <1>2. next \in Token /\ next # None /\ next \in Nat
    <2>1. next' \in 1 .. MaxToken + 1 /\ next \in 1 .. MaxToken + 1
      BY DEF PatientInv, IInv, TypeOK
    <2>2. next \in 1 .. MaxToken
      BY <1>1, <2>1, RefreshAssumption
    <2> QED BY <2>2, TokenFacts
  <1>3. /\ \A s \in Session : s # d => active'[s] = active[s] /\ hand'[s] = hand[s]
        /\ active'[d] = next /\ hand'[d] = next
    BY <1>1 DEF PatientInv, IInv, TypeOK
  <1>4. /\ \A s \in Session : active[s] # next /\ hand[s] # next
        /\ \A q \in Request : req[q].tok # next /\ req[q].new # next
        /\ \A x \in Token : grace[x] # next
        /\ grace[next] = None
    BY <1>2, TokenFacts DEF PatientInv, IInv, TypeOK, Issued
  <1>5. Apart'
    <2>1. PICK own \in [Token -> Session] : Owned(own)
      BY DEF PatientInv, Apart
    <2>a. /\ [own EXCEPT ![next] = d] \in [Token -> Session] /\ [own EXCEPT ![next] = d][next] = d
          /\ \A x \in Token : x # next => [own EXCEPT ![next] = d][x] = own[x]
      BY <1>2
    <2>2. PICK own2 \in [Token -> Session] :
            own2[next] = d /\ \A x \in Token : x # next => own2[x] = own[x]
      BY <2>a
    <2>3. \A s \in Session : /\ active'[s] # None => own2[active'[s]] = s
                             /\ hand'[s] # None => own2[hand'[s]] = s
      <3> SUFFICES ASSUME NEW s \in Session
                   PROVE  /\ active'[s] # None => own2[active'[s]] = s
                          /\ hand'[s] # None => own2[hand'[s]] = s
        OBVIOUS
      <3>1. active[s] \in Token /\ hand[s] \in Token
        BY DEF PatientInv, IInv, TypeOK
      <3>2. CASE s = d
        BY <1>3, <2>2, <3>2
      <3>3. CASE s # d
        BY <1>3, <1>4, <2>1, <2>2, <3>1, <3>3 DEF Owned
      <3> QED BY <3>2, <3>3
    <2>4. \A q \in Request : /\ req'[q].tok # None => own2[req'[q].tok] = req'[q].dev
                             /\ req'[q].new # None => own2[req'[q].new] = req'[q].dev
      <3>1. \A q \in Request : req[q].tok \in Token /\ req[q].new \in Token
        BY DEF PatientInv, IInv, TypeOK
      <3> QED BY <1>1, <1>4, <2>1, <2>2, <3>1 DEF Owned
    <2>5. \A x \in Token : grace'[x] # None => own2[grace'[x]] = own2[x]
      BY <1>1, <1>4, <2>1, <2>2 DEF Owned, PatientInv, IInv, TypeOK
    <2>6. Owned(own2)'
      BY <2>3, <2>4, <2>5 DEF Owned
    <2> QED BY <2>6 DEF Apart
  <1>6. Presented'
    BY <1>1 DEF PatientInv, Presented, At
  <1>7. /\ \A q \in Request : ~Asks(q, d)
        /\ \A q \in Request, s \in Session : Asks(q, s)' <=> Asks(q, s)
        /\ \A s \in Session : Noting(s)' <=> Noting(s)
    BY <1>1 DEF InFlight, Asks, At, Noting
  <1>8. Followed'
    <2> SUFFICES ASSUME NEW s \in Session, active'[s] # None
                 PROVE  /\ grace[hand'[s]] \in {None, active'[s]}
                        /\ ~Noting(s) => hand'[s] = active'[s] \/ hand'[s] \in used
                        /\ \A q \in Request : Asks(q, s) =>
                             /\ req[q].tok = hand'[s]
                             /\ At(q, "update") => hand'[s] = active'[s]
                             /\ req[q].pc \in {"setGrace", "setUsed", "answer"} => req[q].new = active'[s]
                             /\ At(q, "answer") => hand'[s] \in used
      BY <1>1, <1>7 DEF Followed, At
    <2>1. CASE s = d
      BY <1>3, <1>4, <1>7, <2>1
    <2>2. CASE s # d
      BY <1>3, <2>2 DEF PatientInv, Followed
    <2> QED BY <2>1, <2>2
  <1> QED BY <1>5, <1>6, <1>8 DEF PatientInv

\* A note or a session expires, or nothing happens.
LEMMA QuietPatient ==
    ASSUME PatientInv, IInv',
           \/ \E t \in Token : ExpireGrace(t)
           \/ \E s \in Session : ExpireRefresh(s)
           \/ UNCHANGED vars
    PROVE  PatientInv'
  <1>1. /\ UNCHANGED <<active, used, hand, req>>
        /\ \A x \in Token : grace'[x] \in {grace[x], None}
    BY DEF ExpireGrace, ExpireRefresh, vars, PatientInv, IInv, TypeOK
  <1>2. Apart'
    <2>1. PICK own \in [Token -> Session] : Owned(own)
      BY DEF PatientInv, Apart
    <2>2. Owned(own)'
      BY <1>1, <2>1 DEF Owned
    <2> QED BY <2>2 DEF Apart
  <1>3. Presented'
    <2>1. \A q \in Request : req[q].tok \in Token
      BY DEF PatientInv, IInv, TypeOK
    <2> QED BY <1>1, <2>1 DEF PatientInv, Presented, At
  <1>4. Followed' /\ OneRequest'
    <2>1. \A s \in Session : hand[s] \in Token
      BY DEF PatientInv, IInv, TypeOK
    <2>2. Followed'
      BY <1>1, <2>1 DEF PatientInv, Followed, Noting, Asks, At
    <2>3. OneRequest'
      BY <1>1 DEF PatientInv, OneRequest, Asks, At
    <2> QED BY <2>2, <2>3
  <1> QED BY <1>2, <1>3, <1>4 DEF PatientInv

\* What the patient mode demands of a step: one request at a time, and no failure.
LEMMA PatientStep ==
    ASSUME Patient, mode = "patient"
    PROVE  OneRequest' /\ faults' = 0
  <1>1. ASSUME NEW s \in Session, NEW r \in Request, NEW q \in Request, Asks(r, s)', Asks(q, s)', r # q
        PROVE  FALSE
    <2> DEFINE S == {x \in Request : req'[x].pc # "idle" /\ req'[x].dev = s}
    <2>1. IsFiniteSet(S) /\ Cardinality(S) <= 1
      <3>1. S \in SUBSET Request
        OBVIOUS
      <3> QED BY <3>1, FS_Subset, RefreshAssumption DEF Patient
    <2>2. {r, q} \subseteq S
      BY <1>1 DEF Asks, At
    <2> HIDE DEF S
    <2>3. Cardinality({r, q}) <= Cardinality(S)
      BY <2>1, <2>2, FS_Subset
    <2>4. Cardinality({r, q}) = 2
      <3>1. IsFiniteSet({r}) /\ Cardinality({r}) = 1
        BY FS_Singleton
      <3>2. q \notin {r} /\ {r, q} = {r} \cup {q}
        BY <1>1
      <3>3. Cardinality({r} \cup {q}) = Cardinality({r}) + 1
        BY <3>1, <3>2, FS_AddElement
      <3> QED BY <3>1, <3>2, <3>3
    <2>5. Cardinality(S) \in Nat
      BY <2>1, FS_CardinalityType
    <2> QED BY <2>1, <2>3, <2>4, <2>5
  <1> QED BY <1>1 DEF Patient, OneRequest

LEMMA PatientNext ==
    ASSUME PatientInv, mode = "patient", [MCNext]_<<vars, mode>>
    PROVE  PatientInv'
  <1>1. IInv'
    BY NextIInv DEF MCNext, PatientInv, vars
  <1>2. CASE UNCHANGED vars
    BY <1>1, <1>2, QuietPatient
  <1>3. CASE MCNext
    <2>1. OneRequest' /\ faults' = 0 /\ Next
      BY <1>3, PatientStep DEF MCNext
    <2>2. \A r \in Request : ~Fail(r)
      BY <2>1, RefreshAssumption DEF Fail, PatientInv, IInv, TypeOK
    <2> QED BY <1>1, <2>1, <2>2, ExchangePatient, SendPatient, LookupPatient, RevokePatient, UpdatePatient,
               NotePatient, EndPatient, QuietPatient DEF Next, Handle
  <1> QED BY <1>2, <1>3 DEF vars

LEMMA PatientInit == MCInit => PatientInv
  <1> SUFFICES ASSUME MCInit PROVE PatientInv
    OBVIOUS
  <1>1. Init /\ IInv
    BY InitIInv DEF MCInit
  <1>2. OneRequest /\ Presented
    BY <1>1 DEF Init, NoReq, OneRequest, Presented, Asks, At
  <1>3. Apart
    <2>1. PICK s \in Session : TRUE
      BY RefreshAssumption
    <2>2. [t \in Token |-> s] \in [Token -> Session]
      OBVIOUS
    <2>3. Owned([t \in Token |-> s])
      BY <1>1 DEF Init, NoReq, Owned
    <2> QED BY <2>2, <2>3 DEF Apart
  <1>4. Followed
    BY <1>1 DEF Init, Followed
  <1> QED BY <1>1, <1>2, <1>3, <1>4 DEF PatientInv

LEMMA PatientInductive == MCSpec => [](mode = "patient" => PatientInv)
  <1>1. MCInit => (mode = "patient" => PatientInv)
    BY PatientInit
  <1>2. (mode = "patient" => PatientInv) /\ [MCNext]_<<vars, mode>> => (mode = "patient" => PatientInv)'
    BY PatientNext DEF MCNext
  <1> QED BY <1>1, <1>2, PTL DEF MCSpec

\* A device that waits for its answer before it asks again is never stranded by a
\* lost answer of refreshSession: the token it still holds is the active one, or can
\* be exchanged for it, or is recognised as rotated away.
THEOREM PatientIsNeverStranded == MCSpec => []HandUsablePatiently
  <1>1. (mode = "patient" => PatientInv) => HandUsablePatiently
    <2> SUFFICES ASSUME PatientInv, NEW s \in Session, active[s] # None, InFlight(s) = {}
                 PROVE  hand[s] = active[s] \/ hand[s] \in used
      BY DEF HandUsablePatiently, HandUsable
    <2>1. ~Noting(s)
      BY DEF Noting, Asks, InFlight, At
    <2> QED BY <2>1 DEF PatientInv, Followed
  <1> QED BY <1>1, PatientInductive, PTL

\* ... nor is its retry ever taken for the reuse of a stolen token.
THEOREM PatientRetryIsSafe == MCSpec => PatientRetryIsNotReuse
  <1>1. (mode = "patient" => PatientInv) =>
          [mode = "patient" => \A r \in Request : At(r, "revoke") /\ req'[r].pc = "reject"
             => grace[req[r].tok] = None]_<<vars, mode>>
    BY DEF PatientInv, Presented, At
  <1> QED BY <1>1, PatientInductive, PTL DEF PatientRetryIsNotReuse
=============================================================================
