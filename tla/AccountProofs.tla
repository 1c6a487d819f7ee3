---------------------------- MODULE AccountProofs ----------------------------
(***************************************************************************)
(* The users, their devices and their credentials, for any number of each. *)
(*                                                                         *)
(* Requests of one user of Supabase find one account, and requests of      *)
(* different users different accounts, as long as e-mails are not reused;  *)
(* a link code links at most one device, and a device that still has the   *)
(* app is never pruned; and whoever presents a credential is judged by     *)
(* what the tables said within the lifetime of its entry.                  *)
(***************************************************************************)
EXTENDS UserAccounts, PushDevices, Credentials, TLAPS

-----------------------------------------------------------------------------
(* Accounts. *)

UserRow     == [email : Email, sub : Sub \cup {NoSub}, role : {"user", "admin"}]
LoginState == [pc : {"idle", "upsert", "reselect", "done"}, sub : Sub \cup {NoSub},
            email : Email \cup {NoLogin.email}, user : Nat]

UserShapes ==
    /\ users \in Seq(UserRow)
    /\ mailOf \in [Sub -> Email] /\ past \in [Sub -> SUBSET Email]
    /\ login \in [Login -> LoginState]
    /\ first \in SUBSET Email /\ mailChanges \in 0 .. MaxMailChanges

\* The two unique constraints of the table.
UniqueEmails == \A i, j \in AccountId : users[i].email = users[j].email => i = j
UniqueSubs   == \A i, j \in AccountId :
                  users[i].sub = users[j].sub /\ users[i].sub # NoSub => i = j

\* The token of a request under way carries an e-mail its sub has had, and what
\* was upserted is there.
OwnMail ==
    \A r \in Login :
      /\ login[r].pc # "idle" => login[r].sub \in Sub /\ login[r].email \in past[login[r].sub]
      /\ login[r].pc = "reselect" => ByEmail(login[r].email) # {}

\* The account of a sub has an e-mail of that sub ...
AccountHasOwnMail ==
    \A i \in AccountId : users[i].sub # NoSub => users[i].email \in past[users[i].sub]

\* ... and what a request has found, or upserted, is the account of its sub.
FoundOwn ==
    \A r \in Login :
      /\ login[r].pc = "done" => login[r].user \in AccountId /\ users[login[r].user].sub = login[r].sub
      /\ login[r].pc = "reselect" =>
           \A i \in ByEmail(login[r].email) : users[i].sub = login[r].sub

UserInv ==
    /\ UserShapes /\ UniqueEmails /\ UniqueSubs /\ OwnMail
    /\ AccountHasOwnMail
    /\ MailsNeverReused => FoundOwn

LEMMA InitUserInv == UserInit => UserInv
  <1> SUFFICES ASSUME UserInit PROVE UserInv
    OBVIOUS
  <1>1. UserShapes
    BY UserAssumption DEF UserInit, UserShapes, UserRow, LoginState, NoLogin
  <1>2. AccountId = {}
    BY DEF UserInit, AccountId
  <1>3. \A r \in Login : login[r].pc = "idle"
    BY DEF UserInit, NoLogin
  <1> QED BY <1>1, <1>2, <1>3
       DEF UserInv, UniqueEmails, UniqueSubs, OwnMail, AccountHasOwnMail, FoundOwn

\* A row has the e-mail e and the sub s after the step; the others are as before
\* and have neither.
Placed(k, e, s) ==
    /\ users' \in Seq(UserRow) /\ AccountId \subseteq AccountId'
    /\ k \in AccountId' /\ users'[k].email = e /\ users'[k].sub = s
    /\ k \in AccountId => users[k].email = e
    /\ \A i \in AccountId' : i # k =>
         /\ i \in AccountId /\ users'[i] = users[i]
         /\ users[i].email # e /\ (s # NoSub => users[i].sub # s)

LEMMA AppendPlaces ==
    ASSUME UserInv, NEW row \in UserRow, users' = Append(users, row),
           ByEmail(row.email) = {}, row.sub # NoSub => BySub(row.sub) = {}
    PROVE  Placed(Len(users) + 1, row.email, row.sub) /\ Len(users) + 1 \notin AccountId
  <1>1. users \in Seq(UserRow) /\ Len(users) \in Nat
    BY DEF UserInv, UserShapes
  <1>2. /\ users' \in Seq(UserRow) /\ Len(users') = Len(users) + 1
        /\ users'[Len(users) + 1] = row
        /\ \A i \in 1 .. Len(users) : users'[i] = users[i]
    BY <1>1
  <1>3. \A i \in AccountId' : i # Len(users) + 1 => i \in AccountId
    BY <1>1, <1>2 DEF AccountId
  <1>4. Len(users) + 1 \in AccountId' /\ Len(users) + 1 \notin AccountId /\ AccountId \subseteq AccountId'
    BY <1>1, <1>2 DEF AccountId
  <1>5. \A i \in AccountId : users[i].email # row.email /\ (row.sub # NoSub => users[i].sub # row.sub)
    BY DEF ByEmail, BySub
  <1> QED BY <1>2, <1>3, <1>4, <1>5 DEF Placed, AccountId

LEMMA UpsertPlaces ==
    ASSUME UserInv, NEW r \in Login, NEW given \in {"user", "admin"}, Upsert(r, given)
    PROVE  \E k : Placed(k, login[r].email, login[r].sub)
  <1> DEFINE s == login[r].sub
             e == login[r].email
  <1>1. s \in Sub /\ s # NoSub /\ e \in Email
    BY UserAssumption DEF UserInv, OwnMail, UserShapes, Upsert
  <1>2. BySub(s) \subseteq ByEmail(e)
    BY DEF Upsert
  <1>3. CASE ByEmail(e) = {}
    <2> DEFINE row == [email |-> e, sub |-> s, role |-> given]
    <2>1. users' = Append(users, row) /\ row \in UserRow /\ row.email = e /\ row.sub = s
      BY <1>1, <1>3 DEF Upsert, UserRow
    <2>2. BySub(s) = {}
      BY <1>2, <1>3
    <2> HIDE DEF row, s, e
    <2>3. Placed(Len(users) + 1, row.email, row.sub)
      BY <1>3, <2>1, <2>2, AppendPlaces
    <2>4. Placed(Len(users) + 1, e, s)
      BY <2>1, <2>3
    <2> QED BY <2>4 DEF e, s
  <1>4. CASE ByEmail(e) # {}
    <2>1. PICK k \in AccountId : users[k].email = e
      BY <1>4 DEF ByEmail
    <2>2. ByEmail(e) = {k}
      BY <2>1 DEF UserInv, UniqueEmails, ByEmail
    <2>3. users' = [i \in AccountId |-> IF i \notin ByEmail(e) THEN users[i]
                      ELSE [users[i] EXCEPT !.sub = s, !.role = IF @ = "admin" THEN @ ELSE given]]
      BY <1>4 DEF Upsert
    <2> HIDE DEF s, e
    <2>4. \A i \in AccountId : users[i] \in UserRow
      BY DEF UserInv, UserShapes, AccountId
    <2>5. \A i \in AccountId : users'[i] = IF i # k THEN users[i]
            ELSE [users[i] EXCEPT !.sub = s, !.role = IF @ = "admin" THEN @ ELSE given]
      BY <2>2, <2>3
    <2>6. users'[k] \in UserRow /\ users'[k].email = e /\ users'[k].sub = s
      BY <1>1, <2>1, <2>4, <2>5, ZenonT(60) DEF UserRow
    <2>7. users' \in Seq(UserRow) /\ AccountId' = AccountId
      <3>1. Len(users) \in Nat
        BY DEF UserInv, UserShapes
      <3>2. users' \in [1 .. Len(users) -> UserRow]
        BY <2>3, <2>4, <2>5, <2>6 DEF AccountId
      <3>3. users' \in Seq(UserRow) /\ Len(users') = Len(users)
        BY <3>1, <3>2
      <3> QED BY <3>3 DEF AccountId
    <2>8. \A i \in AccountId : i # k => users[i].email # e /\ users[i].sub # s
      BY <1>2, <2>2 DEF ByEmail, BySub
    <2>9. Placed(k, e, s)
      BY <2>1, <2>5, <2>6, <2>7, <2>8 DEF Placed
    <2> QED BY <2>9 DEF e, s
  <1> QED BY <1>3, <1>4

\* What a placed row keeps true.
LEMMA PlacedKeeps ==
    ASSUME UserInv, NEW k, NEW e, NEW s, Placed(k, e, s), past' = past,
           s = NoSub \/ (s \in Sub /\ e \in past[s])
    PROVE  UniqueEmails' /\ UniqueSubs' /\ AccountHasOwnMail'
  <1>1. UniqueEmails'
    BY DEF Placed, UserInv, UniqueEmails
  <1>2. UniqueSubs'
    BY DEF Placed, UserInv, UniqueSubs
  <1>3. AccountHasOwnMail'
    BY DEF Placed, UserInv, AccountHasOwnMail
  <1> QED BY <1>1, <1>2, <1>3

\* As long as no e-mail was reused, it leaves the accounts found where they are.
LEMMA PlacedLeavesFound ==
    ASSUME UserInv, NEW k, NEW e, NEW s, Placed(k, e, s), MailsNeverReused,
           k \notin AccountId \/ (s \in Sub /\ e \in past[s]),
           NEW i \in AccountId, users[i].sub \in Sub
    PROVE  i \in AccountId' /\ users'[i].sub = users[i].sub
  <1>1. i \in AccountId'
    BY DEF Placed
  <1>2. CASE i # k
    BY <1>1, <1>2 DEF Placed
  <1>3. CASE i = k
    <2>1. users[i].email = e /\ users'[i].sub = s /\ s \in Sub /\ e \in past[s]
      BY <1>3 DEF Placed
    <2>2. users[i].email \in past[users[i].sub]
      BY UserAssumption DEF UserInv, AccountHasOwnMail
    <2>3. users[i].sub = s
      BY <2>1, <2>2 DEF MailsNeverReused
    <2> QED BY <1>1, <2>1, <2>3
  <1> QED BY <1>2, <1>3

\* ... and the answers and upserts of the other requests stay right.
LEMMA PlacedKeepsFound ==
    ASSUME UserInv, NEW k, NEW e, NEW s, Placed(k, e, s), MailsNeverReused,
           \/ k \notin AccountId /\ ByEmail(e) = {}
           \/ s \in Sub /\ e \in past[s],
           NEW q \in Login, login'[q] = login[q]
    PROVE  /\ login'[q].pc = "done" => /\ login'[q].user \in AccountId'
                                      /\ users'[login'[q].user].sub = login'[q].sub
           /\ login'[q].pc = "reselect" =>
                \A i \in AccountId' : users'[i].email = login'[q].email => users'[i].sub = login'[q].sub
  <1>1. CASE login[q].pc = "done"
    <2>1. login[q].user \in AccountId /\ users[login[q].user].sub \in Sub
            /\ users[login[q].user].sub = login[q].sub
      BY <1>1 DEF UserInv, FoundOwn, OwnMail
    <2>2. k \notin AccountId \/ (s \in Sub /\ e \in past[s])
      OBVIOUS
    <2>3. login[q].user \in AccountId' /\ users'[login[q].user].sub = users[login[q].user].sub
      BY <2>1, <2>2, PlacedLeavesFound
    <2> QED BY <1>1, <2>1, <2>3
  <1>2. CASE login[q].pc = "reselect"
    <2>1. /\ login[q].sub \in Sub /\ login[q].email \in past[login[q].sub]
          /\ ByEmail(login[q].email) # {}
          /\ \A i \in ByEmail(login[q].email) : users[i].sub = login[q].sub
      BY <1>2 DEF UserInv, FoundOwn, OwnMail
    <2> SUFFICES ASSUME NEW i \in AccountId', users'[i].email = login[q].email
                 PROVE  users'[i].sub = login[q].sub
      BY <1>2
    <2>2. CASE i # k
      <3>1. i \in AccountId /\ users'[i] = users[i]
        BY <2>2 DEF Placed
      <3> QED BY <2>1, <3>1 DEF ByEmail
    <2>3. CASE i = k
      <3>1. e = login[q].email /\ users'[i].sub = s
        BY <2>3 DEF Placed
      <3>2. s \in Sub /\ e \in past[s]
        BY <2>1, <3>1
      <3> QED BY <2>1, <3>1, <3>2 DEF MailsNeverReused
    <2> QED BY <2>2, <2>3
  <1> QED BY <1>1, <1>2

LEMMA UpsertPreserves ==
    ASSUME UserInv, NEW r \in Login, NEW given \in {"user", "admin"}, Upsert(r, given)
    PROVE  UserInv'
  <1> DEFINE s == login[r].sub
             e == login[r].email
  <1>1. s \in Sub /\ e \in past[s]
    BY DEF UserInv, OwnMail, Upsert
  <1>2. PICK k : Placed(k, e, s)
    BY UpsertPlaces
  <1>3. /\ login' = [login EXCEPT ![r].pc = "reselect"]
        /\ UNCHANGED <<mailOf, past, first, mailChanges>>
    BY DEF Upsert
  <1>4. /\ login'[r].pc = "reselect" /\ login'[r].email = e /\ login'[r].sub = s
        /\ login' \in [Login -> LoginState]
        /\ \A q \in Login : q # r => login'[q] = login[q]
    BY <1>3 DEF UserInv, UserShapes, LoginState
  <1> HIDE DEF s, e
  <1>5. UserShapes'
    BY <1>2, <1>3, <1>4 DEF UserInv, UserShapes, Placed
  <1>6. UniqueEmails' /\ UniqueSubs' /\ AccountHasOwnMail'
    BY <1>1, <1>2, <1>3, PlacedKeeps
  <1>7. OwnMail'
    <2>1. k \in AccountId' /\ users'[k].email = e
      BY <1>2 DEF Placed
    <2>2. ByEmail(login[r].email)' # {}
      BY <1>4, <2>1 DEF ByEmail
    <2>3. \A q \in Login : q # r /\ login[q].pc = "reselect" => ByEmail(login[q].email)' # {}
      <3> SUFFICES ASSUME NEW q \in Login, q # r, login[q].pc = "reselect"
                   PROVE  ByEmail(login[q].email)' # {}
        OBVIOUS
      <3>1. PICK i \in AccountId : users[i].email = login[q].email
        BY DEF UserInv, OwnMail, ByEmail
      <3>2. i \in AccountId' /\ users'[i].email = users[i].email
        BY <1>2, <3>1 DEF Placed
      <3> QED BY <1>4, <3>1, <3>2 DEF ByEmail
    <2> QED BY <1>1, <1>3, <1>4, <2>2, <2>3 DEF UserInv, OwnMail
  <1>8. MailsNeverReused' => FoundOwn'
    <2> SUFFICES ASSUME MailsNeverReused' PROVE FoundOwn'
      OBVIOUS
    <2>1. MailsNeverReused
      BY <1>3 DEF MailsNeverReused
    <2>2. \A q \in Login : q # r =>
            /\ login'[q].pc = "done" => /\ login'[q].user \in AccountId'
                                       /\ users'[login'[q].user].sub = login'[q].sub
            /\ login'[q].pc = "reselect" =>
                 \A i \in AccountId' : users'[i].email = login'[q].email => users'[i].sub = login'[q].sub
      BY <1>1, <1>2, <1>4, <2>1, PlacedKeepsFound
    <2>3. \A i \in AccountId' : users'[i].email = e => users'[i].sub = s
      BY <1>2 DEF Placed
    <2> QED BY <1>4, <2>2, <2>3 DEF FoundOwn, ByEmail
  <1> QED BY <1>5, <1>6, <1>7, <1>8 DEF UserInv

LEMMA SignUpPreserves ==
    ASSUME UserInv, NEW e \in Email, SignUp(e)
    PROVE  UserInv'
  <1> DEFINE row == [email |-> e, sub |-> NoSub, role |-> IF e \in first THEN "admin" ELSE "user"]
             k   == Len(users) + 1
  <1>1. row \in UserRow /\ row.email = e /\ row.sub = NoSub
    BY DEF UserRow
  <1>2. users' = Append(users, row) /\ ByEmail(e) = {} /\ UNCHANGED <<mailOf, past, login>>
    BY DEF SignUp
  <1> HIDE DEF row
  <1>3. Placed(k, e, NoSub) /\ k \notin AccountId
    BY <1>1, <1>2, AppendPlaces
  <1> HIDE DEF k
  <1>4. UserShapes'
    <2>1. first' \in SUBSET Email /\ mailChanges' \in 0 .. MaxMailChanges
      BY UserAssumption DEF UserInv, UserShapes, SignUp
    <2> QED BY <1>2, <1>3, <2>1 DEF UserInv, UserShapes, Placed
  <1>5. UniqueEmails' /\ UniqueSubs' /\ AccountHasOwnMail'
    BY <1>2, <1>3, PlacedKeeps
  <1>6. OwnMail'
    <2>1. \A q \in Login : login[q].pc = "reselect" => ByEmail(login[q].email)' # {}
      <3> SUFFICES ASSUME NEW q \in Login, login[q].pc = "reselect"
                   PROVE  ByEmail(login[q].email)' # {}
        OBVIOUS
      <3>1. PICK i \in AccountId : users[i].email = login[q].email
        BY DEF UserInv, OwnMail, ByEmail
      <3>2. i \in AccountId' /\ users'[i].email = users[i].email
        BY <1>3, <3>1 DEF Placed
      <3> QED BY <1>2, <3>1, <3>2 DEF ByEmail
    <2> QED BY <1>2, <2>1 DEF UserInv, OwnMail
  <1>7. MailsNeverReused' => FoundOwn'
    <2> SUFFICES ASSUME MailsNeverReused' PROVE FoundOwn'
      OBVIOUS
    <2>1. MailsNeverReused
      BY <1>2 DEF MailsNeverReused
    <2>2. \A q \in Login :
            /\ login'[q].pc = "done" => /\ login'[q].user \in AccountId'
                                       /\ users'[login'[q].user].sub = login'[q].sub
            /\ login'[q].pc = "reselect" =>
                 \A i \in AccountId' : users'[i].email = login'[q].email => users'[i].sub = login'[q].sub
      BY <1>2, <1>3, <2>1, PlacedKeepsFound
    <2> QED BY <2>2 DEF FoundOwn, ByEmail
  <1> QED BY <1>4, <1>5, <1>6, <1>7 DEF UserInv

\* A request looks for its account, finds what it upserted, or ends.
LEMMA RequestPreserves ==
    ASSUME UserInv, NEW r \in Login,
           \/ \E s \in Sub, e \in Email : SelectBySub(r, s, e)
           \/ Reselect(r) \/ LoginFails(r) \/ LoginEnds(r)
    PROVE  UserInv'
  <1>1. UNCHANGED <<users, mailOf, past, first, mailChanges>>
    BY DEF SelectBySub, Reselect, LoginFails, LoginEnds
  <1>2. /\ UniqueEmails' /\ UniqueSubs' /\ AccountHasOwnMail'
        /\ AccountId' = AccountId /\ MailsNeverReused' = MailsNeverReused
    BY <1>1 DEF UserInv, UniqueEmails, UniqueSubs, AccountHasOwnMail, AccountId, MailsNeverReused
  <1>3. /\ \A q \in Login : q # r => login'[q] = login[q]
        /\ login'[r] \in LoginState
        /\ login' \in [Login -> LoginState]
        /\ login'[r].pc # "reselect"
        /\ login'[r].pc # "idle" => login'[r].sub \in Sub /\ login'[r].email \in past[login'[r].sub]
        /\ login'[r].pc = "done" /\ MailsNeverReused =>
             login'[r].user \in AccountId /\ users[login'[r].user].sub = login'[r].sub
    <2>1. CASE \E s \in Sub, e \in Email : SelectBySub(r, s, e)
      <3>1. PICK s \in Sub, e \in Email : SelectBySub(r, s, e)
        BY <2>1
      <3>2. CASE BySub(s) # {}
        <4> DEFINE i == CHOOSE j \in BySub(s) : TRUE
        <4>1. i \in AccountId /\ users[i].sub = s /\ i \in Nat
          BY <3>2 DEF BySub, AccountId
        <4>2. login' = [login EXCEPT ![r] = [pc |-> "done", sub |-> s, email |-> e, user |-> i]]
                /\ e \in past[s]
          BY <3>1, <3>2 DEF SelectBySub
        <4> HIDE DEF i
        <4> QED BY <4>1, <4>2 DEF UserInv, UserShapes, LoginState
      <3>3. CASE BySub(s) = {}
        <4>1. login' = [login EXCEPT ![r] = [NoLogin EXCEPT !.pc = "upsert", !.sub = s, !.email = e]]
                /\ e \in past[s]
          BY <3>1, <3>3 DEF SelectBySub
        <4>2. NoLogin \in LoginState
          BY DEF NoLogin, LoginState
        <4>3. s \in Sub /\ e \in Email
          BY <3>1
        <4>4. /\ login'[r].pc = "upsert" /\ login'[r].sub = s /\ login'[r].email = e
              /\ login'[r] \in LoginState /\ login' \in [Login -> LoginState]
              /\ \A q \in Login : q # r => login'[q] = login[q]
          BY <4>1, <4>2, <4>3 DEF UserInv, UserShapes, LoginState
        <4> QED BY <4>1, <4>3, <4>4
      <3> QED BY <3>2, <3>3
    <2>2. CASE Reselect(r)
      <3> DEFINE i == CHOOSE j \in ByEmail(login[r].email) : TRUE
      <3>1. i \in ByEmail(login[r].email) /\ i \in AccountId /\ i \in Nat
        BY <2>2 DEF Reselect, ByEmail, AccountId
      <3>2. login' = [login EXCEPT ![r].pc = "done", ![r].user = i] /\ login[r].pc = "reselect"
        BY <2>2 DEF Reselect
      <3>3. /\ login[r].sub \in Sub /\ login[r].email \in past[login[r].sub]
            /\ MailsNeverReused => users[i].sub = login[r].sub
        BY <3>1, <3>2 DEF UserInv, OwnMail, FoundOwn
      <3> HIDE DEF i
      <3>4. /\ login'[r].pc = "done" /\ login'[r].user = i
            /\ login'[r].sub = login[r].sub /\ login'[r].email = login[r].email
            /\ login'[r] \in LoginState /\ login' \in [Login -> LoginState]
            /\ \A q \in Login : q # r => login'[q] = login[q]
        BY <3>1, <3>2 DEF UserInv, UserShapes, LoginState
      <3> QED BY <3>1, <3>3, <3>4
    <2>3. CASE LoginFails(r) \/ LoginEnds(r)
      <3>1. NoLogin \in LoginState /\ NoLogin.pc = "idle"
        BY DEF NoLogin, LoginState
      <3> QED BY <2>3, <3>1 DEF UserInv, UserShapes, LoginFails, LoginEnds
    <2> QED BY <2>1, <2>2, <2>3
  <1>4. UserShapes'
    BY <1>1, <1>3 DEF UserInv, UserShapes
  <1>5. \A e : ByEmail(e)' = ByEmail(e)
    BY <1>1, <1>2 DEF ByEmail
  <1>6. OwnMail'
    BY <1>1, <1>3, <1>5 DEF UserInv, OwnMail, ByEmail, AccountId
  <1>7. MailsNeverReused' => FoundOwn'
    BY <1>1, <1>2, <1>3, <1>5 DEF UserInv, FoundOwn, ByEmail, AccountId
  <1> QED BY <1>2, <1>4, <1>6, <1>7 DEF UserInv

\* E-mails change at Supabase, and a sign-up counts the accounts.
LEMMA OutsidePreserves ==
    ASSUME UserInv, \/ \E s \in Sub, e \in Email : ChangeMail(s, e)
                    \/ \E e \in Email : CountUsers(e)
    PROVE  UserInv'
  <1>1. UNCHANGED <<users, login>> /\ AccountId' = AccountId
    BY DEF ChangeMail, CountUsers, AccountId
  <1>2. \A s \in Sub : past[s] \subseteq past'[s]
    BY DEF ChangeMail, CountUsers, UserInv, UserShapes
  <1>3. UserShapes'
    BY <1>1, UserAssumption DEF UserInv, UserShapes, ChangeMail, CountUsers
  <1>4. UniqueEmails' /\ UniqueSubs'
    BY <1>1 DEF UserInv, UniqueEmails, UniqueSubs
  <1>5. OwnMail'
    BY <1>1, <1>2 DEF UserInv, OwnMail, ByEmail
  <1>6. AccountHasOwnMail'
    <2>1. \A i \in AccountId : users[i] \in UserRow
      BY DEF UserInv, UserShapes, AccountId
    <2> SUFFICES ASSUME NEW i \in AccountId, users[i].sub # NoSub
                 PROVE  users[i].email \in past'[users[i].sub]
      BY <1>1 DEF AccountHasOwnMail
    <2>2. users[i].email \in past[users[i].sub] /\ users[i].sub \in Sub
      BY <2>1 DEF UserInv, AccountHasOwnMail, UserRow
    <2> QED BY <1>2, <2>2
  <1>7. MailsNeverReused' => MailsNeverReused
    BY <1>2 DEF MailsNeverReused
  <1>8. FoundOwn => FoundOwn'
    BY <1>1 DEF FoundOwn, ByEmail
  <1> QED BY <1>3, <1>4, <1>5, <1>6, <1>7, <1>8 DEF UserInv

LEMMA NextUserInv == UserInv /\ [UserNext]_userVars => UserInv'
  <1> SUFFICES ASSUME UserInv, [UserNext]_userVars PROVE UserInv'
    OBVIOUS
  <1>1. CASE UNCHANGED userVars
    BY <1>1 DEF userVars, UserInv, UserShapes, UniqueEmails, UniqueSubs, OwnMail, AccountHasOwnMail,
                FoundOwn, MailsNeverReused, AccountId, ByEmail
  <1>2. CASE UserNext
    BY <1>2, RequestPreserves, UpsertPreserves, OutsidePreserves, SignUpPreserves DEF UserNext
  <1> QED BY <1>1, <1>2

LEMMA UserInductive == UserSpec => []UserInv
  BY InitUserInv, NextUserInv, PTL DEF UserSpec

\* Every state is well typed.
THEOREM UserTypeCorrect == UserSpec => []UserTypeOK
  <1>1. UserInv => UserTypeOK
    <2> SUFFICES ASSUME UserInv PROVE UserTypeOK
      OBVIOUS
    <2>1. \A i \in AccountId : users[i] \in UserRow
      BY DEF UserInv, UserShapes, AccountId
    <2> QED BY <2>1 DEF UserInv, UserShapes, UserTypeOK, UserRow, LoginState
  <1> QED BY <1>1, UserInductive, PTL

\* No e-mail and no sub ever stands in two rows of the table, however requests
\* and sign-ups interleave: an upsert takes over the row of its e-mail, and one
\* whose sub stands in another row fails.
THEOREM RowsUnique == UserSpec => [](UniqueEmails /\ UniqueSubs)
  <1>1. UserInv => UniqueEmails /\ UniqueSubs
    BY DEF UserInv
  <1> QED BY <1>1, UserInductive, PTL

\* Two requests find the same account exactly if they are of the same user, as
\* long as e-mails are not reused (resolveOrCreateUser).
THEOREM OneAccountForEach == UserSpec => []OneAccountEach
  <1>1. UserInv => OneAccountEach
    BY UserAssumption DEF UserInv, OneAccountEach, FoundOwn, UniqueSubs, OwnMail
  <1> QED BY <1>1, UserInductive, PTL

-----------------------------------------------------------------------------
(* Devices and link codes. *)

Claimed(r) == redeem[r].pc = "claimed"

\* The codes and owners, and the shapes of the two records.
PushShapes ==
    /\ account \in SUBSET User /\ alive \in SUBSET Token
    /\ owner \in [Token -> User \cup {NoUser}]
    /\ code \in [Code -> User \cup {NoUser}] /\ issued \in [Code -> User \cup {NoUser}]
    /\ redeem \in [Redeemer -> [pc : {"idle", "claimed"}, code : Code \cup {NoRedeem.code},
                                token : Token \cup {NoRedeem.token}, user : User \cup {NoUser}]]
    /\ send.pc \in {"idle", "selected", "prune"} /\ send.dead \in SUBSET Token
    /\ \A i \in DOMAIN send.tokens : send.tokens[i] \in Token
    /\ send = [pc |-> send.pc, tokens |-> send.tokens, dead |-> send.dead]
    /\ linked \in [Code -> Nat] /\ pushFaults \in 0 .. MaxPushFaults

\* A code that was not made yet, or can still be claimed, has linked nothing.
Unused ==
    \A c \in Code :
      /\ issued[c] = NoUser => code[c] = NoUser
      /\ issued[c] = NoUser \/ code[c] # NoUser => linked[c] = 0

\* A claimed code is gone, has linked nothing yet and belongs to one redemption.
OneClaim ==
    \A r \in Redeemer : Claimed(r) =>
      LET c == redeem[r].code
      IN  /\ c \in Code /\ redeem[r].token \in Token /\ redeem[r].user \in User
          /\ issued[c] # NoUser /\ code[c] = NoUser /\ linked[c] = 0
          /\ \A q \in Redeemer : Claimed(q) /\ redeem[q].code = c => q = r

\* What a send found dead is dead.
OnlyDead == send.dead \cap alive = {}

PushInv == PushShapes /\ Unused /\ OneClaim /\ CodeLinksOnce /\ OnlyDead

LEMMA InitPushInv == PushInit => PushInv
  <1> SUFFICES ASSUME PushInit PROVE PushInv
    OBVIOUS
  <1>1. PushShapes
    BY PushAssumption DEF PushInit, PushShapes, NoRedeem, NoSend
  <1>2. Unused /\ OneClaim /\ CodeLinksOnce /\ OnlyDead
    BY DEF PushInit, NoRedeem, NoSend, Unused, OneClaim, Claimed, CodeLinksOnce, OnlyDead
  <1> QED BY <1>1, <1>2 DEF PushInv

\* A step that leaves codes and redemptions alone.
LEMMA PairingKept ==
    ASSUME PushInv, UNCHANGED <<code, issued, redeem, linked>>
    PROVE  Unused' /\ OneClaim' /\ CodeLinksOnce'
  BY DEF PushInv, Unused, OneClaim, Claimed, CodeLinksOnce

\* Registrations and accounts come and go.
LEMMA OwnersPreserve ==
    ASSUME PushInv,
           \/ \E u \in User, t \in Token : Register(u, t)
           \/ \E t \in Token : Uninstall(t)
           \/ \E u \in User : DeleteAccount(u)
    PROVE  PushInv'
  <1>1. UNCHANGED <<code, issued, redeem, linked, send>>
    BY DEF Register, Uninstall, DeleteAccount
  <1>2. PushShapes'
    <2>1. CASE \E u \in User, t \in Token : Register(u, t)
      BY <2>1 DEF PushInv, PushShapes, Register
    <2>2. CASE \E t \in Token : Uninstall(t)
      BY <2>2 DEF PushInv, PushShapes, Uninstall
    <2>3. CASE \E u \in User : DeleteAccount(u)
      BY <2>3, PushAssumption DEF PushInv, PushShapes, DeleteAccount, PushFault
    <2> QED BY <2>1, <2>2, <2>3
  <1>3. OnlyDead'
    <2>1. alive' \in SUBSET alive
      BY DEF Register, Uninstall, DeleteAccount
    <2> QED BY <1>1, <2>1 DEF PushInv, OnlyDead
  <1> QED BY <1>1, <1>2, <1>3, PairingKept DEF PushInv

\* A code is made, or expires.
LEMMA CodePreserves ==
    ASSUME PushInv, NEW c \in Code, CodeExpires(c) \/ \E u \in User : CreateCode(c, u)
    PROVE  PushInv'
  <1>1. PushShapes'
    BY DEF PushInv, PushShapes, CodeExpires, CreateCode
  <1>2. Unused'
    BY PushAssumption DEF PushInv, PushShapes, Unused, CodeExpires, CreateCode
  <1>3. OneClaim'
    BY PushAssumption DEF PushInv, PushShapes, OneClaim, Claimed, CodeExpires, CreateCode
  <1>4. CodeLinksOnce' /\ OnlyDead'
    BY DEF PushInv, CodeLinksOnce, OnlyDead, CodeExpires, CreateCode
  <1> QED BY <1>1, <1>2, <1>3, <1>4 DEF PushInv

LEMMA ClaimPreserves ==
    ASSUME PushInv, NEW r \in Redeemer, NEW c \in Code, NEW t \in Token, Claim(r, c, t)
    PROVE  PushInv'
  <1> USE DEF PushInv
  <1>1. /\ redeem'[r] = [pc |-> "claimed", code |-> c, token |-> t, user |-> code[c]]
        /\ \A q \in Redeemer : q # r => redeem'[q] = redeem[q]
        /\ code'[c] = NoUser /\ code[c] \in User
        /\ \A d \in Code : d # c => code'[d] = code[d]
        /\ UNCHANGED <<issued, linked, send, alive>>
    BY DEF PushShapes, Claim
  <1>2. PushShapes'
    BY DEF PushShapes, Claim
  <1>3. Unused' /\ CodeLinksOnce' /\ OnlyDead'
    BY <1>1 DEF Unused, CodeLinksOnce, OnlyDead
  <1>4. issued[c] # NoUser /\ linked[c] = 0 /\ code[c] # NoUser
    BY <1>1, PushAssumption DEF Unused
  <1>5. \A q \in Redeemer : Claimed(q) => redeem[q].code # c
    BY <1>4 DEF OneClaim
  <1>6. OneClaim'
    BY <1>1, <1>4, <1>5 DEF OneClaim, Claimed
  <1> QED BY <1>2, <1>3, <1>6

LEMMA LinkPreserves ==
    ASSUME PushInv, NEW r \in Redeemer, Link(r)
    PROVE  PushInv'
  <1> USE DEF PushInv
  <1> DEFINE c == redeem[r].code
  <1>1. /\ c \in Code /\ redeem[r].token \in Token /\ redeem[r].user \in User
        /\ linked[c] = 0 /\ code[c] = NoUser /\ issued[c] # NoUser
        /\ \A q \in Redeemer : Claimed(q) /\ redeem[q].code = c => q = r
    BY DEF OneClaim, Claimed, Link
  <1>2. /\ linked' = [linked EXCEPT ![c] = @ + 1]
        /\ redeem' = [redeem EXCEPT ![r] = NoRedeem]
        /\ owner' = [owner EXCEPT ![redeem[r].token] = redeem[r].user]
        /\ UNCHANGED <<account, alive, code, issued, send, pushFaults>>
    BY DEF Link
  <1> HIDE DEF c
  <1>3. PushShapes'
    <2>1. NoRedeem \in [pc : {"idle", "claimed"}, code : Code \cup {NoRedeem.code},
                        token : Token \cup {NoRedeem.token}, user : User \cup {NoUser}]
      BY DEF NoRedeem
    <2> QED BY <1>1, <1>2, <2>1 DEF PushShapes
  <1>4. linked'[c] = 1 /\ \A d \in Code : d # c => linked'[d] = linked[d]
    BY <1>1, <1>2 DEF PushShapes
  <1>5. Unused' /\ CodeLinksOnce' /\ OnlyDead'
    BY <1>1, <1>2, <1>4 DEF Unused, CodeLinksOnce, OnlyDead
  <1>6. OneClaim'
    <2>1. ~Claimed(r)' /\ \A q \in Redeemer : q # r => redeem'[q] = redeem[q]
      BY <1>2 DEF Claimed, NoRedeem, PushShapes
    <2> QED BY <1>1, <1>2, <1>4, <2>1 DEF OneClaim, Claimed, c
  <1> QED BY <1>3, <1>5, <1>6

LEMMA LinkFailsPreserves ==
    ASSUME PushInv, NEW r \in Redeemer, LinkFails(r)
    PROVE  PushInv'
  <1> USE DEF PushInv, LinkFails
  <1>1. PushShapes'
    <2>1. NoRedeem \in [pc : {"idle", "claimed"}, code : Code \cup {NoRedeem.code},
                        token : Token \cup {NoRedeem.token}, user : User \cup {NoUser}]
      BY DEF NoRedeem
    <2>2. pushFaults' \in 0 .. MaxPushFaults
      BY PushAssumption DEF PushShapes, PushFault
    <2> QED BY <2>1, <2>2 DEF PushShapes
  <1>2. Unused' /\ CodeLinksOnce' /\ OnlyDead'
    BY DEF Unused, CodeLinksOnce, OnlyDead
  <1>3. OneClaim'
    <2>1. ~Claimed(r)' /\ \A q \in Redeemer : q # r => redeem'[q] = redeem[q]
      BY DEF Claimed, NoRedeem, PushShapes
    <2> QED BY <2>1 DEF OneClaim, Claimed
  <1> QED BY <1>1, <1>2, <1>3

\* The steps of a send.
LEMMA SendPreserves ==
    ASSUME PushInv,
           \/ \E u \in User : SelectTokens(u)
           \/ \E t \in Token : PruneToken(t)
           \/ Multicast \/ SendDone \/ SendFails
    PROVE  PushInv'
  <1>1. UNCHANGED <<account, alive, code, issued, redeem, linked>>
    BY DEF SelectTokens, PruneToken, Multicast, SendDone, SendFails
  <1>2. PushShapes' /\ OnlyDead'
    <2>1. CASE \E u \in User : SelectTokens(u)
      <3>1. PICK u \in User : SelectTokens(u)
        BY <2>1
      <3>2. PICK s : /\ s \in SetToSeqs({t \in Token : owner[t] = u})
                     /\ send' = [NoSend EXCEPT !.pc = "selected", !.tokens = s]
        BY <3>1 DEF SelectTokens
      <3>3. \A i \in DOMAIN s : s[i] \in Token
        BY <3>2 DEF SetToSeqs
      <3> QED BY <1>1, <3>1, <3>2, <3>3 DEF PushInv, PushShapes, OnlyDead, SelectTokens, NoSend
    <2>2. CASE \E t \in Token : PruneToken(t)
      <3>1. PICK t \in Token : PruneToken(t)
        BY <2>2
      <3>2. send' = [pc |-> "prune", tokens |-> send.tokens, dead |-> send.dead \ {t}]
        BY <3>1 DEF PruneToken, PushInv, PushShapes
      <3>3. owner' \in [Token -> User \cup {NoUser}] /\ UNCHANGED pushFaults
        BY <3>1 DEF PruneToken, PushInv, PushShapes
      <3> QED BY <1>1, <3>2, <3>3 DEF PushInv, PushShapes, OnlyDead
    <2>3. CASE Multicast
      <3>1. PICK failing \in SUBSET alive :
              LET response == [i \in DOMAIN send.tokens |->
                                 IF send.tokens[i] \notin alive THEN "unregistered"
                                 ELSE IF send.tokens[i] \in failing THEN "error" ELSE "sent"]
              IN  send' = [send EXCEPT !.pc = "prune", !.dead = Dead(send.tokens, response)]
        BY <2>3 DEF Multicast
      <3> DEFINE response == [i \in DOMAIN send.tokens |->
                                 IF send.tokens[i] \notin alive THEN "unregistered"
                                 ELSE IF send.tokens[i] \in failing THEN "error" ELSE "sent"]
                 dead == Dead(send.tokens, response)
      <3>2. \A t \in dead : t \in Token /\ t \notin alive
        BY ZenonT(60) DEF Dead, PushInv, PushShapes
      <3>3. send' = [send EXCEPT !.pc = "prune", !.dead = dead] /\ UNCHANGED <<owner, pushFaults>>
        BY <2>3, <3>1 DEF Multicast
      <3> HIDE DEF dead
      <3>4. send' = [pc |-> "prune", tokens |-> send.tokens, dead |-> dead]
        BY <3>3 DEF PushInv, PushShapes
      <3> QED BY <1>1, <3>2, <3>3, <3>4 DEF PushInv, PushShapes, OnlyDead
    <2>4. CASE SendDone \/ SendFails
      BY <1>1, <2>4, PushAssumption DEF PushInv, PushShapes, OnlyDead, SendDone, SendFails, NoSend, PushFault
    <2> QED BY <2>1, <2>2, <2>3, <2>4
  <1> QED BY <1>1, <1>2, PairingKept DEF PushInv

LEMMA NextPushInv == PushInv /\ [PushNext]_pushVars => PushInv'
  <1> SUFFICES ASSUME PushInv, [PushNext]_pushVars PROVE PushInv'
    OBVIOUS
  <1>1. CASE UNCHANGED pushVars
    BY <1>1 DEF pushVars, PushInv, PushShapes, Unused, OneClaim, Claimed, CodeLinksOnce, OnlyDead
  <1>2. CASE PushNext
    BY <1>2, OwnersPreserve, CodePreserves, ClaimPreserves, LinkPreserves,
       LinkFailsPreserves, SendPreserves DEF PushNext
  <1> QED BY <1>1, <1>2

LEMMA PushInductive == PushSpec => []PushInv
  BY InitPushInv, NextPushInv, PTL DEF PushSpec

\* Every state is well typed.
THEOREM PushTypeCorrect == PushSpec => []PushTypeOK
  <1>1. PushInv => PushTypeOK
    BY DEF PushInv, PushShapes, PushTypeOK
  <1> QED BY <1>1, PushInductive, PTL

\* However redemptions overlap, fail or meet an expiry, a code links at most one
\* device (redeemDeviceLinkCode over consumeOnce).
THEOREM CodeLinksAtMostOnce == PushSpec => []CodeLinksOnce
  <1>1. PushInv => CodeLinksOnce
    BY DEF PushInv
  <1> QED BY <1>1, PushInductive, PTL

\* A device that still has the app loses its registration only with the account
\* it belonged to (sendToUser, deleteUser).
THEOREM LiveDevicesStay == PushSpec => LiveDeviceStays
  <1> DEFINE Kept == \A t \in alive : owner[t] # NoUser /\ owner'[t] = NoUser
                                      => owner[t] \notin account'
  <1>1. PushInv /\ [PushNext]_pushVars => [Kept]_pushVars
    <2> SUFFICES ASSUME PushInv, PushNext, NEW t \in alive,
                        owner[t] # NoUser, owner'[t] = NoUser
                 PROVE  owner[t] \notin account'
      OBVIOUS
    <2>1. t \in Token /\ owner'[t] # owner[t] /\ NoUser \notin account
      BY PushAssumption DEF PushInv, PushShapes
    <2>2. CASE \E u \in User, d \in Token : Register(u, d)
      BY <2>1, <2>2 DEF Register, PushInv, PushShapes
    <2>3. CASE \E u \in User : DeleteAccount(u)
      BY <2>1, <2>3 DEF DeleteAccount, PushInv, PushShapes
    <2>4. CASE \E r \in Redeemer : Link(r)
      BY <2>1, <2>4 DEF Link, PushInv, PushShapes
    <2>5. CASE \E d \in Token : PruneToken(d)
      BY <2>1, <2>5 DEF PruneToken, PushInv, PushShapes, OnlyDead
    <2>6. CASE UNCHANGED owner
      BY <2>1, <2>6
    <2> QED BY <2>2, <2>3, <2>4, <2>5, <2>6
         DEF PushNext, Uninstall, SelectTokens, CreateCode, CodeExpires, Claim, LinkFails,
             Multicast, SendDone, SendFails
  <1> QED BY <1>1, PushInductive, PTL DEF PushSpec, LiveDeviceStays

-----------------------------------------------------------------------------
(* Credentials. *)

EntryShape(e) == DOMAIN e = {"verdict", "left", "ago"} /\ e.left \in Nat /\ e.ago \in Nat
StateShape(k) ==
    /\ DOMAIN k = {"pc", "cred", "verdict", "ago", "held"}
    /\ k.pc \in {"idle", "verify", "store", "answered"} /\ k.ago \in Nat /\ k.held \in BOOLEAN
    /\ k.pc # "idle" => k.cred \in Credential

\* An entry gets older as its life gets shorter; it was a tick old at most when it
\* was stored.
EntryYoung(e, c) == EntryShape(e) /\ (e.left > 0 => e.ago + e.left <= Ttl(c, e.verdict) + 1)

\* A verdict to be stored is as old as the request has lasted.
StateYoung(k) ==
    /\ StateShape(k)
    /\ k.pc = "store" => /\ k.ago <= (IF k.held THEN 1 ELSE 0)
                         /\ Ttl(k.cred, k.verdict) # 0

CredentialInv ==
    /\ DOMAIN cached = Credential /\ \A c \in Credential : EntryYoung(cached[c], c)
    /\ cached = [c \in Credential |-> cached[c]]
    /\ DOMAIN request = Request /\ \A r \in Request : StateYoung(request[r])
    /\ request = [r \in Request |-> request[r]]

LEMMA TtlIsNat == \A c, v : Ttl(c, v) \in Nat
  BY CredentialAssumption DEF Ttl

LEMMA HorizonIsNat == Horizon \in Nat
  <1> DEFINE T == {KeyTtl, RefusedTtl, BearerTtl}
  <1>1. KeyTtl \in Nat /\ RefusedTtl \in Nat /\ BearerTtl \in Nat
    BY CredentialAssumption
  <1>2. \E x \in T : \A y \in T : x >= y
    BY <1>1
  <1>3. Max(T) \in T
    <2> HIDE DEF T
    <2> QED BY <1>2 DEF Max
  <1> QED BY <1>1, <1>3 DEF Horizon

LEMMA AgoSlow == \A n \in Nat : Min({n + 1, Horizon}) \in Nat /\ Min({n + 1, Horizon}) <= n + 1
  <1> SUFFICES ASSUME NEW n \in Nat
               PROVE  Min({n + 1, Horizon}) \in Nat /\ Min({n + 1, Horizon}) <= n + 1
    OBVIOUS
  <1> DEFINE T == {n + 1, Horizon}
  <1>1. \E x \in T : \A y \in T : x =< y
    BY HorizonIsNat
  <1>2. Min(T) \in T /\ \A y \in T : Min(T) =< y
    <2> HIDE DEF T
    <2> QED BY <1>1 DEF Min
  <1> QED BY <1>2, HorizonIsNat

\* A tick makes what is held at most a tick older, and leaves the rest of it.
LEMMA AgedEntry ==
    ASSUME NEW e, EntryShape(e), NEW c
    PROVE  LET a == Aged(e, c)
           IN  EntryShape(a) /\ a.verdict = e.verdict /\ a.left = e.left /\ a.ago <= e.ago + 1
  <1> DEFINE n == IF e.verdict = Verify(c) THEN 0 ELSE Min({e.ago + 1, Horizon})
  <1>1. n \in Nat /\ n <= e.ago + 1
    BY AgoSlow DEF EntryShape
  <1>2. LET a == Aged(e, c)
        IN  DOMAIN a = DOMAIN e /\ a.verdict = e.verdict /\ a.left = e.left /\ a.ago = n
    BY DEF Aged, EntryShape
  <1> QED BY <1>1, <1>2 DEF EntryShape

LEMMA AgedState ==
    ASSUME NEW k, StateShape(k), NEW c
    PROVE  LET a == [Aged(k, c) EXCEPT !.held = TRUE]
           IN  /\ StateShape(a) /\ a.held = TRUE /\ a.ago <= k.ago + 1
               /\ a.pc = k.pc /\ a.cred = k.cred /\ a.verdict = k.verdict
  <1> DEFINE n == IF k.verdict = Verify(c) THEN 0 ELSE Min({k.ago + 1, Horizon})
  <1>1. n \in Nat /\ n <= k.ago + 1
    BY AgoSlow DEF StateShape
  <1>2. LET a == Aged(k, c)
        IN  /\ DOMAIN a = DOMAIN k /\ a.pc = k.pc /\ a.cred = k.cred /\ a.verdict = k.verdict
            /\ a.ago = n
    BY DEF Aged, StateShape
  <1> HIDE DEF n
  <1>3. LET a == [Aged(k, c) EXCEPT !.held = TRUE]
        IN  /\ DOMAIN a = DOMAIN k /\ a.pc = k.pc /\ a.cred = k.cred /\ a.verdict = k.verdict
            /\ a.ago = n /\ a.held = TRUE
    BY <1>2 DEF StateShape
  <1> QED BY <1>1, <1>3 DEF StateShape

LEMMA NoEntryYoung == \A c : EntryYoung(NoEntry, c)
  BY DEF EntryYoung, EntryShape, NoEntry

LEMMA WaitingYoung == StateYoung(Waiting) /\ Waiting.pc = "idle"
  BY DEF StateYoung, StateShape, Waiting

LEMMA InitCredentialInv == CredentialInit => CredentialInv
  BY NoEntryYoung, WaitingYoung DEF CredentialInit, CredentialInv

\* The step of one request.
LEMMA OneRequestYoung ==
    ASSUME CredentialInv, NEW r \in Request, NEW k, StateYoung(k),
           request' = [request EXCEPT ![r] = k], cached' = cached
    PROVE  CredentialInv'
  BY DEF CredentialInv

LEMMA LookUpYoung ==
    ASSUME CredentialInv, NEW r \in Request, NEW c \in Credential, LookUp(r, c)
    PROVE  CredentialInv'
  <1> DEFINE e == cached[c]
             k == [Waiting EXCEPT !.pc = IF e.left > 0 THEN "answered" ELSE "verify",
                                  !.cred = c, !.verdict = e.verdict, !.ago = e.ago]
  <1>1. EntryShape(e)
    BY DEF CredentialInv, EntryYoung
  <1>2. /\ DOMAIN k = {"pc", "cred", "verdict", "ago", "held"} /\ k.pc \in {"answered", "verify"}
        /\ k.cred = c /\ k.ago = e.ago /\ k.held = FALSE
    BY DEF Waiting
  <1>3. StateYoung(k)
    BY <1>1, <1>2 DEF StateYoung, StateShape, EntryShape
  <1>4. request' = [request EXCEPT ![r] = k] /\ cached' = cached
    BY DEF LookUp
  <1> HIDE DEF k
  <1> QED BY <1>3, <1>4, OneRequestYoung

LEMMA VerifyYoung ==
    ASSUME CredentialInv, NEW r \in Request, VerifyStep(r)
    PROVE  CredentialInv'
  <1> DEFINE c == request[r].cred
             v == Verify(c)
             pc == IF Ttl(c, v) = 0 THEN "answered" ELSE "store"
             k == [request[r] EXCEPT !.verdict = v, !.ago = 0, !.pc = pc]
  <1>1. StateShape(request[r]) /\ request[r].pc = "verify"
    BY DEF CredentialInv, StateYoung, VerifyStep
  <1>2. StateYoung(k)
    <2>1. /\ DOMAIN k = DOMAIN request[r] /\ k.verdict = v /\ k.ago = 0 /\ k.pc = pc
          /\ k.cred = c /\ k.held = request[r].held
      BY <1>1 DEF StateShape
    <2>2. pc \in {"answered", "store"} /\ (pc = "store" => Ttl(c, v) # 0)
      OBVIOUS
    <2> HIDE DEF k, pc
    <2> QED BY <1>1, <2>1, <2>2 DEF StateYoung, StateShape
  <1>3. request' = [request EXCEPT ![r] = k] /\ cached' = cached
    BY DEF VerifyStep, CredentialInv
  <1> HIDE DEF k
  <1> QED BY <1>2, <1>3, OneRequestYoung

LEMMA StoreYoung ==
    ASSUME CredentialInv, NEW r \in Request, Store(r)
    PROVE  CredentialInv'
  <1> DEFINE c == request[r].cred
             v == request[r].verdict
             e == [verdict |-> v, left |-> Ttl(c, v), ago |-> request[r].ago]
             k == [request[r] EXCEPT !.pc = "answered"]
  <1>1. /\ StateShape(request[r]) /\ request[r].pc = "store" /\ c \in Credential
        /\ request[r].ago \in Nat /\ request[r].ago <= 1 /\ Ttl(c, v) \in Nat
    BY TtlIsNat DEF CredentialInv, StateYoung, StateShape, Store
  <1>2. EntryYoung(e, c)
    BY <1>1 DEF EntryYoung, EntryShape
  <1>3. StateYoung(k)
    BY <1>1 DEF StateYoung, StateShape
  <1>4. cached' = [cached EXCEPT ![c] = e] /\ request' = [request EXCEPT ![r] = k]
    BY DEF Store
  <1> HIDE DEF e, k
  <1> QED BY <1>1, <1>2, <1>3, <1>4 DEF CredentialInv

LEMMA TickYoung ==
    ASSUME CredentialInv, CredentialTick
    PROVE  CredentialInv'
  <1>1. ASSUME NEW c \in Credential PROVE EntryYoung(cached'[c], c)
    <2> DEFINE e == cached[c]
               a == Aged(e, c)
    <2>1. EntryYoung(e, c) /\ EntryShape(e)
      BY DEF CredentialInv, EntryYoung
    <2>2. EntryShape(a) /\ a.verdict = e.verdict /\ a.left = e.left /\ a.ago <= e.ago + 1
      BY <2>1, AgedEntry
    <2>3. cached'[c] = IF e.left > 1 THEN [a EXCEPT !.left = @ - 1] ELSE NoEntry
      BY DEF CredentialTick
    <2> HIDE DEF a
    <2>4. CASE e.left > 1
      <3>1. LET b == [a EXCEPT !.left = @ - 1]
            IN  /\ DOMAIN b = DOMAIN a /\ b.verdict = e.verdict /\ b.left = e.left - 1
                /\ b.ago = a.ago
        BY <2>2 DEF EntryShape
      <3>2. e.left \in Nat /\ e.ago \in Nat /\ a.ago \in Nat /\ Ttl(c, e.verdict) \in Nat
        BY <2>1, <2>2, TtlIsNat DEF EntryShape
      <3> QED BY <2>1, <2>2, <2>3, <2>4, <3>1, <3>2 DEF EntryYoung, EntryShape
    <2> QED BY <2>3, <2>4, NoEntryYoung
  <1>2. ASSUME NEW r \in Request PROVE StateYoung(request'[r])
    <2> DEFINE k == request[r]
               a == [Aged(k, k.cred) EXCEPT !.held = TRUE]
    <2>1. StateYoung(k) /\ StateShape(k)
      BY DEF CredentialInv, StateYoung
    <2>2. request'[r] = IF k.pc = "idle" THEN Waiting ELSE a
      BY DEF CredentialTick
    <2>3. k.pc # "idle" => ~k.held
      BY DEF CredentialTick
    <2>4. /\ StateShape(a) /\ a.held = TRUE /\ a.ago <= k.ago + 1
          /\ a.pc = k.pc /\ a.cred = k.cred /\ a.verdict = k.verdict
      BY <2>1, AgedState
    <2> HIDE DEF a
    <2>5. k.ago \in Nat /\ a.ago \in Nat
      BY <2>1, <2>4 DEF StateShape
    <2>6. k.pc # "idle" => StateYoung(a)
      BY <2>1, <2>3, <2>4, <2>5 DEF StateYoung
    <2> QED BY <2>2, <2>6, WaitingYoung
  <1>3. cached' = [c \in Credential |-> cached'[c]] /\ DOMAIN cached' = Credential
        /\ request' = [r \in Request |-> request'[r]] /\ DOMAIN request' = Request
    BY DEF CredentialTick
  <1> QED BY <1>1, <1>2, <1>3 DEF CredentialInv

LEMMA CredentialInductive == CredentialSpec => []CredentialInv
  <1>1. CredentialInv /\ [CredentialNext]_credentialVars => CredentialInv'
    <2> SUFFICES ASSUME CredentialInv, [CredentialNext]_credentialVars PROVE CredentialInv'
      OBVIOUS
    <2>1. CASE UNCHANGED <<cached, request>>
      BY <2>1 DEF CredentialInv
    <2>2. ASSUME NEW r \in Request, Answered(r) \/ RequestFails(r) PROVE CredentialInv'
      BY <2>2, WaitingYoung, OneRequestYoung DEF Answered, RequestFails
    <2>3. CASE CredentialNext
      <3>1. CASE \E k \in ApiKeys, p \in {"none", "user", "admin"} : SetKey(k, p)
        BY <2>1, <3>1 DEF SetKey
      <3>2. CASE \E u \in Account, new \in {"user", "admin"} : SetRole(u, new)
        BY <2>1, <3>2 DEF SetRole
      <3>3. CASE \E u \in Account : SetBanned(u)
        BY <2>1, <3>3 DEF SetBanned
      <3>4. CASE \E s \in Sessions : EndSession(s)
        BY <2>1, <3>4 DEF EndSession
      <3> QED BY <2>2, <2>3, <3>1, <3>2, <3>3, <3>4, LookUpYoung, VerifyYoung, StoreYoung, TickYoung
           DEF CredentialNext
    <2>4. CASE UNCHANGED credentialVars
      BY <2>1, <2>4 DEF credentialVars
    <2> QED BY <2>3, <2>4
  <1> QED BY <1>1, InitCredentialInv, PTL DEF CredentialSpec

\* For any credentials, lifetimes, requests and changes: who is let in, or turned
\* away, other than the tables say, is so by a verdict they would have given no
\* longer ago than its lifetime (verifyApiKey, resolveUserFromBearer).
THEOREM ChangesAreNoticed == CredentialSpec => NoticedInTime
  <1> DEFINE Now(c, v) == \/ ApiKeyGuard(v) # ApiKeyGuard(Verify(c))
                          \/ AdminGuard(c, v) # AdminGuard(c, Verify(c))
                          \/ RolesGuard(v) # RolesGuard(Verify(c))
             Noticed == \A r \in Request :
               request[r].pc # "answered" /\ request'[r].pc = "answered"
               => LET c == request'[r].cred
                      v == request'[r].verdict
                      now == Verify(c)
                  IN  \/ ApiKeyGuard(v) # ApiKeyGuard(now)
                      \/ AdminGuard(c, v) # AdminGuard(c, now)
                      \/ RolesGuard(v) # RolesGuard(now)
                      => request'[r].ago <= Ttl(c, v)
  <1>1. CredentialInv /\ [CredentialNext]_credentialVars => [Noticed]_credentialVars
    <2> SUFFICES ASSUME CredentialInv, CredentialNext, NEW r \in Request,
                        request[r].pc # "answered", request'[r].pc = "answered",
                        Now(request'[r].cred, request'[r].verdict)
                 PROVE  request'[r].ago <= Ttl(request'[r].cred, request'[r].verdict)
      OBVIOUS
    <2> DEFINE k == request[r]
               n == request'[r]
    <2>0. StateYoung(k) /\ StateShape(k) /\ n.verdict # Verify(n.cred)
      BY DEF CredentialInv, StateYoung
    <2>1. ASSUME NEW c \in Credential, LookUp(r, c) PROVE n.ago <= Ttl(n.cred, n.verdict)
      <3> DEFINE e == cached[c]
      <3>1. /\ n.pc = IF e.left > 0 THEN "answered" ELSE "verify"
            /\ n.cred = c /\ n.verdict = e.verdict /\ n.ago = e.ago
        BY <2>1 DEF LookUp, Waiting, CredentialInv
      <3>2. e.left > 0 /\ e.left \in Nat /\ e.ago \in Nat /\ Ttl(c, e.verdict) \in Nat
            /\ e.ago + e.left <= Ttl(c, e.verdict) + 1
        BY <3>1, TtlIsNat DEF CredentialInv, EntryYoung, EntryShape
      <3> QED BY <3>1, <3>2
    <2>2. CASE VerifyStep(r)
      <3>1. n.verdict = Verify(k.cred) /\ n.cred = k.cred
        BY <2>0, <2>2 DEF VerifyStep, CredentialInv, StateShape
      <3> QED BY <2>0, <3>1
    <2>3. CASE Store(r)
      <3>1. n = [k EXCEPT !.pc = "answered"] /\ k.pc = "store"
        BY <2>3 DEF Store, CredentialInv
      <3>2. n.ago = k.ago /\ n.cred = k.cred /\ n.verdict = k.verdict
        BY <2>0, <3>1 DEF StateShape
      <3>3. k.ago \in Nat /\ k.ago <= 1 /\ Ttl(k.cred, k.verdict) \in Nat /\ Ttl(k.cred, k.verdict) # 0
        BY <2>0, <3>1, TtlIsNat DEF StateYoung, StateShape
      <3> QED BY <3>2, <3>3
    <2>4. CASE Answered(r) \/ RequestFails(r)
      BY <2>4, WaitingYoung DEF Answered, RequestFails, CredentialInv
    <2>5. CASE CredentialTick
      <3>1. n.pc = "idle" \/ n.pc = k.pc
        BY <2>0, <2>5, WaitingYoung, AgedState DEF CredentialTick
      <3> QED BY <3>1
    <2>6. CASE request' = request
      BY <2>6
    <2>7. ASSUME NEW q \in Request, q # r,
                 VerifyStep(q) \/ Store(q) \/ Answered(q) \/ RequestFails(q)
                 \/ \E c \in Credential : LookUp(q, c)
          PROVE  FALSE
      <3>1. request'[r] = request[r]
        BY <2>7 DEF VerifyStep, Store, Answered, RequestFails, LookUp, CredentialInv
      <3> QED BY <3>1
    <2>8. CASE \E q \in Request : VerifyStep(q) \/ Store(q) \/ Answered(q) \/ RequestFails(q)
                                  \/ \E c \in Credential : LookUp(q, c)
      BY <2>1, <2>2, <2>3, <2>4, <2>7, <2>8
    <2>9. CASE \/ \E j \in ApiKeys, p \in {"none", "user", "admin"} : SetKey(j, p)
               \/ \E u \in Account, new \in {"user", "admin"} : SetRole(u, new)
               \/ \E u \in Account : SetBanned(u)
               \/ \E s \in Sessions : EndSession(s)
      BY <2>6, <2>9 DEF SetKey, SetRole, SetBanned, EndSession
    <2> QED BY <2>5, <2>8, <2>9 DEF CredentialNext
  <1> QED BY <1>1, CredentialInductive, PTL DEF CredentialSpec, NoticedInTime
=============================================================================
