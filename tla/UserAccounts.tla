---------------------------- MODULE UserAccounts ----------------------------
(***************************************************************************)
(* How a verified Supabase token finds its local account                   *)
(* (SupabaseAuthService.resolveOrCreateUser): by the sub of the token, or  *)
(* by its e-mail, creating the account or taking over the one with that    *)
(* e-mail.  Three statements without a transaction, run by many requests   *)
(* of one user at once.                                                    *)
(*                                                                         *)
(* Accounts also come from better-auth's sign-up (AuthService), where the  *)
(* first one becomes administrator.                                        *)
(***************************************************************************)
EXTENDS Naturals, Sequences, FiniteSets

CONSTANTS
    Sub,           \* users of Supabase
    Email,
    NoSub,
    Login,         \* requests at one time
    MaxMailChanges \* bound: changes at Supabase and steps of sign-ups

ASSUME UserAssumption == NoSub \notin Sub /\ MaxMailChanges \in Nat

VARIABLES
    users,   \* the table; an account is its position
    mailOf,  \* at Supabase: the e-mail of each sub
    past,    \* at Supabase: the e-mails a sub has had
    first,   \* the e-mails of sign-ups that found no account
    login,   \* the progress of each request
    mailChanges

userVars == <<users, mailOf, past, first, login, mailChanges>>

AccountId == 1 .. Len(users)
NoLogin == [pc |-> "idle", sub |-> NoSub, email |-> CHOOSE e \in Email : TRUE, user |-> 0]
BySub(s)   == {i \in AccountId : users[i].sub = s}
ByEmail(e) == {i \in AccountId : users[i].email = e}

UserTypeOK ==
    /\ \A i \in AccountId : users[i] \in
         [email : Email, sub : Sub \cup {NoSub}, role : {"user", "admin"}]
    /\ mailOf \in [Sub -> Email] /\ past \in [Sub -> SUBSET Email]
    /\ \A r \in Login : login[r].pc \in {"idle", "upsert", "reselect", "done"}
    /\ first \subseteq Email /\ mailChanges \in 0 .. MaxMailChanges

UserInit ==
    /\ users = <<>>
    /\ mailOf \in {f \in [Sub -> Email] : \A s, t \in Sub : f[s] = f[t] => s = t}
    /\ past = [s \in Sub |-> {mailOf[s]}]
    /\ login = [r \in Login |-> NoLogin] /\ first = {} /\ mailChanges = 0

\* A token carries the e-mail the sub had when it was issued.
SelectBySub(r, s, e) ==
    /\ login[r].pc = "idle" /\ e \in past[s]
    /\ login' = [login EXCEPT ![r] =
          IF BySub(s) # {} THEN [pc |-> "done", sub |-> s, email |-> e, user |-> CHOOSE i \in BySub(s) : TRUE]
          ELSE [NoLogin EXCEPT !.pc = "upsert", !.sub = s, !.email = e]]
    /\ UNCHANGED <<users, mailOf, past, first, mailChanges>>

\* Mutant: on conflict the sub is left as it was.
UpsertRoleOnly(r, jwtRole) ==
    LET s == login[r].sub
        e == login[r].email
    IN  /\ login[r].pc = "upsert" /\ BySub(s) \subseteq ByEmail(e)
        /\ users' = IF ByEmail(e) = {}
                    THEN Append(users, [email |-> e, sub |-> s, role |-> jwtRole])
                    ELSE [i \in AccountId |-> IF i \notin ByEmail(e) \/ users[i].role = "admin" THEN users[i]
                                            ELSE [users[i] EXCEPT !.role = jwtRole]]
        /\ login' = [login EXCEPT ![r].pc = "reselect"]
        /\ UNCHANGED <<mailOf, past, first, mailChanges>>

\* INSERT .. ON CONFLICT (email): an administrator stays one.  Another row with
\* the sub violates its unique constraint (LoginFails).
Upsert(r, jwtRole) ==
    LET s == login[r].sub
        e == login[r].email
    IN  /\ login[r].pc = "upsert" /\ BySub(s) \subseteq ByEmail(e)
        /\ users' = IF ByEmail(e) = {}
                    THEN Append(users, [email |-> e, sub |-> s, role |-> jwtRole])
                    ELSE [i \in AccountId |-> IF i \notin ByEmail(e) THEN users[i]
                            ELSE [users[i] EXCEPT !.sub = s, !.role = IF @ = "admin" THEN @ ELSE jwtRole]]
        /\ login' = [login EXCEPT ![r].pc = "reselect"]
        /\ UNCHANGED <<mailOf, past, first, mailChanges>>

Reselect(r) ==
    /\ login[r].pc = "reselect" /\ ByEmail(login[r].email) # {}
    /\ login' = [login EXCEPT ![r].pc = "done", ![r].user = CHOOSE i \in ByEmail(login[r].email) : TRUE]
    /\ UNCHANGED <<users, mailOf, past, first, mailChanges>>

\* Postgres fails, or the sub is taken: an error, and what was done stays.
LoginFails(r) ==
    /\ login[r].pc \in {"upsert", "reselect"}
    /\ login' = [login EXCEPT ![r] = NoLogin]
    /\ UNCHANGED <<users, mailOf, past, first, mailChanges>>

LoginEnds(r) ==
    /\ login[r].pc = "done"
    /\ login' = [login EXCEPT ![r] = NoLogin]
    /\ UNCHANGED <<users, mailOf, past, first, mailChanges>>

\* At Supabase, a user takes an e-mail no one has now.
ChangeMail(s, e) ==
    /\ mailChanges < MaxMailChanges /\ mailChanges' = mailChanges + 1
    /\ \A t \in Sub : mailOf[t] # e
    /\ mailOf' = [mailOf EXCEPT ![s] = e] /\ past' = [past EXCEPT ![s] = @ \cup {e}]
    /\ UNCHANGED <<users, first, login>>

\* databaseHooks.user.create.before: a sign-up that finds no account ...
CountUsers(e) ==
    /\ users = <<>> /\ mailChanges < MaxMailChanges /\ mailChanges' = mailChanges + 1
    /\ first' = first \cup {e}
    /\ UNCHANGED <<users, mailOf, past, login>>

\* ... creates an administrator, though others may have come first.  One that
\* found some, or failed to count, creates a user.
SignUp(e) ==
    /\ ByEmail(e) = {} /\ mailChanges < MaxMailChanges /\ mailChanges' = mailChanges + 1
    /\ users' = Append(users, [email |-> e, sub |-> NoSub,
                               role |-> IF e \in first THEN "admin" ELSE "user"])
    /\ first' = first \ {e}
    /\ UNCHANGED <<mailOf, past, login>>

UserNext ==
    \/ \E r \in Login, s \in Sub, e \in Email : SelectBySub(r, s, e)
    \/ \E r \in Login, role \in {"user", "admin"} : Upsert(r, role)
    \/ \E r \in Login : Reselect(r) \/ LoginFails(r) \/ LoginEnds(r)
    \/ \E s \in Sub, e \in Email : ChangeMail(s, e)
    \/ \E e \in Email : CountUsers(e) \/ SignUp(e)

UserSpec == UserInit /\ [][UserNext]_userVars

-----------------------------------------------------------------------------
(* Properties. *)

\* No e-mail has passed from one user of Supabase to another.
MailsNeverReused == \A s, t \in Sub : s # t => past[s] \cap past[t] = {}

\* Two requests of one user, whatever their order and whichever of his e-mails
\* their tokens carry, find the same account, and an account found by one user
\* is not found by another, as long as e-mails are not reused
\* (resolveOrCreateUser, "anchored on supabaseUserId").
OneAccountEach ==
    MailsNeverReused =>
      \A r, q \in Login :
        login[r].pc = "done" /\ login[q].pc = "done"
        => (login[r].user = login[q].user <=> login[r].sub = login[q].sub)
=============================================================================
