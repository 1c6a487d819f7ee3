---------------------------- MODULE PushDevices ----------------------------
(***************************************************************************)
(* Devices registered for push notifications (src/push/push.service.ts):   *)
(* registration, pairing by a link code, and sending to all devices of a   *)
(* user, which deletes the tokens that FCM reports as dead.                *)
(*                                                                         *)
(* A token is the app's installation on one device as FCM knows it.  It    *)
(* dies when the app is removed and never comes back: a new installation   *)
(* has a new token.  Users sign in and out on a device, and the row of its *)
(* token goes to the user who signed in last.                              *)
(***************************************************************************)
EXTENDS Integers, Sequences, FiniteSets, SequencesExt

CONSTANTS
    User, Token, Code,
    Redeemer,     \* calls of redeemDeviceLinkCode
    NoUser,
    MaxPushFaults \* bound: failures, crashes and account deletions

ASSUME PushAssumption == NoUser \notin User /\ MaxPushFaults \in Nat

VARIABLES
    account,    \* users that exist
    owner,      \* device_tokens: the user of each token, or NoUser
    alive,      \* tokens FCM knows
    code,       \* push:link-code:*: the user each code stands for, or NoUser
    issued,     \* the user each code was made for, or NoUser
    redeem,     \* the progress of each redemption
    send,       \* a sendToUser: the tokens it selected, and those to delete
    linked,     \* how often each code linked a device
    pushFaults

pushVars == <<account, owner, alive, code, issued, redeem, send, linked, pushFaults>>

NoRedeem == [pc |-> "idle", code |-> CHOOSE c \in Code : TRUE,
             token |-> CHOOSE t \in Token : TRUE, user |-> NoUser]
NoSend   == [pc |-> "idle", tokens |-> <<>>, dead |-> {}]

PushTypeOK ==
    /\ account \subseteq User /\ alive \subseteq Token
    /\ owner \in [Token -> User \cup {NoUser}]
    /\ code \in [Code -> User \cup {NoUser}] /\ issued \in [Code -> User \cup {NoUser}]
    /\ \A r \in Redeemer : redeem[r].pc \in {"idle", "claimed"}
    /\ send.pc \in {"idle", "selected", "prune"} /\ send.dead \subseteq Token
    /\ linked \in [Code -> Nat] /\ pushFaults \in 0 .. MaxPushFaults

PushInit ==
    /\ account = User /\ alive = Token
    /\ owner = [t \in Token |-> NoUser]
    /\ code = [c \in Code |-> NoUser] /\ issued = [c \in Code |-> NoUser]
    /\ redeem = [r \in Redeemer |-> NoRedeem] /\ send = NoSend
    /\ linked = [c \in Code |-> 0] /\ pushFaults = 0

PushFault == pushFaults < MaxPushFaults /\ pushFaults' = pushFaults + 1

\* registerDeviceToken: one statement; the row of the token changes hands.
Register(u, t) ==
    /\ u \in account /\ t \in alive /\ owner[t] # u
    /\ owner' = [owner EXCEPT ![t] = u]
    /\ UNCHANGED <<account, alive, code, issued, redeem, send, linked, pushFaults>>

\* The app is removed from the device.
Uninstall(t) ==
    /\ t \in alive /\ alive' = alive \ {t}
    /\ UNCHANGED <<account, owner, code, issued, redeem, send, linked, pushFaults>>

\* deleteUser: the account's devices go with it (onDelete: cascade).
DeleteAccount(u) ==
    /\ u \in account /\ PushFault
    /\ account' = account \ {u}
    /\ owner' = [t \in Token |-> IF owner[t] = u THEN NoUser ELSE owner[t]]
    /\ UNCHANGED <<alive, code, issued, redeem, send, linked>>

-----------------------------------------------------------------------------
(* Pairing. *)

\* createDeviceLinkCode.  The code is random: it never stands for two users.
CreateCode(c, u) ==
    /\ u \in account /\ issued[c] = NoUser
    /\ code' = [code EXCEPT ![c] = u] /\ issued' = [issued EXCEPT ![c] = u]
    /\ UNCHANGED <<account, owner, alive, redeem, send, linked, pushFaults>>

\* LINK_CODE_TTL_SECONDS, or a flush of the cache.
CodeExpires(c) ==
    /\ code[c] # NoUser /\ code' = [code EXCEPT ![c] = NoUser]
    /\ UNCHANGED <<account, owner, alive, issued, redeem, send, linked, pushFaults>>

\* Mutant: the code is read and stays until it expires.
ClaimByGet(r, c, t) ==
    /\ redeem[r].pc = "idle" /\ t \in alive /\ code[c] # NoUser
    /\ redeem' = [redeem EXCEPT ![r] = [pc |-> "claimed", code |-> c, token |-> t,
                                        user |-> code[c]]]
    /\ UNCHANGED <<account, owner, alive, code, issued, send, linked, pushFaults>>

\* redeemDeviceLinkCode, consumeOnce: read and deleted in one script.  For a
\* code that is not there the call is refused.
Claim(r, c, t) ==
    /\ redeem[r].pc = "idle" /\ t \in alive /\ code[c] # NoUser
    /\ redeem' = [redeem EXCEPT ![r] = [pc |-> "claimed", code |-> c, token |-> t,
                                        user |-> code[c]]]
    /\ code' = [code EXCEPT ![c] = NoUser]
    /\ UNCHANGED <<account, owner, alive, issued, send, linked, pushFaults>>

\* ... and its registration, which a deleted account makes fail.
Link(r) ==
    /\ redeem[r].pc = "claimed" /\ redeem[r].user \in account
    /\ owner' = [owner EXCEPT ![redeem[r].token] = redeem[r].user]
    /\ linked' = [linked EXCEPT ![redeem[r].code] = @ + 1]
    /\ redeem' = [redeem EXCEPT ![r] = NoRedeem]
    /\ UNCHANGED <<account, alive, code, issued, send, pushFaults>>

LinkFails(r) ==
    /\ redeem[r].pc = "claimed"
    /\ IF redeem[r].user \in account THEN PushFault ELSE UNCHANGED pushFaults
    /\ redeem' = [redeem EXCEPT ![r] = NoRedeem]
    /\ UNCHANGED <<account, owner, alive, code, issued, send, linked>>

-----------------------------------------------------------------------------
(* sendToUser *)

SelectTokens(u) ==
    LET tokens == {t \in Token : owner[t] = u}
    IN  /\ send.pc = "idle" /\ tokens # {}
        /\ \E s \in SetToSeqs(tokens) : send' = [NoSend EXCEPT !.pc = "selected", !.tokens = s]
        /\ UNCHANGED <<account, owner, alive, code, issued, redeem, linked, pushFaults>>

\* Mutant: the positions of the answers are those of the failed ones only.
DeadByFailure(tokens, response) ==
    LET failed == SelectSeq(response, LAMBDA r : r # "sent")
    IN  {tokens[i] : i \in {j \in DOMAIN failed : failed[j] = "unregistered"}}

\* The tokens whose answer, at the same position, says they are dead.
Dead(tokens, response) == {tokens[i] : i \in {j \in DOMAIN response : response[j] = "unregistered"}}

\* sendEachForMulticast: an answer for every token; one that lives may fail too.
Multicast ==
    /\ send.pc = "selected"
    /\ \E failing \in SUBSET alive :
         LET response == [i \in DOMAIN send.tokens |->
                            IF send.tokens[i] \notin alive THEN "unregistered"
                            ELSE IF send.tokens[i] \in failing THEN "error" ELSE "sent"]
         IN  send' = [send EXCEPT !.pc = "prune", !.dead = Dead(send.tokens, response)]
    /\ UNCHANGED <<account, owner, alive, code, issued, redeem, linked, pushFaults>>

\* One DELETE for each dead token.
PruneToken(t) ==
    /\ send.pc = "prune" /\ t \in send.dead
    /\ owner' = [owner EXCEPT ![t] = NoUser]
    /\ send' = [send EXCEPT !.dead = @ \ {t}]
    /\ UNCHANGED <<account, alive, code, issued, redeem, linked, pushFaults>>

SendDone ==
    /\ send.pc = "prune" /\ send.dead = {} /\ send' = NoSend
    /\ UNCHANGED <<account, owner, alive, code, issued, redeem, linked, pushFaults>>

\* FCM or a DELETE fails, or the process dies.
SendFails ==
    /\ send.pc # "idle" /\ PushFault /\ send' = NoSend
    /\ UNCHANGED <<account, owner, alive, code, issued, redeem, linked>>

PushNext ==
    \/ \E u \in User, t \in Token : Register(u, t)
    \/ \E t \in Token : Uninstall(t) \/ PruneToken(t)
    \/ \E u \in User : DeleteAccount(u) \/ SelectTokens(u)
    \/ \E c \in Code, u \in User : CreateCode(c, u)
    \/ \E c \in Code : CodeExpires(c)
    \/ \E r \in Redeemer, c \in Code, t \in Token : Claim(r, c, t)
    \/ \E r \in Redeemer : Link(r) \/ LinkFails(r)
    \/ Multicast \/ SendDone \/ SendFails

PushSpec == PushInit /\ [][PushNext]_pushVars

-----------------------------------------------------------------------------
(* Properties. *)

\* However redemptions overlap, fail or meet an expiry, a code links at most one
\* device (CacheService.consumeOnce, "never usable twice").
CodeLinksOnce == \A c \in Code : linked[c] <= 1

\* A device that still has the app loses its registration only with the account it
\* belonged to, whatever is sent, fails or is registered anew while the
\* answers of FCM are worked off (sendToUser prunes only dead tokens).
LiveDeviceStays ==
    [][\A t \in alive : owner[t] # NoUser /\ owner'[t] = NoUser
                        => owner[t] \notin account']_pushVars
=============================================================================
