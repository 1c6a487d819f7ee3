----------------------------- MODULE TfnswClient -----------------------------
(***************************************************************************)
(* Requests to TfNSW (src/transport/tfnsw-http.client.ts): each role has a *)
(* queue that starts its requests at an interval, an answer is retried or  *)
(* not by what it says, and a retry queues again.                          *)
(*                                                                         *)
(* Time is counted in fractions of the interval of 250 ms.                 *)
(***************************************************************************)
EXTENDS Integers, Sequences, FiniteSets

CONSTANTS
    Call,          \* requests under way at one time
    Interval,      \* MIN_INTERVAL_MS
    PerSecond,     \* MAX_RPS
    MaxRetries,    \* MAX_RETRIES
    Dedicated,     \* NSW_TRANSPORT_STATIC_API_KEY is set
    MaxCalls       \* bound: calls in all

ASSUME TfnswAssumption ==
    /\ Interval \in Nat \ {0} /\ PerSecond \in Nat \ {0} /\ MaxRetries \in Nat \ {0}
    /\ Dedicated \in BOOLEAN /\ MaxCalls \in Nat

VARIABLES
    sinceStart, \* of each role: the time since lastAt, up to a second
    chain,      \* of each role: the calls that wait for a slot
    sent,       \* of each role: the calls it started within a second, and how long ago
    outgoing,   \* the progress of each call
    made        \* calls made

tfnswVars == <<sinceStart, chain, sent, outgoing, made>>

TfnswRole == {"realtime", "static"}
Second    == Interval * PerSecond
NotMade   == [pc |-> "idle", role |-> "static", attempt |-> 0, sleep |-> 0]

\* What an answer is taken for, in this order: isQuotaExhausted, isRateLimited,
\* then by status; and an error of the network.
Answers   == {"ok", "quota", "rate", "unavailable", "credential", "other", "network"}
Retried   == {"rate", "unavailable", "network"}

TfnswTypeOK ==
    /\ sinceStart \in [TfnswRole -> 0 .. Second]
    /\ \A r \in TfnswRole : \A i \in DOMAIN chain[r] : chain[r][i] \in Call
    /\ sent \in [TfnswRole -> SUBSET [call : Call, age : 0 .. Second - 1]]
    /\ \A c \in Call : /\ outgoing[c].pc \in {"idle", "queued", "sent", "backoff", "ended"}
                       /\ outgoing[c].role \in TfnswRole /\ outgoing[c].attempt \in 0 .. MaxRetries
    /\ made \in 0 .. MaxCalls

TfnswInit ==
    /\ sinceStart = [r \in TfnswRole |-> Second]
    /\ chain = [r \in TfnswRole |-> <<>>] /\ sent = [r \in TfnswRole |-> {}]
    /\ outgoing = [c \in Call |-> NotMade] /\ made = 0

\* head, getBuffer, getScheduleZip and getRealtime.
BeginCallTo(c, r) ==
    /\ outgoing[c].pc = "idle" /\ made < MaxCalls /\ made' = made + 1
    /\ outgoing' = [outgoing EXCEPT ![c] = [NotMade EXCEPT !.pc = "queued", !.role = r]]
    /\ chain' = [chain EXCEPT ![r] = Append(@, c)]
    /\ UNCHANGED <<sinceStart, sent>>

\* Mutant: whoever sleeps long enough takes a slot, measured from when it began
\* to wait.
AcquireUnchained(r) ==
    /\ chain[r] # <<>> /\ sinceStart[r] >= Interval
    /\ \E c \in {chain[r][i] : i \in DOMAIN chain[r]} :
         /\ outgoing' = [outgoing EXCEPT ![c].pc = "sent"]
         /\ chain' = [chain EXCEPT ![r] = SelectSeq(@, LAMBDA d : d # c)]
         /\ sent' = [sent EXCEPT ![r] = @ \cup {[call |-> c, age |-> 0]}]
    /\ sinceStart' = [sinceStart EXCEPT ![r] = IF Len(chain[r]) > 1 THEN @ ELSE 0]
    /\ UNCHANGED made

\* acquireSlot: the first of the chain, an interval after the last start or later;
\* then the request is sent.
AcquireSlot(r) ==
    /\ chain[r] # <<>> /\ sinceStart[r] >= Interval
    /\ outgoing' = [outgoing EXCEPT ![Head(chain[r])].pc = "sent"]
    /\ chain' = [chain EXCEPT ![r] = Tail(@)]
    /\ sinceStart' = [sinceStart EXCEPT ![r] = 0]
    /\ sent' = [sent EXCEPT ![r] = @ \cup {[call |-> Head(chain[r]), age |-> 0]}]
    /\ UNCHANGED made

\* Mutant: attempts are not counted for answers that say to slow down.
AnswerUncounted(c, answer) ==
    LET o == outgoing[c]
    IN  /\ o.pc = "sent"
        /\ outgoing' = [outgoing EXCEPT ![c] =
              IF answer \notin Retried THEN [o EXCEPT !.pc = "ended"]
              ELSE [o EXCEPT !.pc = "backoff", !.attempt = IF answer = "rate" THEN @ ELSE @ + 1,
                             !.sleep = 2 ^ o.attempt]]
        /\ UNCHANGED <<sinceStart, chain, sent, made>>

\* One way through the loop: the call ends with the response or with 503, or backs
\* off for a second, two, four, up to a minute, after the last attempt too.
ReceiveAnswer(c, answer) ==
    LET o == outgoing[c]
    IN  /\ o.pc = "sent"
        /\ outgoing' = [outgoing EXCEPT ![c] =
              IF answer \notin Retried THEN [o EXCEPT !.pc = "ended"]
              ELSE [o EXCEPT !.pc = "backoff", !.attempt = @ + 1, !.sleep = 2 ^ o.attempt]]
        /\ UNCHANGED <<sinceStart, chain, sent, made>>

\* After the sleep, in seconds: the next attempt queues behind the others, or the
\* attempts are used up.
WakeUp(c) ==
    LET o == outgoing[c]
        last == o.attempt = MaxRetries
    IN  /\ o.pc = "backoff" /\ o.sleep = 0
        /\ outgoing' = [outgoing EXCEPT ![c].pc = IF last THEN "ended" ELSE "queued"]
        /\ chain' = IF last THEN chain ELSE [chain EXCEPT ![o.role] = Append(@, c)]
        /\ UNCHANGED <<sinceStart, sent, made>>

EndCall(c) ==
    /\ outgoing[c].pc = "ended" /\ outgoing' = [outgoing EXCEPT ![c] = NotMade]
    /\ UNCHANGED <<sinceStart, chain, sent, made>>

\* A tick.  The backoff is counted down in ticks instead of seconds, which lets a
\* retry come earlier, never later, than in the code.
TfnswTick ==
    /\ sinceStart' = [r \in TfnswRole |-> IF sinceStart[r] < Second THEN sinceStart[r] + 1 ELSE Second]
    /\ sent' = [r \in TfnswRole |->
                  {[s EXCEPT !.age = @ + 1] : s \in {s \in sent[r] : s.age + 1 < Second}}]
    /\ outgoing' = [c \in Call |-> IF outgoing[c].sleep = 0 THEN outgoing[c]
                                   ELSE [outgoing[c] EXCEPT !.sleep = @ - 1]]
    /\ UNCHANGED <<chain, made>>

TfnswNext ==
    \/ \E c \in Call, r \in TfnswRole : BeginCallTo(c, r)
    \/ \E r \in TfnswRole : AcquireSlot(r)
    \/ \E c \in Call, a \in Answers : ReceiveAnswer(c, a)
    \/ \E c \in Call : WakeUp(c) \/ EndCall(c)
    \/ TfnswTick

TfnswSpec == TfnswInit /\ [][TfnswNext]_tfnswVars

\* Timers fire, and a request is answered or times out.
TfnswFairness ==
    /\ WF_tfnswVars(TfnswTick)
    /\ \A r \in TfnswRole : WF_tfnswVars(AcquireSlot(r))
    /\ \A c \in Call : /\ WF_tfnswVars(\E a \in Answers : ReceiveAnswer(c, a))
                       /\ WF_tfnswVars(WakeUp(c))

-----------------------------------------------------------------------------
(* Properties. *)

\* The key a role presents: keys.static falls back to the realtime key.
KeyFor(r) == IF Dedicated THEN r ELSE "realtime"

\* However calls and retries come, no key is used for more requests within a second
\* than MAX_RPS for each queue that presents it: four, or eight if the
\* static role has no key of its own (acquireSlot).
PacedStarts ==
    \A key \in TfnswRole :
      LET roles == {r \in TfnswRole : KeyFor(r) = key}
          started == [r \in TfnswRole |-> IF r \in roles THEN Cardinality(sent[r]) ELSE 0]
      IN  started["realtime"] + started["static"] <= PerSecond * Cardinality(roles)

\* Every call ends, whatever TfNSW answers and whoever else queues
\* (requestWithRetry, eight attempts).
EveryCallEnds == \A c \in Call : outgoing[c].pc = "queued" ~> outgoing[c].pc = "ended"
=============================================================================
