------------------------------- MODULE LinePush -------------------------------
(***************************************************************************)
(* send_push_message and send_broadcast_message: up to MaxRetries attempts *)
(* with one retry key for the whole call.  LINE and the network are        *)
(* external: a request may arrive late, after the attempt has been given   *)
(* up, or never; LINE delivers a key once and answers 409 to its           *)
(* repetitions; an answer, or an error after the acceptance, may be lost.  *)
(***************************************************************************)
EXTENDS Integers

CONSTANTS
    Calls,      \* calls of send_push_message, each with its own message
    MaxRetries  \* LINE_PUSH_MAX_RETRIES

Attempts == 1..MaxRetries

VARIABLES
    pc,        \* where each call is
    attempt,   \* its loop variable
    flying,    \* attempts whose request LINE has not seen yet
    accepted,  \* retry keys LINE has accepted
    copies     \* messages delivered to the customer

vars == <<pc, attempt, flying, accepted, copies>>

Returned == {"sent", "failed"}

\* Mutant: uuid4() inside the loop.
KeyPerAttempt(c, a) == <<c, a>>

\* stable_retry_key.
Key(c, a) == <<c, 1>>

Keys == {Key(c, a) : c \in Calls, a \in Attempts}

TypeOK ==
    /\ pc \in [Calls -> {"ready", "waiting", "sleeping"} \cup Returned]
    /\ attempt \in [Calls -> Attempts]
    /\ flying \in [Calls -> SUBSET Attempts]
    /\ accepted \subseteq Keys
    /\ copies \in [Calls -> Nat]

Init ==
    /\ pc = [c \in Calls |-> "ready"]
    /\ attempt = [c \in Calls |-> 1]
    /\ flying = [c \in Calls |-> {}]
    /\ accepted = {}
    /\ copies = [c \in Calls |-> 0]
-----------------------------------------------------------------------------
\* POST with the retry key.
Attempt(c) ==
    /\ pc[c] = "ready"
    /\ pc' = [pc EXCEPT ![c] = "waiting"]
    /\ flying' = [flying EXCEPT ![c] = @ \cup {attempt[c]}]
    /\ UNCHANGED <<attempt, accepted, copies>>

\* Mutant: every answer below 500 counts as accepted.
AcceptedBelow500 == {"ok", "conflict", "refused"}

\* Answers that end a call well: 2xx, and 409 for a key already accepted.
AcceptedAnswers == {"ok", "conflict"}

\* attempt >= LINE_PUSH_MAX_RETRIES.
Exhausted(c) == attempt[c] >= MaxRetries

\* What the loop makes of an answer; "transient" is 429, 5xx, or no status.
Handle(c, answer) ==
    pc' = [pc EXCEPT ![c] =
             IF answer \in AcceptedAnswers THEN "sent"
             ELSE IF Exhausted(c) \/ answer = "refused" THEN "failed"
             ELSE "sleeping"]

\* LINE handles the request of attempt a: a new key may be accepted (even if
\* the answer is an error), an accepted one never is again.
LineAnswers(c, a) ==
    /\ a \in flying[c]
    /\ flying' = [flying EXCEPT ![c] = @ \ {a}]
    /\ \E answer \in {"ok", "conflict", "refused", "transient"}, take \in BOOLEAN :
         /\ Key(c, a) \in accepted => answer \in {"conflict", "transient"} /\ ~take
         /\ Key(c, a) \notin accepted =>
              /\ answer # "conflict"
              /\ answer = "ok" => take
              /\ answer = "refused" => ~take
         /\ IF take
            THEN /\ accepted' = accepted \cup {Key(c, a)}
                 /\ copies' = [copies EXCEPT ![c] = @ + 1]
            ELSE UNCHANGED <<accepted, copies>>
         /\ \/ pc[c] = "waiting" /\ attempt[c] = a /\ Handle(c, answer)
            \/ UNCHANGED pc                 \* nobody waits for it, or it is lost
    /\ UNCHANGED attempt

\* The attempt raises without a status while its request may still be under way.
NoAnswer(c) ==
    /\ pc[c] = "waiting"
    /\ Handle(c, "transient")
    /\ UNCHANGED <<attempt, flying, accepted, copies>>

RequestLost(c, a) ==
    /\ a \in flying[c]
    /\ flying' = [flying EXCEPT ![c] = @ \ {a}]
    /\ UNCHANGED <<pc, attempt, accepted, copies>>

\* Mutant: the loop variable is not advanced.
WakeSameAttempt(c) ==
    /\ pc[c] = "sleeping"
    /\ pc' = [pc EXCEPT ![c] = "ready"]
    /\ UNCHANGED <<attempt, flying, accepted, copies>>

\* time.sleep is over.
Wake(c) ==
    /\ pc[c] = "sleeping"
    /\ pc' = [pc EXCEPT ![c] = "ready"]
    /\ attempt' = [attempt EXCEPT ![c] = @ + 1]
    /\ UNCHANGED <<flying, accepted, copies>>

Next ==
    \E c \in Calls :
        \/ Attempt(c) \/ NoAnswer(c) \/ Wake(c)
        \/ \E a \in Attempts : LineAnswers(c, a) \/ RequestLost(c, a)

Spec == Init /\ [][Next]_vars

\* A thread runs on, and an attempt without an answer ends some time: the SDK
\* is given no timeout, but the network or gunicorn gives up.
CallStep(c) == Attempt(c) \/ NoAnswer(c) \/ Wake(c)
Fairness == \A c \in Calls : WF_vars(CallStep(c))
FairSpec == Spec /\ Fairness
-----------------------------------------------------------------------------
\* 同じリトライキーで受理済み。重複送信は行われていない: however often it is
\* retried, and however late its requests arrive, a call delivers one copy.
AtMostOneCopy == \A c \in Calls : copies[c] <= 1

\* A call that returns normally has delivered its message, 409 included.
SentIsDelivered == \A c \in Calls : pc[c] = "sent" => copies[c] = 1

\* Every call returns to its handler.
PushReturns == \A c \in Calls : <>(pc[c] \in Returned)
=============================================================================
