------------------------------ MODULE MCMessages ------------------------------
(***************************************************************************)
(* A message's way in and out: the webhook's events, the limiters that are *)
(* asked on the way (and at the login), and the pushes to LINE.  The three *)
(* components share no state; a behaviour moves one of them (part), the    *)
(* others stay as they began.                                              *)
(***************************************************************************)
EXTENDS WebhookEvents, TLC

CONSTANTS
    Requests, Limit, Window, Day, MaxTime,
    Calls, MaxRetries

\* What config.py makes of its environment, and the age that the batch deletes at.
ASSUME LimitsAssumption ==
    /\ IsFiniteSet(Requests)
    /\ Limit \in Nat \ {0} /\ Window \in Nat \ {0}
    /\ Day \in Nat /\ Window <= Day
    /\ MaxTime \in Nat

\* LINE_PUSH_MAX_RETRIES.
ASSUME PushAssumption == MaxRetries \in Nat \ {0}

VARIABLES
    part,
    now, limiter, records, counter, expiry, where, stamp, checked, granted, spent,
    refused,
    push, attempt, flying, accepted, copies

limitVars == <<now, limiter, records, counter, expiry, where, stamp, checked, granted,
               spent, refused>>
pushVars == <<push, attempt, flying, accepted, copies>>

Limits == INSTANCE RateLimits WITH pc <- where
Push == INSTANCE LinePush WITH pc <- push

MessagesInit ==
    /\ Init /\ Limits!Init /\ Push!Init
    /\ part \in {"webhook", "limits", "push"}
    /\ part # "limits" => limiter = "login"

MessagesNext ==
    /\ \/ part = "webhook" /\ Next /\ UNCHANGED <<limitVars, pushVars>>
       \/ part = "limits" /\ Limits!Next /\ UNCHANGED <<vars, pushVars>>
       \/ part = "push" /\ Push!Next /\ UNCHANGED <<vars, limitVars>>
    /\ UNCHANGED part

MessagesSpec ==
    /\ MessagesInit
    /\ [][MessagesNext]_<<part, vars, limitVars, pushVars>>
    /\ part = "push" => Push!Fairness
-----------------------------------------------------------------------------
\* Every variable of the events, the limiters and the pushes has its type.
TypesOK == TypeOK /\ Limits!TypeOK /\ Push!TypeOK

\* What parallel attempts pass the login (main.py:389), messages the advisory
\* lock (database.py:849), and messages Redis's fixed windows (database.py:43).
LimitsHold == Limits!LimitsHold

\* Who is refused by count has had his messages counted (database.py:46).
RefusedForAReason == Limits!RefusedForAReason

\* A push delivers one copy, however often it is retried (line_service.py:315).
AtMostOneCopy == Push!AtMostOneCopy

\* A push that returns normally has been delivered (line_service.py:320).
SentIsDelivered == Push!SentIsDelivered

\* Every push returns to its handler (line_service.py:303).
PushReturns == part = "push" => Push!PushReturns
=============================================================================
