-------------------------------- MODULE MCBatch --------------------------------
(***************************************************************************)
(* The cron job: what becomes of called tickets in the long run, and what  *)
(* the minutes of a day make of its requests.  ReservationQueue and        *)
(* CallSchedule share no state; a behaviour moves one of them (part), the  *)
(* other stays as it began.                                                *)
(***************************************************************************)
EXTENDS ReservationQueue, TLC

CONSTANTS Ticks, MaxRuns

ASSUME BatchAssumption == MaxRuns \in Nat

FirstRow == {1}

VARIABLES
    part,
    phase, old, fresh, night, revived, tick, label, run, read, runs, last, previous,
    before, overtaken

scheduleVars == <<phase, old, fresh, night, revived, tick, label, run, read, runs, last,
                  previous, before, overtaken>>

Schedule == INSTANCE CallSchedule

BatchInit == Init /\ Schedule!Init /\ part \in {"queue", "schedule"}

BatchNext ==
    /\ \/ part = "queue" /\ Next /\ UNCHANGED scheduleVars
       \/ part = "schedule" /\ Schedule!Next /\ UNCHANGED vars
    /\ UNCHANGED part

BatchSpec ==
    /\ BatchInit
    /\ [][BatchNext]_<<part, vars, scheduleVars>>
    /\ part = "queue" => Fairness
-----------------------------------------------------------------------------
\* Every variable of the queue and the schedule has its type.
TypesOK == TypeOK /\ Schedule!TypeOK

\* The day before is over once a tick has come at 0:00 (queue_service.py:60).
NightIsCleared == Schedule!NightIsCleared

\* last_ and previous_ are the last two summaries (queue_service.py:483).
SummariesChain == Schedule!SummariesChain

\* No ticket stays called for ever (queue_service.py:194).
EveryCallIsResolved == part = "queue" => CalledIsResolved
=============================================================================
