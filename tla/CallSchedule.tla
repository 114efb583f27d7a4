----------------------------- MODULE CallSchedule -----------------------------
(***************************************************************************)
(* When the cron job's request does what: the cancellation at midnight,    *)
(* the batch every five minutes, and the summaries it leaves.  Of the      *)
(* minutes of a day only 0:00 and "the others" count.  Requests may be     *)
(* missing, doubled, slow, or overlap.  Of tickets only the statuses count *)
(* that those of the day before and those of today are in; which ticket a  *)
(* sweep, claim or push concerns is in ReservationQueue.                   *)
(***************************************************************************)
EXTENDS Integers

CONSTANTS
    Ticks,      \* executions of process_queued_calls that may overlap
    MaxRuns     \* bound: batches that read the summaries

Active == {"waiting", "called"}
NoRun == 0

VARIABLES
    phase,      \* "midnight" during the minute 0:00, "day"
    old, fresh, \* statuses that tickets booked before the last 0:00, and since
                \*   then, are in
    night,      \* history: has a cancellation succeeded within the last 0:00?
    revived,    \* history: has the status screen reopened a ticket of the day
                \*   before since 0:00 and the last cancellation?
    tick,       \* where each execution is
    label,      \* what the time at its start made it
    run,        \* number of its batch
    read,       \* the summary it read as the latest one
    runs,
    last,       \* last_auto_call_*: the batch it describes, or NoRun
    previous,   \* previous_auto_call_*
    before,     \* history: what last described before the last save
    overtaken   \* history: did the last save follow another one unread?

statuses == <<old, fresh>>
line == <<statuses, night, revived>>
summaries == <<last, previous, before, overtaken>>
execution == <<tick, label, run, read>>
vars == <<phase, line, execution, runs, summaries>>

TypeOK ==
    /\ phase \in {"midnight", "day"}
    /\ old \subseteq Active /\ fresh \subseteq Active
    /\ night \in BOOLEAN /\ revived \in BOOLEAN
    /\ tick \in [Ticks -> {"idle", "begun", "due", "claiming", "calling", "saving"}]
    /\ label \in [Ticks -> {"midnight", "due", "other"}]
    /\ run \in [Ticks -> 0..MaxRuns] /\ read \in [Ticks -> 0..MaxRuns]
    /\ runs \in 0..MaxRuns
    /\ last \in 0..MaxRuns /\ previous \in 0..MaxRuns /\ before \in 0..MaxRuns
    /\ overtaken \in BOOLEAN

Init ==
    /\ phase = "day" /\ old = {} /\ fresh = {} /\ night = FALSE /\ revived = FALSE
    /\ tick = [e \in Ticks |-> "idle"] /\ label = [e \in Ticks |-> "other"]
    /\ run = [e \in Ticks |-> NoRun] /\ read = [e \in Ticks |-> NoRun]
    /\ runs = 0
    /\ last = NoRun /\ previous = NoRun /\ before = NoRun /\ overtaken = FALSE
-----------------------------------------------------------------------------
Midnight ==
    /\ phase = "day"
    /\ phase' = "midnight"
    /\ old' = old \cup fresh /\ fresh' = {}
    /\ night' = FALSE /\ revived' = FALSE
    /\ UNCHANGED <<execution, runs, summaries>>

Daybreak ==
    /\ phase = "midnight"
    /\ phase' = "day"
    /\ UNCHANGED <<line, execution, runs, summaries>>

-----------------------------------------------------------------------------
(* What one or more tickets of a line do to the set of its statuses. *)

CalledOf(S) == IF "waiting" \in S THEN {S, S \cup {"called"}, {"called"}} ELSE {S}
PutBackOf(S) == IF "called" \in S THEN {S, S \cup {"waiting"}, {"waiting"}} ELSE {S}
SweptOf(S) == {S, S \ {"called"}}
HandledOf(S) == CalledOf(S) \cup PutBackOf(S) \cup SUBSET S

Book ==
    /\ fresh' = fresh \cup {"waiting"}
    /\ UNCHANGED <<phase, old, night, revived, execution, runs, summaries>>

\* Administrators call tickets, take a call back and close tickets, customers
\* cancel them: a closed one stays closed.
Handle ==
    /\ \/ old' \in HandledOf(old) /\ UNCHANGED fresh
       \/ fresh' \in HandledOf(fresh) /\ UNCHANGED old
    /\ UNCHANGED <<phase, night, revived, execution, runs, summaries>>

\* admin_status_update makes a closed ticket active again, of whatever day.
Reopen ==
    /\ \E s \in Active : \/ /\ old' = old \cup {s} /\ revived' = TRUE
                            /\ UNCHANGED fresh
                         \/ fresh' = fresh \cup {s} /\ UNCHANGED <<old, revived>>
    /\ UNCHANGED <<phase, night, execution, runs, summaries>>
-----------------------------------------------------------------------------
Goto(e, where) ==
    /\ tick' = [tick EXCEPT ![e] = where]
    /\ UNCHANGED <<label, run, read>>

\* The request is answered; the rest are its local variables.
Leave(e) ==
    /\ tick' = [tick EXCEPT ![e] = "idle"]
    /\ label' = [label EXCEPT ![e] = "other"]
    /\ run' = [run EXCEPT ![e] = NoRun] /\ read' = [read EXCEPT ![e] = NoRun]

\* current_dt, should_run_midnight_cancel and should_run_call_batch: 0:00 is
\* one of the minutes a batch is due.
Begin(e) ==
    /\ tick[e] = "idle"
    /\ \E l \in IF phase = "midnight" THEN {"midnight"} ELSE {"due", "other"} :
          label' = [label EXCEPT ![e] = l]
    /\ tick' = [tick EXCEPT ![e] = "begun"]
    /\ UNCHANGED <<phase, line, run, read, runs, summaries>>

\* Mutant: called tickets are left to their timeout.
CancelWaitingOnly(e) ==
    /\ tick[e] = "begun" /\ label[e] = "midnight"
    /\ old' = old \ {"waiting"} /\ fresh' = fresh \ {"waiting"}
    /\ night' = (phase = "midnight" \/ night) /\ revived' = FALSE
    /\ Goto(e, "due")
    /\ UNCHANGED <<phase, runs, summaries>>

\* cancel_active_reservations_without_notification: every active ticket.
CancelAll(e) ==
    /\ tick[e] = "begun" /\ label[e] = "midnight"
    /\ old' = {} /\ fresh' = {}
    /\ night' = (phase = "midnight" \/ night) /\ revived' = FALSE
    /\ Goto(e, "due")
    /\ UNCHANGED <<phase, runs, summaries>>

\* Its UPDATE failed, which is only logged.
CancelFails(e) ==
    /\ tick[e] = "begun" /\ label[e] = "midnight"
    /\ Goto(e, "due")
    /\ UNCHANGED <<phase, line, runs, summaries>>

\* The other branch: expire_called_reservations closes the called tickets that
\* have timed out, or fails, which is only logged.  That is all if no batch is due.
Sweep(e) ==
    /\ tick[e] = "begun" /\ label[e] # "midnight"
    /\ old' \in SweptOf(old) /\ fresh' \in SweptOf(fresh)
    /\ IF label[e] = "other" THEN Leave(e) ELSE Goto(e, "due")
    /\ UNCHANGED <<phase, night, revived, runs, summaries>>

\* ensure_database_schema and get_runtime_settings.
Read(e) ==
    /\ tick[e] = "due" /\ runs < MaxRuns
    /\ runs' = runs + 1
    /\ run' = [run EXCEPT ![e] = runs + 1]
    /\ read' = [read EXCEPT ![e] = last]
    /\ tick' = [tick EXCEPT ![e] = "claiming"]
    /\ UNCHANGED <<phase, line, label, summaries>>

\* The transaction in which the batch calls waiting tickets.
Claim(e) ==
    /\ tick[e] = "claiming"
    /\ old' \in CalledOf(old) /\ fresh' \in CalledOf(fresh)
    /\ Goto(e, "calling")
    /\ UNCHANGED <<phase, night, revived, runs, summaries>>

\* Mutant: the failed ones go back whatever has become of them meanwhile.
PutBackAnyStatus(e) ==
    /\ tick[e] = "calling"
    /\ old' \in {old, old \cup {"waiting"}} /\ fresh' \in {fresh, fresh \cup {"waiting"}}
    /\ Goto(e, "saving")
    /\ UNCHANGED <<phase, night, revived, runs, summaries>>

\* After the pushes: those that failed go back if they still are called.
PutBack(e) ==
    /\ tick[e] = "calling"
    /\ old' \in PutBackOf(old) /\ fresh' \in PutBackOf(fresh)
    /\ Goto(e, "saving")
    /\ UNCHANGED <<phase, night, revived, runs, summaries>>

Saved(e, prev) ==
    /\ tick[e] = "saving"
    /\ last' = run[e] /\ previous' = prev
    /\ before' = last /\ overtaken' = (last # read[e])
    /\ Leave(e)
    /\ UNCHANGED <<phase, line, runs>>

\* Mutant: previous_summary is what the screen shows as the last one.
SaveShown(e) == Saved(e, IF previous # NoRun THEN previous ELSE read[e])

\* set_settings, one transaction.
Save(e) == Saved(e, IF read[e] # NoRun THEN read[e] ELSE previous)

\* An exception, or the end of the process.
Fail(e) ==
    /\ tick[e] # "idle"
    /\ Leave(e)
    /\ UNCHANGED <<phase, line, runs, summaries>>

Next ==
    \/ Midnight \/ Daybreak \/ Book \/ Handle \/ Reopen
    \/ \E e \in Ticks :
          \/ Begin(e) \/ CancelAll(e) \/ CancelFails(e) \/ Sweep(e)
          \/ Read(e) \/ Claim(e) \/ PutBack(e) \/ Save(e) \/ Fail(e)

Spec == Init /\ [][Next]_vars
-----------------------------------------------------------------------------
\* A cancellation within the minute 0:00 is for good: no ticket of the day
\* before is active after it, although batches that called some of them are
\* still pushing and put back what fails, unless an administrator has reopened
\* one on the status screen.  (Without one, tickets stay for another day.)
NightIsCleared == night /\ ~revived /\ phase = "day" => old = {}

\* The two summaries are those of the last two batches that saved theirs, unless
\* another batch saved between the last one's reading and saving.
SummariesChain ==
    /\ ~overtaken => previous = before
    /\ last # NoRun => previous # last
=============================================================================
