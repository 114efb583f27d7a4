-------------------------- MODULE ReservationQueue --------------------------
(***************************************************************************)
(* The reservations table and everything that moves a row of it: the LINE  *)
(* commands of customers, the administrator's buttons, and the cron batch  *)
(* process_queued_calls.  Transactions are READ COMMITTED; an UPDATE that  *)
(* rechecks its own WHERE clause on the locked row is one step, a call to  *)
(* LINE is a step of its own because it runs outside every transaction.    *)
(***************************************************************************)
EXTENDS Integers, FiniteSets

CONSTANTS
    Users,         \* LINE user ids
    Owners,        \* admin accounts that own reservation types
    Nobody,        \* NULL in the columns user_id and owner_admin_id
    MaxId,         \* bound: rows ever inserted
    Admins,        \* bound: concurrent executions of admin_call
    Runners,       \* bound: concurrent executions of process_queued_calls
    Timeout,       \* CALL_TIMEOUT_MINUTES
    MaxAutoCount,  \* bound: the largest auto_call_count of an owner
    Editable       \* bound: rows the status screen may edit

Ids == 1..MaxId
Callers == Admins \cup Runners
Active == {"waiting", "called"}
Terminal == {"done", "cancelled"}
NoStamp == -1
Stamps == {NoStamp} \cup 0..Timeout

ASSUME ConstantsAssumption ==
    /\ Nobody \notin Users \cup Owners
    /\ MaxId \in Nat
    /\ Timeout \in Nat \ {0}
    /\ MaxAutoCount \in Nat
    /\ Admins \cap Runners = {}
    /\ Editable \subseteq Ids

VARIABLES
    nextId,      \* the SERIAL column: the id of the next row
    user,        \* user_id
    owner,       \* owner_admin_id
    status,      \* "none" when there is no such row
    age,         \* minutes since called_at, saturating; NoStamp for NULL
    origin,      \* call_origin, "none" for NULL
    completed,   \* completed_at IS NOT NULL
    pc,          \* where each execution of a calling handler stands
    todo,        \* its rows still to be pushed to LINE
    failed,      \* its rows whose push raised
    cancelling,  \* row picked by a user's cancel statement in progress, or 0
    heard,       \* history: minutes since LINE accepted the notice of a call
    reopened,    \* history: rows the status screen made active
    orphaned     \* history: called rows whose caller died or gave up

rowVars == <<user, owner, status, age, origin, completed>>
callVars == <<pc, todo, failed>>
history == <<heard, reopened, orphaned>>
vars == <<nextId, rowVars, callVars, cancelling, history>>

Held(c) == todo[c] \cup failed[c]
IsActive(i) == status[i] \in Active

TypeOK ==
    /\ nextId \in 1..(MaxId + 1)
    /\ user \in [Ids -> Users \cup {Nobody}]
    /\ owner \in [Ids -> Owners \cup {Nobody}]
    /\ status \in [Ids -> {"none"} \cup Active \cup Terminal]
    /\ age \in [Ids -> Stamps]
    /\ origin \in [Ids -> {"none", "auto", "manual"}]
    /\ completed \in [Ids -> BOOLEAN]
    /\ pc \in [Callers -> {"idle", "swept", "push"}]
    /\ todo \in [Callers -> SUBSET Ids]
    /\ failed \in [Callers -> SUBSET Ids]
    /\ cancelling \in [Users -> {0} \cup Ids]
    /\ heard \in [Ids -> Stamps]
    /\ reopened \in SUBSET Ids
    /\ orphaned \in SUBSET Ids

Init ==
    /\ nextId = 1
    /\ user = [i \in Ids |-> Nobody]
    /\ owner = [i \in Ids |-> Nobody]
    /\ status = [i \in Ids |-> "none"]
    /\ age = [i \in Ids |-> NoStamp]
    /\ origin = [i \in Ids |-> "none"]
    /\ completed = [i \in Ids |-> FALSE]
    /\ pc = [c \in Callers |-> "idle"]
    /\ todo = [c \in Callers |-> {}]
    /\ failed = [c \in Callers |-> {}]
    /\ cancelling = [u \in Users |-> 0]
    /\ heard = [i \in Ids |-> NoStamp]
    /\ reopened = {}
    /\ orphaned = {}
-----------------------------------------------------------------------------
(* Updates of the table shared by the handlers. *)

\* Mutant: the predicate of the index covers waiting rows only.
IndexAdmitsAfterCall(u, i) ==
    \A j \in Ids \ {i} : user[j] = u => status[j] # "waiting"

\* uq_reservations_user_active: row i of user u may be waiting or called.
IndexAdmits(u, i) == \A j \in Ids \ {i} : user[j] = u => ~IsActive(j)

\* Mutant: called_at is left NULL.
ClaimWithoutStamp(c, S, how) ==
    /\ status' = [i \in Ids |-> IF i \in S THEN "called" ELSE status[i]]
    /\ origin' = [i \in Ids |-> IF i \in S THEN how ELSE origin[i]]
    /\ heard' = [i \in Ids |-> IF i \in S THEN NoStamp ELSE heard[i]]
    /\ todo' = [todo EXCEPT ![c] = S]
    /\ pc' = [pc EXCEPT ![c] = IF S = {} THEN "idle" ELSE "push"]
    /\ UNCHANGED <<nextId, user, owner, age, completed, failed, cancelling,
                   reopened, orphaned>>

\* UPDATE ... SET status = how, completed_at = CURRENT_TIMESTAMP on rows S.
Close(S, how) ==
    /\ status' = [i \in Ids |-> IF i \in S THEN how ELSE status[i]]
    /\ completed' = [i \in Ids |-> IF i \in S THEN TRUE ELSE completed[i]]
    /\ heard' = [i \in Ids |-> IF i \in S THEN NoStamp ELSE heard[i]]
    /\ UNCHANGED <<nextId, user, owner, age, origin, reopened, orphaned>>

\* UPDATE ... SET status = called, called_at = CURRENT_TIMESTAMP,
\* call_origin = how on rows S, for which c then owes a push each.
Claim(c, S, how) ==
    /\ status' = [i \in Ids |-> IF i \in S THEN "called" ELSE status[i]]
    /\ age' = [i \in Ids |-> IF i \in S THEN 0 ELSE age[i]]
    /\ origin' = [i \in Ids |-> IF i \in S THEN how ELSE origin[i]]
    /\ heard' = [i \in Ids |-> IF i \in S THEN NoStamp ELSE heard[i]]
    /\ todo' = [todo EXCEPT ![c] = S]
    /\ pc' = [pc EXCEPT ![c] = IF S = {} THEN "idle" ELSE "push"]
    /\ UNCHANGED <<nextId, user, owner, completed, failed, cancelling,
                   reopened, orphaned>>

\* What a rollback does to the rows `back`.
ToWaiting(back) ==
    /\ status' = [i \in Ids |-> IF i \in back THEN "waiting" ELSE status[i]]
    /\ age' = [i \in Ids |-> IF i \in back THEN NoStamp ELSE age[i]]
    /\ origin' = [i \in Ids |-> IF i \in back THEN "none" ELSE origin[i]]
    /\ heard' = [i \in Ids |-> IF i \in back THEN NoStamp ELSE heard[i]]
    /\ UNCHANGED <<nextId, user, owner, completed, reopened, orphaned>>

\* Mutant: without AND status = called.
PutBackAnyStatus(S) == ToWaiting({i \in S : status[i] # "none"})

\* Mutant: without the condition on id.
PutBackAllCalled(S) == ToWaiting({i \in Ids : status[i] = "called"})

\* Mutant: called_at and call_origin keep their values.
PutBackKeepsStamp(S) ==
    /\ status' = [i \in Ids |-> IF i \in S /\ status[i] = "called"
                                THEN "waiting" ELSE status[i]]
    /\ heard' = [i \in Ids |-> IF i \in S THEN NoStamp ELSE heard[i]]
    /\ UNCHANGED <<nextId, user, owner, age, origin, completed,
                   reopened, orphaned>>

\* UPDATE ... SET status = waiting, called_at = NULL, call_origin = NULL
\* WHERE id = ANY(S) AND status = called.
PutBack(S) == ToWaiting({i \in S : status[i] = "called"})
-----------------------------------------------------------------------------
(* Customers: process_reservation. *)

\* INSERT of a row for u; uq_reservations_user_active admits it only when u
\* has no other active row, and on a conflict the transaction rolls back.
Reserve(u, o) ==
    /\ nextId <= MaxId
    /\ IndexAdmits(u, nextId)
    /\ nextId' = nextId + 1
    /\ user' = [user EXCEPT ![nextId] = u]
    /\ owner' = [owner EXCEPT ![nextId] = o]
    /\ status' = [status EXCEPT ![nextId] = "waiting"]
    /\ UNCHANGED <<age, origin, completed, callVars, cancelling, history>>

\* The subquery of the cancel UPDATE picks the newest active row of u ...
UserCancelFind(u) ==
    /\ cancelling[u] = 0
    /\ \E i \in Ids :
          /\ user[i] = u /\ IsActive(i)
          /\ \A j \in Ids : user[j] = u /\ IsActive(j) => j <= i
          /\ cancelling' = [cancelling EXCEPT ![u] = i]
    /\ UNCHANGED <<nextId, rowVars, callVars, history>>

\* ... and the outer UPDATE then locks that id and writes it without looking
\* at its status again; a row deleted meanwhile matches nothing.
UserCancelWrite(u) ==
    /\ cancelling[u] # 0
    /\ Close({cancelling[u]} \cap {i \in Ids : status[i] # "none"}, "cancelled")
    /\ cancelling' = [cancelling EXCEPT ![u] = 0]
    /\ UNCHANGED callVars

\* The webhook thread dies, or its transaction fails, before the commit.
UserCancelLost(u) ==
    /\ cancelling[u] # 0
    /\ cancelling' = [cancelling EXCEPT ![u] = 0]
    /\ UNCHANGED <<nextId, rowVars, callVars, history>>
-----------------------------------------------------------------------------
(* Administrators. *)

\* Mutant: the row is claimed whether or not it has been called already.
AdminCallAnyActive(a, i) ==
    /\ pc[a] = "idle"
    /\ IsActive(i)
    /\ Claim(a, {i}, "manual")

\* admin_call, first transaction: claim the waiting row, commit, then push.
AdminCall(a, i) ==
    /\ pc[a] = "idle"
    /\ status[i] = "waiting"
    /\ Claim(a, {i}, "manual")

AdminFinish(i) ==
    /\ status[i] = "called"
    /\ Close({i}, "done")
    /\ UNCHANGED <<callVars, cancelling>>

AdminCancel(i) ==
    /\ IsActive(i)
    /\ Close({i}, "cancelled")
    /\ UNCHANGED <<callVars, cancelling>>

\* Mutant: the form also accepts a status of an earlier release.
EditTargetsUnchecked == Active \cup Terminal \cup {"queued_call"}

\* allowed_statuses of the status screen.
EditTargets == Active \cup Terminal

\* The status screen sets any status, without a LINE notice.  The unique
\* index on active rows refuses a second active row of the same user.
AdminStatusUpdate(i, new) ==
    /\ i \in Editable
    /\ status[i] # "none"
    /\ new \in Active => IndexAdmits(user[i], i)
    /\ status' = [status EXCEPT ![i] = new]
    /\ age' = [age EXCEPT ![i] = CASE new = "called" /\ @ = NoStamp -> 0
                                   [] new = "waiting" -> NoStamp
                                   [] OTHER -> @]
    /\ origin' = [origin EXCEPT ![i] =
                     CASE new = "called" /\ @ = "none" -> "manual"
                       [] new = "waiting" -> "none"
                       [] OTHER -> @]
    /\ completed' = [completed EXCEPT ![i] = new \in Terminal]
    /\ heard' = [heard EXCEPT ![i] = IF new = "called" THEN @ ELSE NoStamp]
    /\ reopened' = IF new \in Active THEN reopened \cup {i} ELSE reopened
    /\ UNCHANGED <<nextId, user, owner, callVars, cancelling, orphaned>>

\* admin_delete_all_reservations: DELETE FROM reservations.
DeleteAll ==
    /\ \E i \in Ids : status[i] # "none"
    /\ user' = [i \in Ids |-> Nobody]
    /\ owner' = [i \in Ids |-> Nobody]
    /\ status' = [i \in Ids |-> "none"]
    /\ age' = [i \in Ids |-> NoStamp]
    /\ origin' = [i \in Ids |-> "none"]
    /\ completed' = [i \in Ids |-> FALSE]
    /\ heard' = [i \in Ids |-> NoStamp]
    /\ UNCHANGED <<nextId, callVars, cancelling, reopened, orphaned>>
-----------------------------------------------------------------------------
(* The cron batch: process_queued_calls. *)

Sweep(r) ==
    /\ pc[r] = "idle"
    /\ pc' = [pc EXCEPT ![r] = "swept"]
    /\ UNCHANGED <<todo, failed, cancelling>>

\* expire_called_reservations: called rows whose called_at is Timeout old.
Expire(r) ==
    /\ Sweep(r)
    /\ Close({i \in Ids : status[i] = "called" /\ age[i] >= Timeout},
             "cancelled")

\* cancel_active_reservations_without_notification, in the minute 0:00.
MidnightCancel(r) ==
    /\ Sweep(r)
    /\ Close({i \in Ids : IsActive(i)}, "cancelled")

\* Both sweeps swallow a database error and the batch goes on.
SweepFails(r) ==
    /\ Sweep(r)
    /\ UNCHANGED <<nextId, rowVars, history>>

\* minute % 5 # 0: the handler returns "not_due".
NotDue(r) ==
    /\ pc[r] = "swept"
    /\ pc' = [pc EXCEPT ![r] = "idle"]
    /\ UNCHANGED <<nextId, rowVars, todo, failed, cancelling, history>>

\* The oldest `count` waiting rows of each owner, those locked by another
\* transaction left out (FOR UPDATE SKIP LOCKED ... LIMIT).
OldestWaiting(locked, count) ==
    LET free == {i \in Ids : status[i] = "waiting"} \ locked
    IN  {i \in free :
            Cardinality({j \in free : owner[j] = owner[i] /\ j < i})
                < count[owner[i]]}

\* One transaction claims the rows of every owner and commits.
AutoCall(r) ==
    /\ pc[r] = "swept"
    /\ \E count \in [Owners -> 0..MaxAutoCount], locked \in SUBSET Ids :
          Claim(r, OldestWaiting(locked, count), "auto")
-----------------------------------------------------------------------------
(* The pushes that follow a claim, outside every transaction. *)

PushDelivered(c, i) ==
    /\ pc[c] = "push"
    /\ i \in todo[c]
    /\ todo' = [todo EXCEPT ![c] = @ \ {i}]
    /\ heard' = [heard EXCEPT ![i] = IF status[i] = "called" THEN 0 ELSE @]
    /\ UNCHANGED <<nextId, rowVars, pc, failed, cancelling, reopened, orphaned>>

\* Mutant: the failure is logged but the row is not remembered.
PushFailedForgotten(c, i) ==
    /\ pc[c] = "push"
    /\ i \in todo[c]
    /\ todo' = [todo EXCEPT ![c] = @ \ {i}]
    /\ UNCHANGED <<nextId, rowVars, pc, failed, cancelling, history>>

\* send_push_message raised after its retries.
PushFailed(c, i) ==
    /\ pc[c] = "push"
    /\ i \in todo[c]
    /\ todo' = [todo EXCEPT ![c] = @ \ {i}]
    /\ failed' = [failed EXCEPT ![c] = @ \cup {i}]
    /\ UNCHANGED <<nextId, rowVars, pc, cancelling, history>>

Finish(c) ==
    /\ pc[c] = "push" /\ todo[c] = {}
    /\ pc' = [pc EXCEPT ![c] = "idle"]
    /\ failed' = [failed EXCEPT ![c] = {}]

\* Every push went through: nothing to put back.
AllSent(c) ==
    /\ Finish(c)
    /\ failed[c] = {}
    /\ UNCHANGED <<nextId, rowVars, todo, cancelling, history>>

\* Second transaction: the failed rows that are still called go back.
RollBack(c) ==
    /\ Finish(c)
    /\ failed[c] # {}
    /\ PutBack(failed[c])
    /\ UNCHANGED <<todo, cancelling>>

\* c stops here: what it still holds in "called" will not be put back.
Abandon(c) ==
    /\ pc' = [pc EXCEPT ![c] = "idle"]
    /\ todo' = [todo EXCEPT ![c] = {}]
    /\ failed' = [failed EXCEPT ![c] = {}]
    /\ orphaned' = orphaned \cup {i \in Held(c) : status[i] = "called"}
    /\ UNCHANGED <<nextId, rowVars, cancelling, heard, reopened>>

\* The second transaction fails: the exception leaves the handler.
RollBackFails(c) ==
    /\ pc[c] = "push" /\ todo[c] = {} /\ failed[c] # {}
    /\ Abandon(c)

\* The worker is killed (deployment, gunicorn's worker timeout) in mid-batch.
Crash(c) ==
    /\ pc[c] # "idle"
    /\ Abandon(c)
-----------------------------------------------------------------------------
\* A minute passes.
ClockTick ==
    LET older(s) == IF s \in 0..(Timeout - 1) THEN s + 1 ELSE s IN
    /\ \E i \in Ids : age[i] \in 0..(Timeout - 1)
    /\ age' = [i \in Ids |-> older(age[i])]
    /\ heard' = [i \in Ids |-> older(heard[i])]
    /\ UNCHANGED <<nextId, user, owner, status, origin, completed, callVars,
                   cancelling, reopened, orphaned>>

UserNext == \E u \in Users :
    \/ \E o \in Owners : Reserve(u, o)
    \/ UserCancelFind(u)
    \/ UserCancelWrite(u)
    \/ UserCancelLost(u)

AdminNext == \E i \in Ids :
    \/ \E a \in Admins : AdminCall(a, i)
    \/ AdminFinish(i)
    \/ AdminCancel(i)
    \/ \E new \in EditTargets : AdminStatusUpdate(i, new)

RunnerNext == \E r \in Runners :
    \/ Expire(r)
    \/ MidnightCancel(r)
    \/ SweepFails(r)
    \/ NotDue(r)
    \/ AutoCall(r)

CallerNext == \E c \in Callers :
    \/ \E i \in Ids : PushDelivered(c, i) \/ PushFailed(c, i)
    \/ AllSent(c)
    \/ RollBack(c)
    \/ RollBackFails(c)
    \/ Crash(c)

Next == UserNext \/ AdminNext \/ DeleteAll \/ RunnerNext \/ CallerNext
        \/ ClockTick

Spec == Init /\ [][Next]_vars
-----------------------------------------------------------------------------
(* Safety. *)

\* A user holds at most one waiting or called ticket, through concurrent
\* commands, calls put back after a failed push and edits that reopen a row.
OneActivePerUser ==
    \A i, j \in Ids :
        IsActive(i) /\ IsActive(j) /\ user[i] = user[j] => i = j

\* The timestamps tell the same story as the status on every path into it:
\* a called row has called_at (else it would never expire) and an origin, a
\* waiting row has neither, exactly the closed rows have completed_at, and a
\* notice is never older than its call.
StampsMatchStatus ==
    \A i \in Ids :
        /\ age[i] = NoStamp <=> origin[i] = "none"
        /\ status[i] = "called" => age[i] # NoStamp
        /\ status[i] \in {"none", "waiting"} => age[i] = NoStamp
        /\ completed[i] <=> status[i] \in Terminal
        /\ heard[i] # NoStamp => status[i] = "called"
        /\ i \notin reopened => heard[i] <= age[i]

\* Claiming rows before pushing keeps two batches, or a batch and an
\* administrator, from notifying the same ticket: nobody else holds a row
\* that one of them still has to push or put back (status screen aside).
ExclusiveCallers ==
    \A c, d \in Callers :
        c # d => Held(c) \cap Held(d) \subseteq reopened

\* A called ticket is not silently called: its customer has been notified,
\* or a handler still owes the push or the rollback, or it was edited on the
\* status screen, or the handler that called it died.
NoSilentCall ==
    \A i \in Ids :
        status[i] = "called" =>
            \/ heard[i] # NoStamp
            \/ \E c \in Callers : i \in Held(c)
            \/ i \in reopened \cup orphaned

\* Once LINE has accepted the notice of a call, no rollback, of this or any
\* other handler, takes the ticket back to waiting; only the status screen.
ConfirmedCallStands ==
    [][\A i \in Ids :
          heard[i] # NoStamp /\ status'[i] = "waiting" => i \in reopened']_vars

\* What the queue promises about each ticket (module TicketLifecycle).
Phase == [i \in Ids |->
            CASE i >= nextId                      -> "absent"
              [] i < nextId /\ i \in reopened \cup orphaned -> "released"
              [] OTHER ->
                 CASE status[i] = "none"          -> "erased"
                   [] status[i] = "waiting"       -> "waiting"
                   [] status[i] \in Terminal      -> "closed"
                   [] status[i] = "called" /\ heard[i] # NoStamp -> "told"
                   [] status[i] = "called" /\ heard[i] = NoStamp -> "calling"]

Lifecycle == INSTANCE TicketLifecycle WITH Tickets <- Ids, phase <- Phase

\* Every step of the queue is a step of the ticket life cycle: closed tickets
\* stay closed, confirmed calls are not withdrawn, nothing is called twice.
ImplementsLifecycle == Lifecycle!Spec
-----------------------------------------------------------------------------
(* Statements of the repository that the code does not meet. *)

\* The cancel command acts on a ticket that is waiting or called; a visit an
\* administrator has finished is not turned into a cancellation.
FinishedVisitStaysDone ==
    [][\A i \in Ids \ reopened' :
          status[i] = "done" => status'[i] # "cancelled"]_vars
-----------------------------------------------------------------------------
(* Liveness. *)

\* A handler that has claimed rows goes on by itself: each push returns or
\* raises after bounded retries, and the handler then ends or fails.
CallerStep(c) ==
    \/ \E i \in Ids : PushDelivered(c, i) \/ PushFailed(c, i)
    \/ AllSent(c) \/ RollBack(c) \/ RollBackFails(c)

RunnerStep(r) == NotDue(r) \/ AutoCall(r)

\* Time passes, handlers run on, and the cron runner keeps calling the batch
\* outside 0:00 with the database answering now and then.
Fairness ==
    /\ WF_vars(ClockTick)
    /\ \A c \in Callers : WF_vars(CallerStep(c))
    /\ \A r \in Runners : WF_vars(RunnerStep(r))
    /\ SF_vars(\E r \in Runners : Expire(r))
FairSpec == Spec /\ Fairness

\* No ticket stays in "called" for ever, even when its handler crashed before
\* or after the push: it is finished, cancelled, put back, or it times out.
CalledIsResolved ==
    \A i \in Ids : status[i] = "called" ~> status[i] # "called"
=============================================================================
