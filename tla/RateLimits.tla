------------------------------ MODULE RateLimits ------------------------------
(***************************************************************************)
(* The three limiters: wrong passwords of one IP address, and messages of  *)
(* one LINE user, counted in a table or in Redis.  All of them see the     *)
(* same clock, here in units that divide the window; who checks, who       *)
(* records, and when, is what they differ in.                              *)
(***************************************************************************)
EXTENDS Integers, FiniteSets

CONSTANTS
    Requests,   \* threads with a request of this address or user
    Limit,      \* LOGIN_MAX_ATTEMPTS, USER_REQUEST_RATE_LIMIT_COUNT
    Window,     \* LOGIN_WINDOW_SECONDS, USER_REQUEST_RATE_LIMIT_WINDOW_SECONDS
    Day,        \* age at which the batch deletes records; no window is longer
    MaxTime     \* bound of the clock

Time == 0..MaxTime
Never == -1

VARIABLES
    now,
    limiter,    \* "login", "table" or "redis": which of them is looked at
    records,    \* rows of the limiter's table, by time stamp
    counter,    \* user:rate:<id> in Redis, 0 when there is no such key
    expiry,     \* when Redis drops the key
    pc,
    stamp,      \* login: when the password was tried;
                \*   table: CURRENT_TIMESTAMP, the start of the transaction
    checked,    \* table: when the records were counted
    granted,    \* history: messages let through, and wrong passwords recorded
    spent,      \* history: messages Redis counted below the limit, the
                \*   granted ones and those whose answer was lost
    refused     \* history: when Redis last refused by count

vars == <<now, limiter, records, counter, expiry, pc, stamp, checked,
          granted, spent, refused>>
redis == <<counter, expiry>>
history == <<granted, spent, refused>>

TypeOK ==
    /\ now \in Time
    /\ limiter \in {"login", "table", "redis"}
    /\ records \in [Time -> Nat]
    /\ counter \in 0..(Limit + 1) /\ expiry \in 0..(MaxTime + Window)
    /\ pc \in [Requests -> {"idle", "try", "record", "arrived", "insert"}]
    /\ stamp \in [Requests -> Time] /\ checked \in [Requests -> Time]
    /\ granted \in [Time -> Nat] /\ spent \in [Time -> Nat]
    /\ refused \in Time \cup {Never}

Init ==
    /\ now = 0
    /\ limiter \in {"login", "table", "redis"}
    /\ records = [t \in Time |-> 0]
    /\ counter = 0 /\ expiry = 0
    /\ pc = [r \in Requests |-> "idle"]
    /\ stamp = [r \in Requests |-> 0] /\ checked = [r \in Requests |-> 0]
    /\ granted = [t \in Time |-> 0] /\ spent = [t \in Time |-> 0]
    /\ refused = Never

\* The rows that f counts, of the moments in S.
RowsOf(f, S) == UNION {{s} \X (1..f[s]) : s \in S}

\* How many of them fall into the window that ends with t.
WindowTo(t) == {s \in Time : t - Window < s /\ s <= t}
InWindow(f, t) == Cardinality(RowsOf(f, WindowTo(t)))

More(f, t) == [f EXCEPT ![t] = @ + 1]
Goto(r, label) == pc' = [pc EXCEPT ![r] = label]

\* The request is answered; stamp and checked are its local variables.
Done(r) ==
    /\ Goto(r, "idle")
    /\ stamp' = [stamp EXCEPT ![r] = 0]
    /\ checked' = [checked EXCEPT ![r] = 0]
-----------------------------------------------------------------------------
Tick ==
    /\ now < MaxTime
    /\ now' = now + 1
    /\ UNCHANGED <<limiter, records, redis, pc, stamp, checked, history>>

\* cleanup_rate_limit_records, at the start of each batch.
Cleanup ==
    /\ records' = [t \in Time |-> IF t < now - Day THEN 0 ELSE records[t]]
    /\ UNCHANGED <<now, limiter, redis, pc, stamp, checked, history>>
-----------------------------------------------------------------------------
(* login *)

\* Mutant: one attempt more than configured.
LoginCheckOneMore(r) ==
    /\ limiter = "login" /\ pc[r] = "idle"
    /\ InWindow(records, now) <= Limit
    /\ Goto(r, "try")
    /\ UNCHANGED <<now, limiter, records, redis, stamp, checked, history>>

\* is_login_rate_limited: a SELECT of its own.  429 changes nothing.
LoginCheck(r) ==
    /\ limiter = "login" /\ pc[r] = "idle"
    /\ InWindow(records, now) < Limit
    /\ Goto(r, "try")
    /\ UNCHANGED <<now, limiter, records, redis, stamp, checked, history>>

\* authenticate_admin_account finds no account of that name and password.
LoginWrong(r) ==
    /\ pc[r] = "try"
    /\ stamp' = [stamp EXCEPT ![r] = now]
    /\ Goto(r, "record")
    /\ UNCHANGED <<now, limiter, records, redis, checked, history>>

\* record_admin_login, then record_login_failure: two transactions after the
\* try.
RecordFailure(r) ==
    /\ pc[r] = "record"
    /\ records' = More(records, now)
    /\ granted' = More(granted, stamp[r])
    /\ Done(r)
    /\ UNCHANGED <<now, limiter, redis, spent, refused>>
-----------------------------------------------------------------------------
(* is_user_request_rate_limited, without Redis *)

\* Mutant: requested_at has no DEFAULT.
ArriveUnstamped(r) ==
    /\ limiter = "table" /\ pc[r] = "idle"
    /\ stamp' = [stamp EXCEPT ![r] = Never]
    /\ Goto(r, "arrived")
    /\ UNCHANGED <<now, limiter, records, redis, checked, history>>

\* The first statement starts the transaction, and may wait for the lock.
Arrive(r) ==
    /\ limiter = "table" /\ pc[r] = "idle"
    /\ stamp' = [stamp EXCEPT ![r] = now]
    /\ Goto(r, "arrived")
    /\ UNCHANGED <<now, limiter, records, redis, checked, history>>

\* Mutant: no pg_advisory_xact_lock.
CountUnlocked(r) ==
    /\ pc[r] = "arrived"
    /\ IF InWindow(records, now) < Limit
       THEN /\ Goto(r, "insert")
            /\ checked' = [checked EXCEPT ![r] = now]
            /\ UNCHANGED stamp
       ELSE Done(r)
    /\ UNCHANGED <<now, limiter, records, redis, history>>

\* pg_advisory_xact_lock, held until the transaction ends, and the SELECT.
Count(r) ==
    /\ pc[r] = "arrived"
    /\ \A q \in Requests : pc[q] # "insert"
    /\ IF InWindow(records, now) < Limit
       THEN /\ Goto(r, "insert")
            /\ checked' = [checked EXCEPT ![r] = now]
            /\ UNCHANGED stamp
       ELSE Done(r)
    /\ UNCHANGED <<now, limiter, records, redis, history>>

\* INSERT and commit: requested_at is the start of the transaction.
InsertRecord(r) ==
    /\ pc[r] = "insert"
    /\ records' = More(records, stamp[r])
    /\ granted' = IF stamp[r] = checked[r] THEN More(granted, stamp[r])
                 ELSE granted
    /\ Done(r)
    /\ UNCHANGED <<now, limiter, redis, spent, refused>>

\* The right password, or any error: for a check it counts as a refusal, and a
\* failure to record is only logged.
GiveUp(r) ==
    /\ pc[r] # "idle"
    /\ Done(r)
    /\ UNCHANGED <<now, limiter, records, redis, history>>
-----------------------------------------------------------------------------
(* is_user_request_rate_limited, with Redis *)

Incremented ==
    IF counter = 0 \/ now >= expiry THEN 1
    ELSE IF counter > Limit THEN counter ELSE counter + 1

\* Mutant: one message more than configured.
JudgeOneMore(count) ==
    /\ spent' = IF count <= Limit THEN More(spent, now) ELSE spent
    /\ \E lost \in BOOLEAN :
          /\ granted' = IF count <= Limit + 1 /\ ~lost THEN More(granted, now) ELSE granted
          /\ refused' = IF count > Limit + 1 /\ ~lost THEN now ELSE refused

\* What the handler makes of the counter, if the answer comes back.
Judge(count) ==
    /\ spent' = IF count <= Limit THEN More(spent, now) ELSE spent
    /\ \E lost \in BOOLEAN :
          /\ granted' = IF count <= Limit /\ ~lost THEN More(granted, now) ELSE granted
          /\ refused' = IF count > Limit /\ ~lost THEN now ELSE refused

\* Mutant: every hit extends the life of the key.
HitExtends(r) ==
    /\ limiter = "redis" /\ pc[r] = "idle"
    /\ counter' = Incremented
    /\ expiry' = now + Window
    /\ Judge(Incremented)
    /\ UNCHANGED <<now, limiter, records, pc, stamp, checked>>

\* The script: INCR, and EXPIRE with the first one; above Limit the counter
\* makes no difference and stays (a bound).
Hit(r) ==
    /\ limiter = "redis" /\ pc[r] = "idle"
    /\ counter' = Incremented
    /\ expiry' = IF Incremented = 1 THEN now + Window ELSE expiry
    /\ Judge(Incremented)
    /\ UNCHANGED <<now, limiter, records, pc, stamp, checked>>
-----------------------------------------------------------------------------
Next ==
    \/ Tick \/ Cleanup
    \/ \E r \in Requests :
          \/ LoginCheck(r) \/ LoginWrong(r) \/ RecordFailure(r)
          \/ Arrive(r) \/ Count(r) \/ InsertRecord(r) \/ Hit(r) \/ GiveUp(r)

Spec == Init /\ [][Next]_vars
-----------------------------------------------------------------------------
\* Checking a password attempt and recording its failure are transactions of
\* their own, so attempts in parallel pass the check together: in any window,
\* recorded attempts exceed the limit by fewer than there are threads.
LoginBounded ==
    limiter = "login" =>
        \A t \in Time : InWindow(granted, t) < Limit + Cardinality(Requests)

\* With the advisory lock, no window lets more than Limit messages of a user
\* through, of those that did not wait for the lock: a row that did is stamped
\* with the time before the wait, and leaves the window too early.
UserBounded ==
    limiter = "table" => \A t \in Time : InWindow(granted, t) <= Limit

\* Redis counts in fixed windows that begin with a message; any other window
\* meets at most two of them.
RedisBounded ==
    limiter = "redis" => \A t \in Time : InWindow(granted, t) <= 2 * Limit

\* Whatever the limiter, a window lets a bounded number through.
LimitsHold == LoginBounded /\ UserBounded /\ RedisBounded

\* However often a refused user tries again, he is refused by count only if
\* Limit of his messages were counted within the last window.
RefusedForAReason ==
    limiter = "redis" /\ refused = now => InWindow(spent, now) >= Limit
=============================================================================
