------------------------------ MODULE SchemaInit ------------------------------
(***************************************************************************)
(* ensure_database_schema: before its first request a process creates what *)
(* the database lacks and repairs what older versions left behind, under a *)
(* lock of its own and with the pool it creates on the way; other processes*)
(* may be doing the same.  Each step is a transaction whose ALTER TABLE    *)
(* locks its table exclusively, so it is one action here.  Columns older   *)
(* versions lacked, and rows nothing is wrong with, are left out.          *)
(***************************************************************************)
EXTENDS Integers, Sequences, FiniteSets

CONSTANTS
    Processes,
    Threads,    \* request threads
    ProcessOf,  \* the process of each thread
    Rows,       \* ids of reservations from an older version
    Users,
    Type,       \* a type that exists
    Admin,      \* the administrator with the smallest id
    None,       \* NULL, or nobody
    MaxResets,  \* bound: imports
    MaxErrors   \* bound: statements that raise, though they could succeed

Dangling == "dangling"  \* a type_id without a type
MaxNo == 2 * Cardinality(Rows)

VARIABLES
    ready,      \* SCHEMA_READY of each process
    schemaLock, \* who holds SCHEMA_LOCK
    pool,       \* does the process have its pool?
    poolLock,   \* who holds POOL_LOCK
    at,         \* where each thread is
    step,       \* the step that the holder of SCHEMA_LOCK is about to take
    tables,     \* the steps whose tables and indexes exist
    typeOwner,  \* owner_admin_id of Type
    rows,       \* user, type, owner, no, status of each reservation
    resets,
    errors

locks == <<schemaLock, poolLock>>
database == <<tables, typeOwner, rows>>
counters == <<resets, errors>>
vars == <<ready, pool, locks, at, step, database, counters>>

Order == <<"reservations", "accounts", "types", "rest", "migrate">>
Tables == {"reservations", "accounts", "types", "rest"}

Row == [user : Users, type : {None, Dangling, Type}, owner : {None, Admin},
        no : 0..MaxNo, status : {"queued", "active", "closed"}]

TypeOK ==
    /\ ready \in [Processes -> BOOLEAN]
    /\ schemaLock \in [Processes -> Threads \cup {None}]
    /\ pool \in [Processes -> BOOLEAN]
    /\ poolLock \in [Processes -> Threads \cup {None}]
    /\ at \in [Threads -> {"idle", "flag", "lock", "steps", "pool", "connect",
                           "serve"}]
    /\ step \in [Processes -> 1..(Len(Order) + 1)]
    /\ tables \subseteq Tables
    /\ typeOwner \in {None, Admin}
    /\ rows \in [Rows -> Row \cup {None}]
    /\ resets \in 0..MaxResets /\ errors \in 0..MaxErrors

\* No database yet, or one of an older version with any of its leftovers.
Init ==
    /\ \/ tables = {} /\ typeOwner = None /\ rows = [i \in Rows |-> None]
       \/ /\ tables = {"reservations", "accounts", "types"}
          /\ typeOwner \in {None, Admin}
          /\ rows \in [Rows ->
                {r \in Row : r.type # None /\ r.no <= 1 /\ (r.no # 0 => r.owner # None)}]
    /\ ready = [p \in Processes |-> FALSE]
    /\ schemaLock = [p \in Processes |-> None]
    /\ pool = [p \in Processes |-> FALSE]
    /\ poolLock = [p \in Processes |-> None]
    /\ at = [t \in Threads |-> "idle"]
    /\ step = [p \in Processes |-> 1]
    /\ resets = 0 /\ errors = 0
-----------------------------------------------------------------------------
Goto(t, label) == at' = [at EXCEPT ![t] = label]
Free(lock, p) == [lock EXCEPT ![p] = None]

\* initialize_database_once, for every page that needs the schema.
Arrive(t) ==
    /\ at[t] = "idle"
    /\ Goto(t, "flag")
    /\ UNCHANGED <<ready, pool, locks, step, database, counters>>

\* /readyz or GET /login: a connection, without looking at the schema.
Probe(t) ==
    /\ at[t] = "idle"
    /\ Goto(t, "pool")
    /\ UNCHANGED <<ready, pool, locks, step, database, counters>>

\* Mutant: while another thread initialises, the schema is taken for ready.
CheckFlagBusy(t) ==
    LET p == ProcessOf[t]
    IN  /\ at[t] = "flag"
        /\ Goto(t, IF ready[p] \/ schemaLock[p] # None THEN "serve" ELSE "lock")
        /\ UNCHANGED <<ready, pool, locks, step, database, counters>>

CheckFlag(t) ==
    /\ at[t] = "flag"
    /\ Goto(t, IF ready[ProcessOf[t]] THEN "serve" ELSE "lock")
    /\ UNCHANGED <<ready, pool, locks, step, database, counters>>

\* SCHEMA_LOCK, and the second look at the flag.
Lock(t) ==
    LET p == ProcessOf[t]
    IN  /\ at[t] = "lock" /\ schemaLock[p] = None
        /\ \/ /\ ready[p]
              /\ Goto(t, "serve")
              /\ UNCHANGED <<schemaLock, step>>
           \/ /\ ~ready[p]
              /\ Goto(t, IF pool[p] THEN "steps" ELSE "pool")
              /\ schemaLock' = [schemaLock EXCEPT ![p] = t]
              /\ step' = [step EXCEPT ![p] = 1]
        /\ UNCHANGED <<ready, pool, poolLock, database, counters>>

\* With the pool there, a thread goes on with what it wanted it for.
Proceed(t) ==
    Goto(t, IF schemaLock[ProcessOf[t]] = t THEN "steps" ELSE "idle")

\* get_connection_pool: POOL_LOCK, unless the pool is there.
LockPool(t) ==
    LET p == ProcessOf[t]
    IN  /\ at[t] = "pool"
        /\ \/ pool[p] /\ Proceed(t) /\ UNCHANGED poolLock
           \/ /\ ~pool[p] /\ poolLock[p] = None
              /\ poolLock' = [poolLock EXCEPT ![p] = t]
              /\ Goto(t, "connect")
        /\ UNCHANGED <<ready, pool, schemaLock, step, database, counters>>

\* The first connections of the pool.
Connect(t) ==
    LET p == ProcessOf[t]
    IN  /\ at[t] = "connect"
        /\ pool' = [pool EXCEPT ![p] = TRUE]
        /\ poolLock' = Free(poolLock, p)
        /\ Proceed(t)
        /\ UNCHANGED <<ready, schemaLock, step, database, counters>>

-----------------------------------------------------------------------------
(* The steps. *)

Stored == {i \in Rows : rows[i] # None}

Twice(R, i, j) ==
    \/ R[i].user = R[j].user /\ R[i].status = "active" /\ R[j].status = "active"
    \/ R[i].no = R[j].no /\ R[i].no # 0 /\ R[i].owner = R[j].owner

\* What uq_reservations_user_active and uq_reservations_owner_reservation_no say.
Unique(R) == \A i, j \in Stored : Twice(R, i, j) => i = j

\* ensure_reservations_table, with its two unique indexes.
CreateReservations ==
    /\ Unique(rows)
    /\ tables' = tables \cup {"reservations"}
    /\ UNCHANGED <<typeOwner, rows>>

\* ensure_admin_accounts_table reads reservations (see ReservationNumbers).
CreateAccounts ==
    /\ "reservations" \in tables
    /\ tables' = tables \cup {"accounts"}
    /\ UNCHANGED <<typeOwner, rows>>

(* admin is the active administrator that the step finds, or None. *)

\* A type without an owner gets the one found.
NewTypeOwner(admin) == IF typeOwner = None THEN admin ELSE typeOwner

\* The row's owner after the first statement of sync_reservation_owner_numbers.
OwnerOf(i, admin) ==
    IF rows[i].owner = None /\ rows[i].type = Type THEN NewTypeOwner(admin)
    ELSE rows[i].owner

\* Mutant: the numbers begin with 1 again.
NumberFromOne(i, admin) ==
    Cardinality({j \in Stored : /\ OwnerOf(j, admin) = OwnerOf(i, admin)
                                /\ rows[j].no = 0 /\ j <= i})

\* Its last: MAX(reservation_no) plus the row's place among those without one.
NewNumber(i, admin) ==
    LET kin == {j \in Stored : OwnerOf(j, admin) = OwnerOf(i, admin)}
        max == CHOOSE n \in 0..MaxNo : /\ \A j \in kin : rows[j].no <= n
                                       /\ n = 0 \/ \E j \in kin : rows[j].no = n
    IN  max + Cardinality({j \in kin : rows[j].no = 0 /\ j <= i})

\* Mutant: rows that have a number get a new one.
RepairedAnew(i, admin) ==
    [rows[i] EXCEPT !.type = IF @ = Dangling THEN None ELSE @,
                    !.owner = OwnerOf(i, admin),
                    !.no = IF OwnerOf(i, admin) # None THEN NewNumber(i, admin) + 1 ELSE 0]

Repaired(i, admin) ==
    [rows[i] EXCEPT !.type = IF @ = Dangling THEN None ELSE @,
                    !.owner = OwnerOf(i, admin),
                    !.no = IF @ = 0 /\ OwnerOf(i, admin) # None THEN NewNumber(i, admin)
                           ELSE @]

RepairedRows(admin) ==
    [i \in Rows |-> IF i \in Stored THEN Repaired(i, admin) ELSE None]

\* ensure_types_table: every administrator may be inactive.
RepairRows ==
    /\ {"reservations", "accounts"} \subseteq tables
    /\ \E admin \in {None, Admin} :
          /\ Unique(RepairedRows(admin))
          /\ typeOwner' = IF "types" \in tables THEN NewTypeOwner(admin) ELSE typeOwner
          /\ rows' = RepairedRows(admin)
    /\ tables' = tables \cup {"types"}

\* Settings, login logs, rate limits, webhook events: four transactions.
CreateRest ==
    /\ "accounts" \in tables
    /\ tables' = tables \cup {"rest"}
    /\ UNCHANGED <<typeOwner, rows>>

MigratedRows ==
    [i \in Rows |-> IF i \in Stored /\ rows[i].status = "queued"
                    THEN [rows[i] EXCEPT !.status = "active"] ELSE rows[i]]

\* migrate_legacy_queued_calls.
Migrate ==
    /\ "reservations" \in tables
    /\ Unique(MigratedRows)
    /\ rows' = MigratedRows
    /\ UNCHANGED <<tables, typeOwner>>

Apply(s) ==
    \/ s = "reservations" /\ CreateReservations
    \/ s = "accounts" /\ CreateAccounts
    \/ s = "types" /\ RepairRows
    \/ s = "rest" /\ CreateRest
    \/ s = "migrate" /\ Migrate

\* The step can only raise: a table is missing, or rows contradict an index.
Fails(s) ==
    \/ s # "reservations" /\ "reservations" \notin tables
    \/ s \in {"types", "rest"} /\ "accounts" \notin tables
    \/ s = "reservations" /\ ~Unique(rows)
    \/ s = "types" /\ \E admin \in {None, Admin} : ~Unique(RepairedRows(admin))
    \/ s = "migrate" /\ ~Unique(MigratedRows)

Step(t) ==
    LET p == ProcessOf[t]
    IN  /\ at[t] = "steps" /\ step[p] <= Len(Order)
        /\ Apply(Order[step[p]])
        /\ step' = [step EXCEPT ![p] = @ + 1]
        /\ UNCHANGED <<ready, pool, locks, at, counters>>

\* Mutant: a step that fails is tried again at once, under the lock.
RaiseRetries(t) ==
    /\ at[t] = "steps" /\ step[ProcessOf[t]] <= Len(Order)
    /\ Fails(Order[step[ProcessOf[t]]])
    /\ UNCHANGED vars

\* An exception leaves both with-blocks and becomes a 500: a statement that
\* cannot succeed, or a connection that breaks.
Raise(t) ==
    LET p == ProcessOf[t]
    IN  /\ \/ at[t] = "connect"
           \/ at[t] = "steps" /\ step[p] <= Len(Order)
        /\ IF at[t] = "steps" /\ Fails(Order[step[p]]) THEN UNCHANGED errors
           ELSE errors < MaxErrors /\ errors' = errors + 1
        /\ poolLock' = IF poolLock[p] = t THEN Free(poolLock, p) ELSE poolLock
        /\ schemaLock' = IF schemaLock[p] = t THEN Free(schemaLock, p) ELSE schemaLock
        /\ Goto(t, "idle")
        /\ UNCHANGED <<ready, pool, step, database, resets>>

\* SCHEMA_READY = True, and the lock is given back.
Finish(t) ==
    LET p == ProcessOf[t]
    IN  /\ at[t] = "steps" /\ step[p] > Len(Order)
        /\ ready' = [ready EXCEPT ![p] = TRUE]
        /\ schemaLock' = Free(schemaLock, p)
        /\ Goto(t, "serve")
        /\ UNCHANGED <<pool, poolLock, step, database, counters>>

Return(t) ==
    /\ at[t] = "serve"
    /\ Goto(t, "idle")
    /\ UNCHANGED <<ready, pool, locks, step, database, counters>>

\* Mutant: the flag is unset, not set to False.
ResetUnset(t) ==
    /\ at[t] = "serve" /\ resets < MaxResets
    /\ resets' = resets + 1
    /\ ready' = [ready EXCEPT ![ProcessOf[t]] = None]
    /\ Goto(t, "idle")
    /\ UNCHANGED <<pool, locks, step, database, errors>>

\* The end of an import: reset_schema_cache, without the lock.
Reset(t) ==
    /\ at[t] = "serve" /\ resets < MaxResets
    /\ resets' = resets + 1
    /\ ready' = [ready EXCEPT ![ProcessOf[t]] = FALSE]
    /\ Goto(t, "idle")
    /\ UNCHANGED <<pool, locks, step, database, errors>>

GoOn(t) ==
    \/ CheckFlag(t) \/ Lock(t) \/ LockPool(t) \/ Connect(t) \/ Step(t) \/ Raise(t)
    \/ Finish(t) \/ Return(t) \/ Reset(t)

Next == \E t \in Threads : Arrive(t) \/ Probe(t) \/ GoOn(t)

Spec == Init /\ [][Next]_vars

\* Pages are asked for, threads run on, and who waits for SCHEMA_LOCK gets it
\* some time if it is free again and again.
Fairness ==
    \A t \in Threads : SF_vars(Arrive(t)) /\ WF_vars(GoOn(t)) /\ SF_vars(Lock(t))
FairSpec == Spec /\ Fairness
-----------------------------------------------------------------------------
\* A page is served only by a process that has made every table, and only over
\* rows that are repaired: no dangling type, an owner for every row whose type has
\* one, a number for every row that has an owner, nobody in the queue of old.
\* (A type keeps none, nor do its rows, where no administrator has been active.)
ServedOnSchema ==
    (\E t \in Threads : at[t] = "serve") =>
        /\ tables = Tables
        /\ \A i \in Stored :
              /\ rows[i].type # Dangling /\ rows[i].status # "queued"
              /\ rows[i].type = Type /\ typeOwner # None => rows[i].owner # None
              /\ rows[i].owner # None => rows[i].no # 0

\* The steps are taken again and again, by every process and after each import:
\* a ticket keeps the owner and the number it has got, and two tickets of one
\* owner never get the same.
RepairsStand ==
    [][\A i \in Stored :
          /\ rows[i].owner # None => rows'[i].owner = rows[i].owner
          /\ rows[i].no # 0 => rows'[i].no = rows[i].no
          /\ \A j \in Stored : rows[i].no = 0 /\ rows'[i].no # 0 /\ i # j
                               /\ rows'[i].owner = rows'[j].owner
                               => rows'[i].no # rows'[j].no]_vars

\* No request waits for ever, although the pool is created under one lock inside
\* the initialisation, which is under another.
RequestsReturn ==
    \A t \in Threads : at[t] \in {"flag", "lock"} ~> at[t] \in {"idle", "serve"}

\* Rows that one of the unique indexes can never take.
Blocked ==
    \E i, j \in Stored :
        /\ i # j
        /\ \/ rows[i].user = rows[j].user /\ "closed" \notin {rows[i].status, rows[j].status}
           \/ rows[i].no # 0 /\ rows[i].no = rows[j].no /\ rows[i].owner = rows[j].owner

AllReady == \A t \in Threads : ready[ProcessOf[t]]

\* Whatever database a process finds, empty or old, with some steps taken and
\* others failed, in the end it serves, unless rows contradict an index.
BecomesReady == <>[]AllReady \/ []Blocked
=============================================================================
