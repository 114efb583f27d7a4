---------------------------- MODULE ConnectionPool ----------------------------
(***************************************************************************)
(* The database connections of one process.  A request keeps one           *)
(* connection in flask.g until its teardown; the CSV export takes a second *)
(* one for its generator; a pool thread of the webhook has no request and  *)
(* takes a connection for every `with get_connection()`, nested ones       *)
(* included.  psycopg2's ThreadedConnectionPool never waits: it refuses    *)
(* the connection above maxconn.  A slot is an entry of its table _used,   *)
(* which only putconn removes.                                             *)
(***************************************************************************)
EXTENDS Integers, FiniteSets

CONSTANTS
    Conns,     \* connection objects; one that nobody refers to is used again
    None,      \* no connection
    Requests,  \* request threads
    Workers,   \* webhook threads
    MinConn,   \* minconn of the pool: how many idle connections it keeps
    MaxConn,   \* maxconn of the pool
    MaxDepth   \* bound: nesting of `with get_connection()` in a worker

ASSUME PoolAssumption ==
    /\ IsFiniteSet(Conns) /\ None \notin Conns
    /\ MinConn \in Nat /\ MaxConn \in Nat /\ MaxDepth \in Nat
    /\ MinConn <= MaxConn /\ MaxConn <= Cardinality(Conns)

VARIABLES
    idle,    \* the pool's list of idle connections
    used,    \* connections in the pool's table _used
    closed,  \* connections whose attribute closed is set
    g,       \* g._db_connection of each request
    csv,     \* connection of the request's CSV generator
    hand     \* connections of each worker's with blocks

vars == <<idle, used, closed, g, csv, hand>>

TypeOK ==
    /\ idle \in SUBSET Conns
    /\ used \in SUBSET Conns
    /\ closed \in SUBSET Conns
    /\ g \in [Requests -> Conns \cup {None}]
    /\ csv \in [Requests -> Conns \cup {None}]
    /\ hand \in [Workers -> SUBSET Conns]

Init ==
    /\ idle \in {S \in SUBSET Conns : Cardinality(S) = MinConn}
    /\ used = {}
    /\ closed = {}
    /\ g = [r \in Requests |-> None]
    /\ csv = [r \in Requests |-> None]
    /\ hand = [w \in Workers |-> {}]

Held ==
    {c \in Conns : \/ \E r \in Requests : g[r] = c \/ csv[r] = c
                   \/ \E w \in Workers : c \in hand[w]}
-----------------------------------------------------------------------------
(* psycopg2.pool, external, as create_connection and release_connection use it. *)

\* What a new connection is when none is idle and the limit is not reached.
Fresh == {c \in Conns \ (idle \cup used) : idle = {} /\ Cardinality(used) < MaxConn}

\* Mutant: the idle connection is lent but stays in the list.
GetconnPeeks(c) ==
    /\ c \in idle \cup Fresh
    /\ used' = used \cup {c}
    /\ closed' = closed \ {c}
    /\ UNCHANGED idle

\* getconn: an idle connection, or a new one.
Getconn(c) ==
    /\ c \in idle \cup Fresh
    /\ idle' = idle \ {c}
    /\ used' = used \cup {c}
    /\ closed' = closed \ {c}

\* putconn keeps up to MinConn idle connections and closes the others.
Putconn(c) ==
    /\ used' = used \ {c}
    /\ IF Cardinality(idle) < MinConn
       THEN idle' = idle \cup {c} /\ UNCHANGED closed
       ELSE closed' = closed \cup {c} /\ UNCHANGED idle

\* Mutant: a connection returned with an error is dropped without putconn.
ReleaseDrops(c) ==
    IF c \in closed
    THEN UNCHANGED <<idle, used, closed>>
    ELSE Putconn(c) \/ UNCHANGED <<idle, used, closed>>

\* release_connection and the tests before its calls: a closed connection is
\* not given back; when putconn raises, the connection is closed.
Release(c) ==
    IF c \in closed
    THEN UNCHANGED <<idle, used, closed>>
    ELSE \/ Putconn(c)
         \/ closed' = closed \cup {c} /\ UNCHANGED <<idle, used>>

\* The server drops a connection in use, or a failed rollback closes it
\* (ManagedConnection.__exit__).
Lose(c) ==
    /\ c \in Held \ closed
    /\ closed' = closed \cup {c}
    /\ UNCHANGED <<idle, used, g, csv, hand>>
-----------------------------------------------------------------------------
\* get_connection in a request: taken once, and again when it was closed.
RequestConnect(r) ==
    /\ g[r] = None \/ g[r] \in closed
    /\ \E c \in Conns : Getconn(c) /\ g' = [g EXCEPT ![r] = c]
    /\ UNCHANGED <<csv, hand>>

\* close_request_connection, whatever the request ended with.
Teardown(r) ==
    /\ g[r] # None
    /\ csv[r] = None                  \* stream_with_context delays it
    /\ Release(g[r])
    /\ g' = [g EXCEPT ![r] = None]
    /\ UNCHANGED <<csv, hand>>

\* admin_history_export: the generator's own connection, beside the one the
\* login check has put into g.
ExportBegin(r) ==
    /\ g[r] # None /\ csv[r] = None
    /\ \E c \in Conns : Getconn(c) /\ csv' = [csv EXCEPT ![r] = c]
    /\ UNCHANGED <<g, hand>>

\* Its finally block: connection.close().
ExportEnd(r) ==
    /\ csv[r] # None
    /\ closed' = closed \cup {csv[r]}
    /\ csv' = [csv EXCEPT ![r] = None]
    /\ UNCHANGED <<idle, used, g, hand>>

\* `with get_connection()` in a webhook thread.
WorkerEnter(w) ==
    /\ Cardinality(hand[w]) < MaxDepth
    /\ \E c \in Conns : Getconn(c) /\ hand' = [hand EXCEPT ![w] = @ \cup {c}]
    /\ UNCHANGED <<g, csv>>

\* ManagedConnection.__exit__ with close_on_exit.
WorkerExit(w) ==
    /\ \E c \in hand[w] : Release(c) /\ hand' = [hand EXCEPT ![w] = @ \ {c}]
    /\ UNCHANGED <<g, csv>>

\* PoolError: "connection pool exhausted" fails the request or the event;
\* nothing changes.
Exhausted == idle = {} /\ Cardinality(used) >= MaxConn

Refused == Exhausted /\ UNCHANGED vars

Next ==
    \/ \E c \in Conns : Lose(c)
    \/ \E r \in Requests :
         RequestConnect(r) \/ Teardown(r) \/ ExportBegin(r) \/ ExportEnd(r)
    \/ \E w \in Workers : WorkerEnter(w) \/ WorkerExit(w)
    \/ Refused

Spec == Init /\ [][Next]_vars
-----------------------------------------------------------------------------
\* A connection, and with it a transaction, is never lent to two at a time:
\* requests, generators and workers hold different connections, none of them
\* idle in the pool.
OneHolder ==
    /\ Held \cap idle = {}
    /\ \A q, r \in Requests :
         /\ g[r] # None => g[r] # csv[q] /\ (q # r => g[r] # g[q])
         /\ csv[r] # None /\ q # r => csv[r] # csv[q]
         /\ \A w \in Workers : g[r] \notin hand[w] /\ csv[r] \notin hand[w]
    /\ \A v, w \in Workers : v # w => hand[v] \cap hand[w] = {}

\* No open connection gets lost, however requests and with blocks end: what
\* the pool has lent and nobody holds is closed.
LiveConnectionsReturn == used \ closed \subseteq Held

\* The process never has more than maxconn slots and idle connections.
PoolBounded == Cardinality(idle) + Cardinality(used) <= MaxConn

\* test_readyz_returns_200_when_db_is_available: with nobody holding a
\* connection and the database well, a request such as readyz gets one.
IdleProcessIsReady == Held = {} => ~Exhausted
=============================================================================
