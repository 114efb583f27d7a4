------------------------------- MODULE MCStartup -------------------------------
(***************************************************************************)
(* Ticket numbers through process starts, and what a process start does to *)
(* a database of an older version: two threads of one process, or two      *)
(* revisions that start together.  ReservationNumbers and SchemaInit model *)
(* it at different grains and share no state here; a behaviour moves one of*)
(* them (part), the other stays as it began.                               *)
(***************************************************************************)
EXTENDS ReservationNumbers

CONSTANTS
    t1, t2, process, other, Null, Type, Admin, Rows, Users, MaxResets, MaxErrors

Threads == {t1, t2}
Processes == {process, other}

VARIABLES
    part,
    ready, schemaLock, pool, poolLock, at, step, done, typeOwner, rows, resets,
    errors

schemaVars == <<ready, schemaLock, pool, poolLock, at, step, done, typeOwner, rows,
                resets, errors>>

Schema == INSTANCE SchemaInit WITH
    ProcessOf <- [t \in Threads |-> process],
    None <- Null, tables <- done

Revisions == INSTANCE SchemaInit WITH
    ProcessOf <- [t \in Threads |-> IF t = t1 THEN process ELSE other],
    None <- Null, tables <- done

\* Ids are integers; NULL is no value of its column, and not every type_id is
\* that of a type.
ASSUME StartupAssumption ==
    /\ IsFiniteSet(Rows) /\ Rows \subseteq Int
    /\ Null \notin Threads /\ Null \notin Schema!Row
    /\ Null \notin {Admin, Type, Schema!Dangling} /\ Type # Schema!Dangling
    /\ MaxResets \in Nat /\ MaxErrors \in Nat

StartupInit ==
    /\ Init /\ Schema!Init
    /\ part \in {"numbers", "schema", "revisions"}
    /\ part = "numbers" => done = {}
    /\ part = "schema" =>
          /\ typeOwner = Null
          /\ \A i \in Rows : rows[i] # Null /\ rows[i].type # Type => rows[i].owner = Null
    /\ part = "revisions" =>
          /\ ~Schema!Blocked
          /\ \A i \in Rows : rows[i] # Null => rows[i].type = Type /\ rows[i].owner = Null

StartupNext ==
    /\ \/ part = "numbers" /\ Next /\ UNCHANGED schemaVars
       \/ part = "schema" /\ Schema!Next /\ UNCHANGED vars
       \/ part = "revisions" /\ Revisions!Next /\ UNCHANGED vars
    /\ UNCHANGED part

GoOn(t) ==
    \/ part = "schema" /\ Schema!GoOn(t)
    \/ part = "revisions" /\ Revisions!GoOn(t)

Lock(t) ==
    \/ part = "schema" /\ Schema!Lock(t)
    \/ part = "revisions" /\ Revisions!Lock(t)

\* SchemaInit!Fairness of either part.
Fairness ==
    \A t \in Threads :
        /\ SF_schemaVars(part # "numbers" /\ Schema!Arrive(t))
        /\ WF_schemaVars(GoOn(t)) /\ SF_schemaVars(Lock(t))

StartupSpec == StartupInit /\ [][StartupNext]_<<part, vars, schemaVars>> /\ Fairness
-----------------------------------------------------------------------------
\* Every variable of the numbers and the initialisation has its type.
TypesOK == TypeOK /\ Schema!TypeOK

\* Pages are served over a complete schema and repaired rows (database.py:719).
ServedOnSchema == Schema!ServedOnSchema

\* Owners and numbers of tickets outlast every initialisation (database.py:308).
RepairsStand == Schema!RepairsStand

\* No request waits for the schema for ever (database.py:37).
RequestsReturn == Schema!RequestsReturn

\* Unless rows contradict an index, the process serves in the end (database.py:719).
BecomesReady ==
    \/ []Schema!Blocked
    \/ <>[](CASE part = "schema" -> Schema!AllReady
              [] part = "revisions" -> Revisions!AllReady
              [] OTHER -> TRUE)
=============================================================================
