------------------------- MODULE ReservationNumbers -------------------------
(***************************************************************************)
(* Allocation of the six-digit ticket numbers XXXYZA.  A reservation        *)
(* transaction increments the owner's row of reservation_number_sequences, *)
(* which locks it until the end, composes a number and inserts it under the *)
(* unique index (owner_admin_id, reservation_no); a rollback also undoes   *)
(* the increment.  Every process start, and every restored backup, raises  *)
(* the stored sequence to MAX(reservation_no) + 1.                          *)
(***************************************************************************)
EXTENDS Integers, FiniteSets

CONSTANTS
    Owners,   \* ids of the admin accounts that own reservation types
    Workers,  \* bound: concurrent reservation transactions
    SeqMax,   \* the last value of XXX, 999 in the code
    Ys,       \* the values of the random digit Y, 0..9 in the code
    As,       \* the management digits an administrator may set
    MaxRows   \* bound: numbers issued to one owner

None == -1

ASSUME NumbersAssumption ==
    /\ Owners \subseteq Nat \ {0}
    /\ SeqMax \in 2..999
    /\ Ys \subseteq 0..9
    /\ As \subseteq 0..9 /\ 0 \in As
    /\ MaxRows \in Nat

VARIABLES
    next,       \* next_sequence of each owner; 0 when there is no row yet
    issued,     \* reservation_no of the rows of each owner
    mgmt,       \* setting management_no_<owner>, None when unset
    mgmtAll,    \* setting management_no, the fallback
    locked,     \* owner whose sequence row each transaction holds, or 0
    stored,     \* next_sequence that transaction will commit
    number,     \* reservation_no it is about to insert
    snapshot,   \* MAX(reservation_no) + 1 as read by a starting process, or
                \* None when no process is starting
    last,       \* history: XXX of the newest number of each owner
    restarted   \* history: owners re-initialised since that number

tables == <<next, issued>>
settings == <<mgmt, mgmtAll>>
txn == <<locked, stored, number>>
vars == <<tables, settings, txn, snapshot, last, restarted>>

Number(seq, y, z, a) == seq * 1000 + y * 100 + z * 10 + a
SeqOf(no) == no \div 1000

\* 管理者番号 Z
ZDigit(o) == (o - 1) % 10

\* 管理番号 A: the owner's own setting, else the common one.
GetManagementNo(o) == IF mgmt[o] # None THEN mgmt[o] ELSE mgmtAll

\* Mutant: the wrap-around tests the value after the increment only.
AfterIncrementLate(n) == IF n = 0 THEN 2 ELSE n + 1

\* next_sequence after the upsert of allocate_admin_reservation_no.
AfterIncrement(n) ==
    IF n = 0 \/ n > SeqMax THEN 2 ELSE IF n = SeqMax THEN 1 ELSE n + 1

\* XXX as recovered from the returned next_sequence.
SeqBefore(n) == IF n > 1 THEN n - 1 ELSE SeqMax

TypeOK ==
    /\ next \in [Owners -> Nat]
    /\ issued \in [Owners -> SUBSET Nat]
    /\ mgmt \in [Owners -> {None} \cup 0..9]
    /\ mgmtAll \in 0..9
    /\ locked \in [Workers -> {0} \cup Owners]
    /\ stored \in [Workers -> Nat]
    /\ number \in [Workers -> Nat]
    /\ snapshot \in [Owners -> {None} \cup Nat]
    /\ last \in [Owners -> 0..SeqMax]
    /\ restarted \in SUBSET Owners

Init ==
    /\ next = [o \in Owners |-> 0]
    /\ issued = [o \in Owners |-> {}]
    /\ mgmt = [o \in Owners |-> None]
    /\ mgmtAll = 0
    /\ locked = [w \in Workers |-> 0]
    /\ stored = [w \in Workers |-> 0]
    /\ number = [w \in Workers |-> 0]
    /\ snapshot = [o \in Owners |-> None]
    /\ last = [o \in Owners |-> 0]
    /\ restarted = {}

Unlocked(o) == \A w \in Workers : locked[w] # o
-----------------------------------------------------------------------------
\* allocate_admin_reservation_no: lock and increment the sequence row, read
\* the management digit as committed now, draw Y.
Allocate(w, o) ==
    /\ locked[w] = 0 /\ Unlocked(o)
    /\ Cardinality(issued[o]) < MaxRows
    /\ \E y \in Ys :
          LET n == AfterIncrement(next[o])
          IN  /\ stored' = [stored EXCEPT ![w] = n]
              /\ number' = [number EXCEPT ![w] =
                    Number(SeqBefore(n), y, ZDigit(o), GetManagementNo(o))]
    /\ locked' = [locked EXCEPT ![w] = o]
    /\ UNCHANGED <<tables, settings, snapshot, last, restarted>>

\* COMMIT or ROLLBACK releases the sequence row.
EndTxn(w) ==
    /\ locked' = [locked EXCEPT ![w] = 0]
    /\ stored' = [stored EXCEPT ![w] = 0]
    /\ number' = [number EXCEPT ![w] = 0]

\* The INSERT finds the number free and the transaction commits.
Issue(w, o) ==
    /\ locked[w] = o
    /\ number[w] \notin issued[o]
    /\ issued' = [issued EXCEPT ![o] = @ \cup {number[w]}]
    /\ next' = [next EXCEPT ![o] = stored[w]]
    /\ last' = [last EXCEPT ![o] = SeqOf(number[w])]
    /\ restarted' = restarted \ {o}
    /\ EndTxn(w)
    /\ UNCHANGED <<settings, snapshot>>

\* Mutant: the increment survives the rollback.
RollbackKeepsIncrement(w) ==
    /\ locked[w] # 0
    /\ next' = [next EXCEPT ![locked[w]] = stored[w]]
    /\ EndTxn(w)
    /\ UNCHANGED <<issued, settings, snapshot, last, restarted>>

\* The number is taken (retried up to ten times, each attempt a transaction
\* of its own), the user already has an active ticket, or the thread dies.
Rollback(w) ==
    /\ locked[w] # 0
    /\ EndTxn(w)
    /\ UNCHANGED <<tables, settings, snapshot, last, restarted>>

\* admin_management_no: the owner's setting and the common one.
SetManagementNo(o, a) ==
    /\ mgmt' = [mgmt EXCEPT ![o] = a]
    /\ mgmtAll' = a
    /\ UNCHANGED <<tables, txn, snapshot, last, restarted>>
-----------------------------------------------------------------------------
\* COALESCE(MAX(reservation_no), 0)
IsMax(n, S) == n \in S /\ \A m \in S : m <= n
MaxNo(S) == IF \E n \in S : IsMax(n, S) THEN CHOOSE n \in S : IsMax(n, S) ELSE 0

\* ensure_admin_accounts_table, the upsert of every sequence row: the SELECT
\* takes its snapshot ...
StartRead ==
    /\ \A o \in Owners : snapshot[o] = None
    /\ snapshot' = [o \in Owners |-> MaxNo(issued[o]) + 1]
    /\ UNCHANGED <<tables, settings, txn, last, restarted>>

Greatest(m, n) == IF m >= n THEN m ELSE n

\* ... and each row is then locked and raised.
StartWrite(o) ==
    /\ snapshot[o] # None
    /\ Unlocked(o)
    /\ next' = [next EXCEPT ![o] = Greatest(@, snapshot[o])]
    /\ snapshot' = [snapshot EXCEPT ![o] = None]
    /\ restarted' = restarted \cup {o}
    /\ UNCHANGED <<issued, settings, txn, last>>

\* DELETE FROM reservations; the sequence rows stay.
DeleteAll ==
    /\ \E o \in Owners : issued[o] # {}
    /\ issued' = [o \in Owners |-> {}]
    /\ UNCHANGED <<next, settings, txn, snapshot, last, restarted>>

Next ==
    \/ \E w \in Workers :
          \/ \E o \in Owners : Allocate(w, o) \/ Issue(w, o)
          \/ Rollback(w)
    \/ \E o \in Owners : StartWrite(o) \/ \E a \in As : SetManagementNo(o, a)
    \/ StartRead
    \/ DeleteAll

Spec == Init /\ [][Next]_vars
-----------------------------------------------------------------------------
\* Every number issued is six digits XXXYZA with XXX in 1..SeqMax and the
\* owner's Z, also across the wrap of XXX and after the sequence row has been
\* raised to MAX(reservation_no) + 1, far above SeqMax.
NumbersWellFormed ==
    \A o \in Owners : \A no \in issued[o] :
        \E seq \in 1..SeqMax, y \in Ys, a \in 0..9 :
            no = Number(seq, y, ZDigit(o), a)

\* 申込順の連番: within the life of a process the numbers of an owner follow
\* each other without gap or repetition, although transactions run in
\* parallel, collide and roll back.
Successor(seq) == IF seq = SeqMax THEN 1 ELSE seq + 1
SequenceAdvances ==
    [][\A o \in Owners :
          issued'[o] \ issued[o] # {} /\ o \notin restarted =>
              last'[o] = Successor(last[o])]_vars

\* The docstring's 申込順の連番 without the exception for restarts.
SequenceSurvivesRestart ==
    [][\A o \in Owners :
          issued'[o] \ issued[o] # {} => last'[o] = Successor(last[o])]_vars
=============================================================================
