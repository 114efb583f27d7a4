-------------------------------- MODULE Intake --------------------------------
(***************************************************************************)
(* From a customer's message to a ticket: process_reservation with the     *)
(* flags it reads one statement at a time, against administrators who stop *)
(* intake, rename or remove types, and against the other webhook threads.  *)
(* A SELECT is a step; a transaction's rows become visible at its commit.  *)
(* What numbers tickets get, and how they are called, is in other modules. *)
(***************************************************************************)
EXTENDS Integers, FiniteSets

CONSTANTS
    Users,      \* LINE user ids
    Owners,     \* admin accounts with role admin
    Types,      \* ids of reservation_types
    Names,      \* names of types
    TypeOwner,  \* owner_admin_id of each type: no statement of the shop changes it
    None,       \* no row, no name
    Removed,    \* the name of a type that was deleted
    Workers,    \* threads of _WEBHOOK_EXECUTOR
    MaxId,      \* bound: rows of reservations ever inserted
    MaxEdits    \* bound: changes of types and accounts

Ids == 1..MaxId
Requested == {"gate", "type", "owner", "existing", "insert", "commit", "answer"}

ASSUME IntakeAssumption ==
    /\ TypeOwner \in [Types -> Owners]
    /\ MaxId \in Nat /\ MaxEdits \in Nat
    /\ None \notin Names \cup Types \cup Owners \cup Users
    /\ Removed \notin Names \cup {None}
    /\ Types \cap Owners = {}

VARIABLES
    name,       \* name of a type, None before and Removed after it has a row
    accepting,  \* reservation_types.accepting
    open,       \* admin_accounts.accepting_new
    account,    \* "active", "inactive" or "gone"
    nextId,     \* id of the next row (ids of failed INSERTs are left out)
    user, rowType,
    status,     \* none, pending (not committed), waiting, called, closed;
                \*   swallowed: rolled back without anybody noticing
    pc,         \* where each thread is in process_reservation
    of,         \* whose message it processes
    want,       \* requested_type_name
    booked,     \* type_id, with type_owner_admin_id
    at,         \* the row it has inserted or picked, or 0
    edits,
    seen,       \* history: types (under the wanted name) and owners that took
                \*   tickets at some moment since the thread began
    confirmed,  \* history: rows not closed whose customer was told 受付完了
    known       \* history: confirmed row of the user when he sent his cancel

shop == <<name, accepting, open, account>>
rows == <<nextId, user, rowType, status>>
threads == <<pc, of, want, booked, at>>
history == <<confirmed, known>>
vars == <<shop, rows, threads, edits, history, seen>>

TypeOK ==
    /\ name \in [Types -> Names \cup {None, Removed}]
    /\ accepting \in [Types -> BOOLEAN]
    /\ open \in [Owners -> BOOLEAN]
    /\ account \in [Owners -> {"active", "inactive", "gone"}]
    /\ nextId \in 1..(MaxId + 1)
    /\ user \in [Ids -> Users \cup {None}]
    /\ rowType \in [Ids -> Types \cup {None}]
    /\ status \in [Ids -> {"none", "pending", "waiting", "called", "closed",
                       "swallowed"}]
    /\ pc \in [Workers -> Requested \cup {"idle", "cancel", "picked"}]
    /\ of \in [Workers -> Users \cup {None}]
    /\ want \in [Workers -> Names \cup {None}]
    /\ booked \in [Workers -> Types \cup {None}]
    /\ at \in [Workers -> Ids \cup {0}]
    /\ edits \in 0..MaxEdits
    /\ seen \in [Workers -> SUBSET (Types \cup Owners)]
    /\ confirmed \in SUBSET Ids
    /\ known \in [Workers -> Ids \cup {0}]

\* Every type under a name of its own, or the shop before it has any.
Init ==
    /\ name \in [Types -> Names \cup {None}]
    /\ \A t1, t2 \in Types : t1 # t2 /\ name[t1] = name[t2] => name[t1] = None
    /\ accepting = [t \in Types |-> TRUE]
    /\ open = [o \in Owners |-> TRUE]
    /\ account = [o \in Owners |-> "active"]
    /\ nextId = 1
    /\ user = [i \in Ids |-> None]
    /\ rowType = [i \in Ids |-> None]
    /\ status = [i \in Ids |-> "none"]
    /\ pc = [w \in Workers |-> "idle"]
    /\ of = [w \in Workers |-> None]
    /\ want = [w \in Workers |-> None]
    /\ booked = [w \in Workers |-> None]
    /\ at = [w \in Workers |-> 0]
    /\ edits = 0
    /\ seen = [w \in Workers |-> {}]
    /\ confirmed = {}
    /\ known = [w \in Workers |-> 0]
-----------------------------------------------------------------------------
IsActive(i) == status[i] \in {"waiting", "called"}
Held(u) == {i \in Ids : user[i] = u /\ IsActive(i)}

\* accepting_new and active of one account.
Taking(o) == account[o] = "active" /\ open[o]

\* count_waiting_people_ahead_by_owner: committed rows of the same owner.
Ahead(i) ==
    Cardinality({j \in Ids : /\ j < i /\ status[j] = "waiting"
                             /\ TypeOwner[rowType[j]] = TypeOwner[rowType[i]]})

\* The thread returns; a transaction it leaves open is rolled back.
Return(w) ==
    /\ pc' = [pc EXCEPT ![w] = "idle"]
    /\ of' = [of EXCEPT ![w] = None]
    /\ want' = [want EXCEPT ![w] = None]
    /\ booked' = [booked EXCEPT ![w] = None]
    /\ at' = [at EXCEPT ![w] = 0]

Goto(w, label) ==
    /\ pc' = [pc EXCEPT ![w] = label]
    /\ UNCHANGED <<of, want, booked, at>>

\* The inserted rows S are not there after all; their ids are used up.
RollBack(S, how) ==
    /\ user' = [i \in Ids |-> IF i \in S THEN None ELSE user[i]]
    /\ rowType' = [i \in Ids |-> IF i \in S THEN None ELSE rowType[i]]
    /\ status' = [i \in Ids |-> IF i \in S THEN how ELSE status[i]]
    /\ UNCHANGED nextId
-----------------------------------------------------------------------------
(* 予約 <name>. *)

Begin(w, u, n) ==
    /\ pc[w] = "idle"
    /\ pc' = [pc EXCEPT ![w] = "gate"]
    /\ of' = [of EXCEPT ![w] = u]
    /\ want' = [want EXCEPT ![w] = n]
    /\ known' = [known EXCEPT ![w] = 0]
    /\ UNCHANGED <<shop, rows, booked, at, edits, confirmed>>

\* is_accepting_new(): does any active account take tickets?
Gate(w) ==
    /\ pc[w] = "gate"
    /\ IF \E o \in Owners : Taking(o) THEN Goto(w, "type") ELSE Return(w)
    /\ UNCHANGED <<shop, rows, edits, history>>

\* SELECT ... FROM reservation_types WHERE name = ...; a type that is missing
\* or stopped is refused (the latter after the next statement).
ReadType(w) ==
    /\ pc[w] = "type"
    /\ \/ \E t \in Types :
             /\ name[t] = want[w] /\ accepting[t]
             /\ booked' = [booked EXCEPT ![w] = t]
             /\ pc' = [pc EXCEPT ![w] = "owner"]
             /\ UNCHANGED <<of, want, at>>
       \/ /\ \A t \in Types : name[t] = want[w] => ~accepting[t]
          /\ Return(w)
    /\ UNCHANGED <<shop, rows, edits, history>>

\* Mutant: the account's active flag is not looked at.
ReadOwnerFlagOnly(w) ==
    /\ pc[w] = "owner"
    /\ IF open[TypeOwner[booked[w]]] THEN Goto(w, "existing") ELSE Return(w)
    /\ UNCHANGED <<shop, rows, edits, history>>

\* SELECT accepting_new, active; a missing account counts as accepting.
ReadOwner(w) ==
    /\ pc[w] = "owner"
    /\ LET o == TypeOwner[booked[w]]
       IN  IF account[o] = "gone" \/ Taking(o)
           THEN Goto(w, "existing") ELSE Return(w)
    /\ UNCHANGED <<shop, rows, edits, history>>

\* An active ticket of the user is reported instead of a new one.
CheckExisting(w) ==
    /\ pc[w] = "existing"
    /\ IF Held(of[w]) = {} THEN Goto(w, "insert") ELSE Return(w)
    /\ UNCHANGED <<shop, rows, edits, history>>

\* Mutant: the upsert of the sequence is committed on its own, so it no longer
\* keeps the owner's reservations one after the other.
MayInsertUnlocked(w) ==
    \A i \in Ids : status[i] = "pending" => user[i] # of[w]

\* allocate_admin_reservation_no holds the owner's sequence row to the end of
\* the transaction; the unique index makes the INSERT wait for one of its user.
MayInsert(w) ==
    \A i \in Ids : status[i] = "pending" =>
        /\ TypeOwner[rowType[i]] # TypeOwner[booked[w]]
        /\ user[i] # of[w]

\* INSERT INTO reservations with its two foreign keys.
Insert(w) ==
    /\ pc[w] = "insert"
    /\ nextId <= MaxId
    /\ MayInsert(w)
    /\ Held(of[w]) = {}
    /\ name[booked[w]] \in Names /\ account[TypeOwner[booked[w]]] # "gone"
    /\ nextId' = nextId + 1
    /\ user' = [user EXCEPT ![nextId] = of[w]]
    /\ rowType' = [rowType EXCEPT ![nextId] = booked[w]]
    /\ status' = [status EXCEPT ![nextId] = "pending"]
    /\ at' = [at EXCEPT ![w] = nextId]
    /\ pc' = [pc EXCEPT ![w] = "commit"]
    /\ UNCHANGED <<shop, of, want, booked, edits, history>>

\* uq_reservations_user_active: the transaction is rolled back and the other
\* ticket reported, or the error raised again if that is closed by now.
InsertConflicts(w) ==
    /\ pc[w] = "insert"
    /\ MayInsert(w)
    /\ Held(of[w]) # {}
    /\ Return(w)
    /\ UNCHANGED <<shop, rows, edits, history>>

\* Ten numbers that were all taken, or the type or account removed meanwhile.
InsertFails(w) ==
    /\ pc[w] = "insert"
    /\ Return(w)
    /\ UNCHANGED <<shop, rows, edits, history>>

\* refresh_wait_time_estimate inside the transaction, and conn.commit().  The
\* function catches an error of its SELECT, the transaction stays aborted, and
\* PostgreSQL answers COMMIT with a ROLLBACK that psycopg2 does not report.
Commit(w) ==
    /\ pc[w] = "commit"
    /\ \/ /\ status' = [status EXCEPT ![at[w]] = "waiting"]
          /\ UNCHANGED <<nextId, user, rowType>>
       \/ RollBack({at[w]}, "swallowed")
    /\ Goto(w, "answer")
    /\ UNCHANGED <<shop, edits, history>>

\* Mutant: the reply is sent before conn.commit().
AnswerBeforeCommit(w) ==
    /\ pc[w] \in {"commit", "answer"}
    /\ confirmed' = confirmed \cup {at[w]}
    /\ IF pc[w] = "answer" THEN Return(w) ELSE UNCHANGED threads
    /\ UNCHANGED <<shop, rows, edits, known>>

\* 【受付完了】 with Ahead(at[w]).
Answer(w) ==
    /\ pc[w] = "answer"
    /\ confirmed' = confirmed \cup {at[w]}
    /\ Return(w)
    /\ UNCHANGED <<shop, rows, edits, known>>

\* The thread dies, or a statement or the reply raises: the open transaction is
\* rolled back, and of its customer nothing is known.
Abort(w) ==
    /\ pc[w] # "idle"
    /\ RollBack({i \in Ids : i = at[w] /\ status[i] = "pending"}, "none")
    /\ known' = [known EXCEPT ![w] = 0]
    /\ Return(w)
    /\ UNCHANGED <<shop, edits, confirmed>>
-----------------------------------------------------------------------------
(* キャンセル.  待ち時間 reads Ahead and changes nothing. *)

\* The message is sent; the history notes a ticket the user knows he has.
BeginCancel(w, u) ==
    /\ pc[w] = "idle"
    /\ pc' = [pc EXCEPT ![w] = "cancel"]
    /\ of' = [of EXCEPT ![w] = u]
    /\ LET mine == {i \in confirmed : user[i] = u}
       IN  \E i \in IF mine = {} THEN {0} ELSE mine :
              known' = [known EXCEPT ![w] = i]
    /\ UNCHANGED <<shop, rows, want, booked, at, edits, confirmed>>

\* Mutant: only waiting tickets are looked for.
CancelFindWaiting(w) ==
    /\ pc[w] = "cancel"
    /\ LET mine == {i \in Held(of[w]) : status[i] = "waiting"}
       IN  IF mine = {} THEN Return(w)
           ELSE /\ at' = [at EXCEPT ![w] = CHOOSE i \in mine : \A j \in mine : j <= i]
                /\ pc' = [pc EXCEPT ![w] = "picked"]
                /\ UNCHANGED <<of, want, booked>>
    /\ UNCHANGED <<shop, rows, edits, history>>

\* The subquery: the newest active row, or キャンセル対象の予約はありません.
CancelFind(w) ==
    /\ pc[w] = "cancel"
    /\ \/ Held(of[w]) = {} /\ Return(w)
       \/ \E i \in Held(of[w]) :
             /\ \A j \in Held(of[w]) : j <= i
             /\ at' = [at EXCEPT ![w] = i]
             /\ pc' = [pc EXCEPT ![w] = "picked"]
             /\ UNCHANGED <<of, want, booked>>
    /\ UNCHANGED <<shop, rows, edits, history>>

\* The UPDATE by id, whatever the status is by then, and its commit.
CancelWrite(w) ==
    /\ pc[w] = "picked"
    /\ status' = [status EXCEPT ![at[w]] = "closed"]
    /\ confirmed' = confirmed \ {at[w]}
    /\ Return(w)
    /\ UNCHANGED <<shop, nextId, user, rowType, edits, known>>

-----------------------------------------------------------------------------
(* Calls, from ReservationQueue: what they do to the line. *)

MoveTicket(i, from, to) ==
    /\ status[i] \in from
    /\ status' = [status EXCEPT ![i] = to]
    /\ confirmed' = IF to = "closed" THEN confirmed \ {i} ELSE confirmed
    /\ UNCHANGED <<shop, nextId, user, rowType, threads, edits, known>>

Call(i) == MoveTicket(i, {"waiting"}, "called")
Close(i) == MoveTicket(i, {"waiting", "called"}, "closed")

\* The push failed, or the ticket was edited on the status screen.
PutBack(i) == MoveTicket(i, {"called"}, "waiting")
-----------------------------------------------------------------------------
(* Administrators. *)

Edit ==
    /\ edits < MaxEdits
    /\ edits' = edits + 1
    /\ UNCHANGED <<rows, threads, history>>

\* admin_types_page, POST: an administrator adds a type; names are unique.
AddType(t, n) ==
    /\ Edit
    /\ name[t] = None /\ account[TypeOwner[t]] # "gone"
    /\ \A t2 \in Types : name[t2] # n
    /\ name' = [name EXCEPT ![t] = n]
    /\ UNCHANGED <<accepting, open, account>>

\* admin_types_update_name waits for an INSERT whose foreign key looks at the row.
RenameType(t, n) ==
    /\ Edit
    /\ name[t] \in Names
    /\ \A t2 \in Types : name[t2] # n
    /\ \A i \in Ids : status[i] = "pending" => rowType[i] # t
    /\ name' = [name EXCEPT ![t] = n]
    /\ UNCHANGED <<accepting, open, account>>

\* admin_types_toggle: one UPDATE.
ToggleType(t) ==
    /\ Edit
    /\ name[t] \in Names
    /\ accepting' = [accepting EXCEPT ![t] = ~@]
    /\ UNCHANGED <<name, open, account>>

\* admin_types_delete: refused while any ticket refers to the type.
DeleteType(t) ==
    /\ Edit
    /\ name[t] \in Names
    /\ \A i \in Ids : rowType[i] # t
    /\ name' = [name EXCEPT ![t] = Removed]
    /\ UNCHANGED <<accepting, open, account>>

\* admin_accounts_toggle_active; admin_accounts_delete, which is refused while
\* types (and with them tickets) refer to the account.
SetAccount(o, state) ==
    /\ Edit
    /\ account[o] \notin {"gone", state}
    /\ state = "gone" => \A t \in Types : TypeOwner[t] = o => name[t] \notin Names
    /\ account' = [account EXCEPT ![o] = state]
    /\ UNCHANGED <<name, accepting, open>>

\* set_accepting_new (how admin_toggle_accepting finds the flag is in AcceptingFlag).
SetOpen(o, flag) ==
    /\ Edit
    /\ account[o] # "gone" /\ open[o] # flag
    /\ open' = [open EXCEPT ![o] = flag]
    /\ UNCHANGED <<name, accepting, account>>
-----------------------------------------------------------------------------
\* What thread w could have found open: a history, kept by every step.
OpenTo(w) ==
    {t \in Types : name[t] = want[w] /\ accepting[t]} \cup {o \in Owners : Taking(o)}

Observe ==
    seen' = [w \in Workers |->
               IF pc'[w] \in {"idle", "cancel", "picked"} THEN {}
               ELSE IF pc'[w] \in {"gate", "type"} THEN seen[w] \cup OpenTo(w)'
               ELSE (seen[w] \cup OpenTo(w)') \cap {booked'[w], TypeOwner[booked'[w]]}]

Customer(w) ==
    \/ \E u \in Users : BeginCancel(w, u) \/ \E n \in Names : Begin(w, u, n)
    \/ Gate(w) \/ ReadType(w) \/ ReadOwner(w) \/ CheckExisting(w)
    \/ Insert(w) \/ InsertConflicts(w) \/ InsertFails(w)
    \/ Commit(w) \/ Answer(w) \/ Abort(w)
    \/ CancelFind(w) \/ CancelWrite(w)

Line == \E i \in Ids : Call(i) \/ Close(i) \/ PutBack(i)

Shopkeeper ==
    \/ \E t \in Types : ToggleType(t) \/ DeleteType(t)
    \/ \E t \in Types, n \in Names : AddType(t, n) \/ RenameType(t, n)
    \/ \E o \in Owners, state \in {"active", "inactive", "gone"} : SetAccount(o, state)
    \/ \E o \in Owners, flag \in BOOLEAN : SetOpen(o, flag)

Next ==
    /\ (\E w \in Workers : Customer(w)) \/ Line \/ Shopkeeper
    /\ Observe

Spec == Init /\ [][Next]_vars
-----------------------------------------------------------------------------
\* A stop holds for everybody who comes after it: a ticket is of a type that,
\* at some moment since its thread began, bore the requested name and accepted,
\* and of an owner who took tickets at some (perhaps another) such moment.
\* Flags, rows and the INSERT are separate statements in process_reservation,
\* and a missing account counts as accepting: the foreign keys make up for it.
StopsAreHonoured ==
    \A w \in Workers :
        pc[w] \in {"commit", "answer"} =>
            {booked[w], TypeOwner[booked[w]]} \subseteq seen[w]

\* 受付完了 is said of stored tickets only, in whatever order threads commit,
\* roll back and die, unless an error inside the transaction was swallowed.
ConfirmedIsStored ==
    \A i \in confirmed : status[i] \in {"waiting", "called", "closed", "swallowed"}

\* The number of people ahead of a waiting ticket, which its customer is told,
\* never grows, unless a call is put back: no ticket of the owner can appear
\* with a smaller id, because his reservations commit in the order of their ids.
AheadNeverGrows ==
    [][\A i \in Ids :
          /\ status[i] = "waiting" /\ status'[i] = "waiting"
          /\ \A j \in Ids : status[j] = "called" => status'[j] # "waiting"
          => Ahead(i)' <= Ahead(i)]_vars

\* Four threads may run a user's messages in any order, but a cancel sent after
\* 受付完了 was seen closes that ticket before it is answered.
KnownTicketIsCancelled ==
    \A w \in Workers :
        pc[w] = "idle" /\ known[w] # 0 => status[known[w]] \in {"closed", "swallowed"}
=============================================================================
