-------------------------------- MODULE Backup --------------------------------
(***************************************************************************)
(* Backup and restoration of reservation types and reservations, of the    *)
(* whole database or of one account, while customers and administrators go *)
(* on.  Every SELECT of an export has its own snapshot, and so has every   *)
(* statement of an account's import (READ COMMITTED).  Sequences belong to *)
(* no transaction: an id is drawn, and a sequence set, at once.  Rows are  *)
(* records; of a reservation only what constraints and imports look at is  *)
(* kept.                                                                   *)
(***************************************************************************)
EXTENDS Integers, Sequences, FiniteSets

CONSTANTS
    Owners,   \* administrator accounts (their changes: AdminAccounts)
    Users,    \* LINE users
    Names,    \* names of reservation types
    Full,     \* scope of a backup of the whole database
    MaxType,  \* bound: ids of reservation types
    MaxRes,   \* bound: ids of reservations
    MaxNew    \* bound: rows that others are inserting at a time

ASSUME BackupAssumption ==
    /\ Full \notin Owners
    /\ MaxType \in Nat /\ MaxRes \in Nat /\ MaxNew \in Nat

Tables == {"types", "res"}  \* reservation_types, reservations
MaxId == [tab \in Tables |-> IF tab = "types" THEN MaxType ELSE MaxRes]

TypeRows == [id : 1..MaxType, owner : Owners, name : Names]
ResRows == [id : 1..MaxRes, user : Users, owner : Owners, type : 1..MaxType,
            active : BOOLEAN]
RowsOf == [tab \in Tables |-> IF tab = "types" THEN TypeRows ELSE ResRows]

VARIABLES
    db,       \* the rows of each table that are committed
    new,      \* rows that others are inserting: the id is drawn
    seq,      \* SERIAL of each table
    unseen,   \* history: ids of rows that the last reset of each could not see
    export,   \* the export that is running: its file so far, or no file
    file,     \* the backup that was saved last, or no file
    at,       \* the next statement of the account's import that runs, or 0
    gone,     \* rows it has deleted
    mine,     \* rows it has inserted
    todo,     \* rows of its file that it has still to insert
    rivals,   \* history: rows that have been there since its DELETE
    restored  \* has an import just answered that it is done?

work == <<db, new, rivals>>
sequences == <<seq, unseen>>
backups == <<export, file>>
transaction == <<at, gone, mine, todo>>
vars == <<work, sequences, backups, transaction, restored>>

AccountImport ==
    << <<"check", "types">>, <<"check", "res">>, <<"delete", "res">>, <<"delete", "types">>,
       <<"insert", "types">>, <<"insert", "res">>, <<"reset", "types">>, <<"reset", "res">>,
       <<"commit", "all">> >>

DeleteOf == [tab \in Tables |-> IF tab = "res" THEN 3 ELSE 4]

Empty == [tab \in Tables |-> {}]
Rows(x) == \A tab \in Tables : x[tab] \subseteq RowsOf[tab]

TypeOK ==
    /\ \A x \in {db, new, gone, mine, todo, rivals} : DOMAIN x = Tables /\ Rows(x)
    /\ DOMAIN seq = Tables /\ DOMAIN unseen = Tables
    /\ \A tab \in Tables :
          seq[tab] \in 1..MaxId[tab] + 1 /\ unseen[tab] \subseteq 1..MaxId[tab]
    /\ \A job \in {export, file} :
         Cardinality(job) <= 1 /\ \A f \in job :
            f.scope \in Owners \cup {Full} /\ DOMAIN f.rows = Tables /\ Rows(f.rows)
    /\ at \in 0..9
    /\ restored \in BOOLEAN

Init ==
    /\ db = Empty /\ new = Empty
    /\ seq = [tab \in Tables |-> 1] /\ unseen = Empty
    /\ export = {} /\ file = {}
    /\ at = 0
    /\ gone = Empty /\ mine = Empty /\ todo = Empty /\ rivals = Empty
    /\ restored = FALSE

IdsOf(rows) == {r.id : r \in rows}
ActiveUsers(rows) == {r.user : r \in {x \in rows : x.active}}
OwnedBy(o, rows) == {r \in rows : r.owner = o}

\* The unique indexes: reservation_types_pkey and _name_key, reservations_pkey
\* and uq_reservations_user_active.
Clash(tab, x, y) ==
    \/ x.id = y.id
    \/ tab = "types" /\ x.name = y.name
    \/ tab = "res" /\ x.active /\ y.active /\ x.user = y.user

\* fk_reservations_type_id.
References(rows) == \A r \in rows["res"] : r.type \in IdsOf(rows["types"])
-----------------------------------------------------------------------------
(* The shop goes on.  What is committed is a rival of an import's rows. *)

Draw(tab, row) ==
    /\ seq[tab] <= MaxId[tab]
    /\ Cardinality(new["types"] \cup new["res"]) < MaxNew
    /\ new' = [new EXCEPT ![tab] = @ \cup {row}]
    /\ seq' = [seq EXCEPT ![tab] = @ + 1]
    /\ restored' = FALSE
    /\ UNCHANGED <<db, rivals, unseen, backups, transaction>>

\* admin_types_page, POST.
AddType(o, n) ==
    Draw("types", [id |-> seq["types"], owner |-> o, name |-> n])

\* 予約, of a user who has no active ticket.
Reserve(u, t) ==
    /\ u \notin ActiveUsers(db["res"])
    /\ Draw("res", [id |-> seq["res"], user |-> u, owner |-> t.owner,
                    type |-> t.id, active |-> TRUE])

Write(tab, rows, row) ==
    /\ db' = [db EXCEPT ![tab] = rows]
    /\ rivals' = IF at <= DeleteOf[tab] THEN rivals ELSE [rivals EXCEPT ![tab] = @ \cup row]
    /\ restored' = FALSE
    /\ UNCHANGED <<sequences, backups, transaction>>

\* The INSERT waits for whoever holds a row it conflicts with or refers to, an
\* import too, until that one has committed or rolled back.
CommitRow(tab, x) ==
    /\ \A y \in db[tab] \cup mine[tab] : ~Clash(tab, x, y)
    /\ tab = "res" => x.type \in IdsOf(db["types"] \ gone["types"])
    /\ Write(tab, db[tab] \cup {x}, {x})
    /\ new' = [new EXCEPT ![tab] = @ \ {x}]

\* A conflict, or any other end without a commit: the id is lost.
RollbackRow(tab, x) ==
    /\ new' = [new EXCEPT ![tab] = @ \ {x}]
    /\ restored' = FALSE
    /\ UNCHANGED <<db, rivals, sequences, backups, transaction>>

\* admin_types_delete: refused while reservations refer to the type.
DeleteType(t) ==
    /\ t \notin gone["types"]
    /\ \A r \in db["res"] \cup mine["res"] : r.type # t.id
    /\ Write("types", db["types"] \ {t}, {})
    /\ UNCHANGED new

\* The ticket is finished or cancelled.
Close(r) ==
    /\ r.active /\ r \notin gone["res"]
    /\ LET closed == [r EXCEPT !.active = FALSE]
       IN  Write("res", (db["res"] \ {r}) \cup {closed}, {closed})
    /\ UNCHANGED new
-----------------------------------------------------------------------------
(* Export: admin_backup_export, admin_backup_export_account. *)

InScope(scope, rows) == IF scope = Full THEN rows ELSE OwnedBy(scope, rows)

ExportTypes(scope) ==
    /\ export = {} /\ at = 0
    /\ export' = {[scope |-> scope,
                   rows |-> [Empty EXCEPT !["types"] = InScope(scope, db["types"])]]}
    /\ restored' = FALSE
    /\ UNCHANGED <<work, sequences, file, transaction>>

ExportReservations ==
    /\ \E f \in export :
          file' = {[f EXCEPT !.rows["res"] = InScope(f.scope, db["res"])]}
    /\ export' = {}
    /\ restored' = FALSE
    /\ UNCHANGED <<work, sequences, transaction>>
-----------------------------------------------------------------------------
HighestId(ids) == CHOOSE i \in ids : \A j \in ids : j <= i

\* Mutant: setval with the highest id itself.
NextIdInUse(ids) == IF ids = {} THEN 1 ELSE HighestId(ids)

\* _reset_sequence: setval(..., MAX(id) + 1, false).
NextId(ids) == IF ids = {} THEN 1 ELSE HighestId(ids) + 1

(* Import of the whole database.  TRUNCATE locks every table until the end, and *)
(* makes the reset of the sequence a part of the transaction. *)

\* TRUNCATE ... CASCADE of a table empties the tables that refer to it.
ImportTypes(rows) == [Empty EXCEPT !["types"] = rows]

\* import_order of admin_backup_import; a file has no conflicts with itself.
Loaded(f) == [ImportTypes(f.rows["types"]) EXCEPT !["res"] = f.rows["res"]]

FullImportOrder == {"admin_accounts", "reservation_types", "reservations",
                    "app_settings", "admin_login_logs", "login_attempt_records"}

\* app_settings has its key for a primary key.
HasId(table) == table # "app_settings"

\* pg_get_serial_sequence raises for a table without id, the exception is only
\* logged, and PostgreSQL answers the COMMIT of the broken transaction with a
\* ROLLBACK that psycopg2 does not report.
ResetAndCommit(rows) ==
    IF \A table \in FullImportOrder : HasId(table)
    THEN /\ db' = rows
         /\ seq' = [tab \in Tables |-> NextId(IdsOf(rows[tab]))]
         /\ unseen' = Empty
    ELSE UNCHANGED <<db, sequences>>

\* admin_backup_import; a row without its type fails all of it.
ImportFull ==
    /\ at = 0 /\ export = {} /\ new = Empty
    /\ \E f \in file :
         /\ f.scope = Full
         /\ IF References(Loaded(f)) THEN ResetAndCommit(Loaded(f)) /\ restored' = TRUE
            ELSE UNCHANGED <<db, sequences>> /\ restored' = FALSE
    /\ UNCHANGED <<new, rivals, backups, transaction>>
-----------------------------------------------------------------------------
(* Import of an account, admin_backup_import_account.  Bound: one at a time, and *)
(* none while an export runs; no file is replaced while it is imported. *)

\* What the transaction itself sees.
Visible == [tab \in Tables |-> (db[tab] \ gone[tab]) \cup mine[tab]]

BeginImport(f) ==
    /\ at = 0 /\ export = {} /\ f.scope # Full
    /\ at' = 1
    /\ todo' = f.rows
    /\ restored' = FALSE
    /\ UNCHANGED <<work, sequences, backups, gone, mine>>

\* The next statement of the import that is running is this one.
Statement(what, tab) ==
    /\ at # 0 /\ AccountImport[at] = <<what, tab>>
    /\ restored' = FALSE
    /\ UNCHANGED <<db, new, backups>>

Continue == at' = at + 1

\* ValueError, unless no id of the file belongs to another account.
Check(f, tab) ==
    /\ Statement("check", tab)
    /\ \A x \in db[tab] : x.owner # f.scope => x.id \notin IdsOf(f.rows[tab])
    /\ Continue
    /\ UNCHANGED <<sequences, rivals, gone, mine, todo>>

DeleteRows(f, tab, rows) ==
    /\ Statement("delete", tab)
    /\ gone' = [gone EXCEPT ![tab] = rows]
    /\ tab = "types" => \A r \in db["res"] \ gone["res"] : r.type \notin IdsOf(rows)
    /\ rivals' = [rivals EXCEPT ![tab] = db[tab] \ rows]
    /\ Continue
    /\ UNCHANGED <<sequences, mine, todo>>

\* Mutant: without the account.
DeleteAll(f, tab) == DeleteRows(f, tab, db[tab])

\* DELETE of the account's rows; a type that tickets refer to fails.
Delete(f, tab) == DeleteRows(f, tab, OwnedBy(f.scope, db[tab]))

\* uq_reservations_owner_reservation_no, about numbers that are not modelled: a
\* ticket of the account booked since the DELETE may have the number of x.
NumberTaken(f, tab) == tab = "res" /\ OwnedBy(f.scope, db["res"] \ gone["res"]) # {}

Put(f, tab, x) ==
    /\ tab = "res" => x.type \in IdsOf(Visible["types"])
    /\ mine' = [mine EXCEPT ![tab] = @ \cup {x}]

NextRow(tab) == {x \in todo[tab] : \A y \in todo[tab] : x.id <= y.id}

InsertRow(f, tab, x, taken) ==
    /\ Statement("insert", tab)
    /\ \/ ~taken /\ Put(f, tab, x)
       \/ (taken \/ NumberTaken(f, tab)) /\ UNCHANGED mine
    /\ todo' = [todo EXCEPT ![tab] = @ \ {x}]
    /\ UNCHANGED <<sequences, rivals, at, gone>>

\* Mutant: conflicting rows are inserted all the same.
InsertUnchecked(f, tab) ==
    \E x \in NextRow(tab) : InsertRow(f, tab, x, FALSE)

\* Mutant: the unique index on the customer covers closed tickets too.
InsertAnyStatus(f, tab) ==
    \E x \in NextRow(tab) :
        InsertRow(f, tab, x, \E y \in Visible[tab] :
            Clash(tab, x, y) \/ (tab = "res" /\ y.active /\ x.user = y.user))

\* INSERT ... ON CONFLICT DO NOTHING of the next row; one without its type fails.
Insert(f, tab) ==
    \E x \in NextRow(tab) :
        InsertRow(f, tab, x, \E y \in Visible[tab] : Clash(tab, x, y))

Inserted(tab) ==
    /\ Statement("insert", tab)
    /\ todo[tab] = {}
    /\ Continue
    /\ UNCHANGED <<sequences, rivals, gone, mine, todo>>

\* setval, of what the import sees: it is not taken back.
Reset(tab) ==
    /\ Statement("reset", tab)
    /\ seq' = [seq EXCEPT ![tab] = NextId(IdsOf(Visible[tab]))]
    /\ unseen' = [unseen EXCEPT ![tab] =
                     {i \in IdsOf(new[tab] \cup gone[tab]) : i >= seq'[tab]}]
    /\ Continue
    /\ UNCHANGED <<rivals, gone, mine, todo>>

EndImport ==
    /\ at' = 0
    /\ gone' = Empty /\ mine' = Empty /\ todo' = Empty /\ rivals' = Empty
    /\ UNCHANGED <<new, sequences, backups>>

Commit ==
    /\ at # 0 /\ AccountImport[at] = <<"commit", "all">>
    /\ db' = Visible
    /\ restored' = TRUE
    /\ EndImport

\* An exception, or the end of the process.
Fail ==
    /\ at # 0
    /\ EndImport
    /\ restored' = FALSE
    /\ UNCHANGED db

Next ==
    \/ \E o \in Owners, n \in Names : AddType(o, n)
    \/ \E u \in Users, t \in db["types"] : Reserve(u, t)
    \/ \E tab \in Tables : \E x \in new[tab] : CommitRow(tab, x) \/ RollbackRow(tab, x)
    \/ \E t \in db["types"] : DeleteType(t)
    \/ \E r \in db["res"] : Close(r)
    \/ \E scope \in Owners \cup {Full} : ExportTypes(scope)
    \/ ExportReservations
    \/ ImportFull
    \/ \E f \in file :
          \/ BeginImport(f)
          \/ \E tab \in Tables : Check(f, tab) \/ Delete(f, tab) \/ Insert(f, tab)
    \/ \E tab \in Tables : Inserted(tab) \/ Reset(tab)
    \/ Commit \/ Fail

Spec == Init /\ [][Next]_vars
-----------------------------------------------------------------------------
\* However imports, exports and the shop's work are mixed, a user has at most
\* one active ticket, ids and names are unique, and a ticket's type exists.
TablesConsistent ==
    /\ \A tab \in Tables : \A x, y \in db[tab] : x # y => ~Clash(tab, x, y)
    /\ References(db)

\* テーブルの SERIAL シーケンスを最大 id 値にリセットする: a reset leaves the next SERIAL
\* value beyond the id of every row but those that it could not see, rows being
\* inserted meanwhile and, if its import fails afterwards, those it had deleted.
SequencesAheadOfSeen ==
    \A tab \in Tables : \A x \in db[tab] : x.id < seq[tab] \/ x.id \in unseen[tab]

\* 他のアカウントのデータや設定には影響しません: the restoration of an account
\* leaves all other accounts' rows alone.
OthersUntouched ==
    [][\A f \in file : restored' /\ at # 0 =>
          \A tab \in Tables :
              db'[tab] \ OwnedBy(f.scope, db'[tab]) = db[tab] \ OwnedBy(f.scope, db[tab])]_vars

\* Why the import may leave out a row of its file.
Excuses(tab, y, x) == Clash(tab, y, x) \/ (tab = "res" /\ y.owner = x.owner)

\* A restored account holds rows of the file and rows that it has got since the
\* DELETE, nothing else; and a row of the file is missing only where another one,
\* left by the DELETE or younger, has its id, its name or its customer, or may
\* have its number.
RestoredOrTaken ==
    [][\A f \in file : restored' /\ at # 0 =>
          \A tab \in Tables :
              /\ OwnedBy(f.scope, db'[tab]) \subseteq f.rows[tab] \cup rivals[tab]
              /\ \A x \in f.rows[tab] \ db'[tab] :
                    \E y \in rivals[tab] : Excuses(tab, y, x)]_vars

\* データベース全体を復元します: a restoration of the whole database that is
\* reported as done brings back every row of the file, and nothing else remains.
FullRestoreIsFile ==
    [][\A f \in file : restored' /\ f.scope = Full => db' = f.rows]_vars
=============================================================================
