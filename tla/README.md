# LINEBOT: a verification project

LINEBOT hands out numbered tickets to customers through a LINE chat, lets shop
administrators call them, and calls waiting customers by itself every five
minutes. It is a Flask application on PostgreSQL (READ COMMITTED) with an
optional Redis, run by gunicorn; webhook events are processed by a thread pool
inside the same process, and a cron job posts to `/tasks/process-call-queue`
every minute. What is hard about it is not any one handler but their overlap:
webhook threads, administrators' requests, one or more runs of the batch, two
revisions of the application during a deployment, and LINE's redeliveries, all
meeting in a few database rows, with calls to LINE in the middle that are slow
and may fail.

The modules below translate that code. `PROJECT.json` gives, for every
definition, the lines of the source it stands for.

## Components

| component | state | operations | talks to | hard behaviour | what makes it correct |
|---|---|---|---|---|---|
| Reservation queue (`services/queue_service.py`, `blueprints/line_routes.py`, `blueprints/admin_routes.py`, index in `database.py`) | table `reservations`; the row ids a calling handler holds in local variables | 予約, キャンセル, admin call / finish / cancel, status screen, timeout sweep, midnight cancel, automatic call, push, rollback, delete all | LINE push; settings; numbers | overlapping batches, closing a ticket during its push, rollback on stale data, crash between claim and push | one active ticket per user; one caller per ticket; no call without a notice; a confirmed call stands; called tickets get resolved |
| Intake (`line_routes.process_reservation`) | local variables of a thread between its statements | 予約, キャンセル, 待ち時間 | types, accounts, flags, queue, numbers | flags, type, account, existing ticket and INSERT are separate statements; an error swallowed before COMMIT | a stop holds for whoever comes later; what is confirmed is stored; nobody is overtaken |
| Ticket numbers (`queue_service.allocate_admin_reservation_no`, `database.ensure_admin_accounts_table`) | `reservation_number_sequences`, the unique index on numbers, settings `management_no*` | allocate, issue, roll back, raise at process start, set the digit | queue; schema initialisation | parallel transactions, rollback of the increment, restart, wrap-around, exhaustion | well-formed numbers; a sequence without gaps |
| Webhook intake (`line_routes.callback`, `_process_webhook`, `handle_message`, claims in `database.py`) | executor queue, threads, table `webhook_events` | receive, claim, skip, process, release | LINE platform; intake | acknowledged before processed, redelivery, crash, failing release | one thread per event; repeated only for a reason; failed events can come again |
| LINE messages (`services/line_service.py`) | none of its own | push with retry key, reply, broadcast | LINE platform | unconfirmed delivery, retries | no duplicate notice, no lost one |
| Connections (`database.py`, `main.close_request_connection`) | pool of 5 to 20 | check out, return, close | all | exhaustion, nested check-out, lost slots | every slot comes back |
| Schema (`database.ensure_database_schema`, `reset_schema_cache`) | `SCHEMA_READY`, two locks and the pool of a process; the tables | create, repair, renumber, migrate, reset | numbers, backup | nested locks, steps that fail half-way, old rows that contradict an index, two processes | pages only over a complete schema; repairs stand; in the end it serves |
| Schedule of the cron job (`queue_service.process_queued_calls`) | settings `last_*`, `previous_*` | midnight branch, batch branch, summaries | queue | missing, doubled, late, overlapping ticks | the day before is cleared; summaries chain |
| Accepting flag (`admin_routes.admin_toggle_accepting`, `database.set_accepting_new`) | `admin_accounts.accepting_new` | toggle, read | intake, accounts | read-then-write in two transactions | the button does what its user saw |
| Rate limits (`database.py`, `main.login`) | two tables or Redis counters | check, record, clean up | webhook, login | check-then-record, waiting for a lock, fixed windows | at most N in a window |
| Accounts and sessions (`auth.py`, `admin_routes.py`) | `admin_accounts`, session cookies | create, rename, deactivate, delete, log in | all screens | last audit administrator; sessions of deactivated accounts | one audit administrator remains |
| Reservation types (`admin_routes.py`) | `reservation_types` | create, rename, stop, delete | intake, backup | changed between check and INSERT | stopped types get no tickets |
| Backup (`backup_routes.py`) | all tables | export, import, delete all | schema, numbers | export without a snapshot; an import that is several statements, skips conflicts, and sets the sequences for everybody at once | what is restored is what was saved |
| Waiting time | none | estimate | intake, batch | error inside a transaction | people ahead never grow |
| Screens, layouts, set-up | none | render | - | - | - |

`PROJECT.json` lists the same components with their status, and the hazards of
this code, each at the line where it bites and with the properties that cover
it.

## Modules

**`ReservationQueue`**: the table and everything that moves a row of it. Rows are
`1..MaxId` in the order of the SERIAL column; a column is a function on them
(`status`, `user`, `owner`, `origin`), time stamps are reduced to what the code
compares: `age` is the number of minutes since `called_at` up to the timeout
(`NoStamp` for NULL), `completed` says whether `completed_at` is set. An UPDATE
whose own WHERE clause is rechecked on the locked row is one step. The cancel
command is two (`UserCancelFind`, `UserCancelWrite`): its WHERE clause compares
the id with a subquery that PostgreSQL evaluates once, and does not evaluate
again after waiting for the row's lock. A call to LINE is outside every
transaction, so claiming, each push, and the rollback are separate steps of a
handler (`pc`, `todo`, `failed` are its local variables). `AutoCall` picks any
set of rows as locked by others (SKIP LOCKED), which also stands for rows the
join with `reservation_types` leaves out, and any count per owner. Three history
variables record what the program does not store: since when the customer has
been told (`heard`), which rows the status screen made active (`reopened`), and
which called rows were left behind by a dead handler (`orphaned`).

**`TicketLifecycle`**: the abstract specification of one ticket: absent, waiting,
calling, told, closed. `ReservationQueue!ImplementsLifecycle` maps every row to
its phase. Tickets that an administrator has made active on the status screen,
or whose caller died, leave the protocol (`released`).

**`Intake`**: `process_reservation` one statement at a time, `pc` naming the next
one: `Gate` (does any account take tickets?), `ReadType`, `ReadOwner`,
`CheckExisting`, `Insert` (in which a transaction waits for another one of its
owner, whose sequence row is locked, or of its user, by the unique index),
`Commit`, `Answer`; for キャンセル `CancelFind` and `CancelWrite`. Between any two of
them administrators stop, rename, add and delete types and accounts. `Commit` may
turn out to be a rollback nobody notices (status "swallowed"): the function
`refresh_wait_time_estimate` catches the error of a SELECT in the transaction and
PostgreSQL answers the COMMIT with a ROLLBACK. Histories: `seen` (the types and
owners that were open at some moment since the message came), `confirmed` (rows
whose customer read 受付完了) and `known` (such a row when its user sent a cancel).
Ticket calls appear as what they do to the line (`Call`, `Close`, `PutBack`).

**`ReservationNumbers`**: allocation of XXXYZA under the row lock of the owner's
sequence. `Allocate` locks and increments, `Issue` inserts and commits,
`Rollback` is a collision, an existing ticket of the user, or a lost thread;
`StartRead` and `StartWrite` are the two halves of the upsert every process start
performs (its snapshot, then each locked row).

**`SchemaInit`**: `ensure_database_schema` by several threads of several processes,
with the flag, `SCHEMA_LOCK`, the pool and `POOL_LOCK`. Each step is one
transaction that takes ACCESS EXCLUSIVE locks, so it is one action on `tables` and
`rows`; `RepairRows` (owners from types, numbers after the owner's highest; it may
find no active administrator, and then types and their rows stay without an owner)
and `Migrate` (the status "queued" of older versions) compute the new rows. A database
is empty, or one of an older version with any leftovers. `Fails` says which steps
can only raise; `Raise` is that, or a broken connection (`MaxErrors`); `Reset` is
the end of an import. Resetting in the middle of an initialisation turns out to
be harmless: every step can be repeated.

**`WebhookEvents`**: deliveries, the pool, the claim table. `effects` counts the
committed executions of an event's command, `late` the exceptions after a commit.

**`RateLimits`**: the clock divides the window; `limiter` is chosen at the start.
Login: `LoginCheck`, `LoginWrong`, `RecordFailure` are transactions of their own.
Table: `Arrive` starts the transaction (its CURRENT_TIMESTAMP), `Count` has the
advisory lock, `InsertRecord` stamps the row with the start. Redis: `Hit` is the
script, `Judge` what becomes of its answer.

**`CallSchedule`**: executions of `process_queued_calls` that begin at 0:00 or
another minute, may be late with every step, overlap and fail: `CancelAll` (or
`CancelFails`) at midnight, `Sweep` otherwise, then the batch, `Read`, `Claim`,
`PutBack` and `Save`. Of the tickets it knows which statuses those of the day before
(`old`) and newer ones (`fresh`) are in, and so each step has any effect it can have on
a set of statuses; of summaries, which batch they describe. Customers and
administrators act in between (`Book`, `Handle`); `Reopen` is the status screen, which
makes a closed ticket of any day active again and sets the history variable `revived`.

**`AdminAccounts`**: accounts by SERIAL id, the session of each browser, and the
four steps of a management request (authenticate, read the target, count, write),
each a statement of its own, so that other requests and process starts come in
between. `Start` is the upsert of "admin" and "audit": renaming "audit" and
restarting makes a second audit administrator. The history variable `overtaken`
notes that somebody was deactivated or deleted while his own request of that kind
was under way.

**`AcceptingFlag`**: the button in two transactions (`Read`, `Write`) of several tabs.

**`ConnectionPool`**: one process's pool as psycopg2 implements it (external:
`Getconn`, `Putconn`, `Exhausted`), the connection a request keeps in `flask.g`,
the second one of the CSV generator, and those of nested `with` blocks in webhook
threads. `used` is psycopg2's table `_used`; only `putconn` removes an entry.

**`LinePush`**: the retry loop of `send_push_message` (and, line for line,
`send_broadcast_message`) against a network that loses or delays requests and
answers, and LINE, which accepts a retry key once and answers 409 afterwards.

**`Backup`**: types and reservations as sets of rows, an export in two SELECTs, the
full and the per-account import, and the shop's work between them. The import of an
account is one transaction of several statements (`AccountImport`: two checks, two
DELETEs, an INSERT per row, two `setval`, the COMMIT), each with a snapshot of its
own: it sees `Visible`, what is committed without the rows it has deleted (`gone`) and
with those it has inserted (`mine`). Others insert in two steps, because a SERIAL id
is drawn (`Draw`) before its row is committed (`CommitRow`) or given up
(`RollbackRow`), and `setval` (`Reset`) takes effect at once and stays when the import
fails. The history `unseen` are the ids ahead of a sequence that its last reset could
not see, `rivals` the rows that a DELETE left or that have been committed since. The
import of the whole database begins with TRUNCATE, which locks every table until the
end; it is one action (`Loaded`, `ResetAndCommit`).

**`MC...`** modules instantiate these for TLC (symmetry, sets as constants). Four of
them hold several components that share no variable: a variable `part`, chosen
initially, says which one moves, the others stay as they began. `MCBatch` has
`ReservationQueue` and `CallSchedule`; `MCStartup` `ReservationNumbers` and
`SchemaInit`, the latter with both threads in one process (part "schema") or one in
each of two (part "revisions"); `MCMessages` `WebhookEvents`, `RateLimits` and
`LinePush`; `MCAdminAccounts` `AdminAccounts` and `AcceptingFlag`. Such a run asks
each component's own questions; it says nothing of an interaction. `MCBatch`,
`MCMessages` and `MCStartup` also name what the code justifies to assume of the
constants they add (`BatchAssumption`, `LimitsAssumption`, `PushAssumption`,
`StartupAssumption`): a limit, a window and a number of attempts are at least 1, ids
are integers, NULL is no value of its column.

Operators whose comment begins with "Mutant" (`PutBackAnyStatus`, `Key`'s
`KeyPerAttempt`, ...) are plausible errors in the definition that follows them,
used to make sure that each property notices one.

The modules meet in their inputs: `ReservationQueue` takes from `LinePush` that a
push ends in "sent" or "failed", from `WebhookEvents` that commands come in any
order and possibly again; `Intake` takes from `ReservationQueue` what happens to a
ticket in line and from `AdminAccounts` and `AcceptingFlag` that accounts and flags
change at any time, from `ReservationNumbers` that the sequence row is held until
the transaction ends; `CallSchedule` says when the branches of `ReservationQueue`'s
batch are taken; `Backup` shares the rules of a reservation (one active ticket per
user) but not its calls.

## What the runs show

| run | instance | properties |
|---|---|---|
| `queue` | 2 users, 2 rows, 1 administrator, 2 batches of up to two tickets, timeout 1, row 1 editable | `OneActivePerUser`, `StampsMatchStatus`, `ExclusiveCallers`, `NoSilentCall`, `ConfirmedCallStands`, `ImplementsLifecycle` |
| `queue_live` | 1 user, 2 rows, 1 administrator, 1 batch, fairness; beside it 2 ticks, 3 batches that read summaries, any number of days | `TypesOK`; `EveryCallIsResolved`; `NightIsCleared`, `SummariesChain` |
| `intake` | 2 threads, 2 users, 2 owners with a type each, 2 names, 2 rows, 1 change by an administrator | `StopsAreHonoured`, `ConfirmedIsStored`, `KnownTicketIsCancelled`, `AheadNeverGrows` |
| `numbers` | 1 owner, 2 transactions, XXX up to 2, 3 rows; beside it 2 threads of one process or of two, no rows or 2 old ones, 1 error, 1 import, fairness | `TypesOK`; `NumbersWellFormed`, `SequenceAdvances`; `ServedOnSchema`, `RepairsStand`, `RequestsReturn`, `BecomesReady` |
| `webhook` | 2 events, 3 deliveries each, 2 threads; beside it 2 requests at a limit of 2 in a window of 2, 4 moments; 2 pushes of 3 attempts, fairness | `TypesOK`; `ClaimExclusive`, `RepeatsNeedLateFailure`, `ClaimsAccountedFor`; `LimitsHold`, `RefusedForAReason`; `AtMostOneCopy`, `SentIsDelivered`, `PushReturns` |
| `accounts` | 3 login ids, 3 accounts, 2 browsers; beside it 2 accounts, 2 tabs | `TypesOK`; `AuditAdminRemains`; `TogglesFlip` |
| `pool` | 5 connections, 2 to 4 slots, 2 requests, 2 workers nesting two deep | `OneHolder`, `LiveConnectionsReturn` |
| `backup` | 2 accounts, 2 users, 1 type name, 2 type ids, 2 reservation ids, 1 row being inserted | `TablesConsistent`, `SequencesAheadOfSeen`, `OthersUntouched`, `RestoredOrTaken` |

Two rows and two users let a ticket be closed and a second one opened by the
same user, two tickets be in one batch, and two users compete; three callers let
two batches and an administrator meet. Timeout 1 lets a ticket time out before,
during and after its push. In `intake` two rows are a ticket and one ahead of it,
or a user's first and second; one change (of a type, an account or a flag) may
fall between any two statements, and the theorems lift the bound. Two values of XXX
make it wrap; three rows make numbers collide with two values of Y. Two old rows
are what an index can be contradicted by, and what numbering has to tell apart;
a row whose type is gone has no owner there, and the two-process part takes those
old rows only that have a type, no owner yet, and contradict no index: the rows
something is to be repaired in and can be. Four moments are two windows; two requests at a
limit of two exceed it by one. Three batches are one each for `previous`, `last`
and the one being saved. Three accounts are the two every process start creates
and a third, which is a second audit administrator after "audit" was renamed and
the process restarted; two browsers let two requests overlap, two tabs likewise.
Four slots are exhausted by two requests with exports, or by two workers. Three
attempts with requests that may arrive after their attempt give every order of
late requests. Two accounts, each with a type or a ticket the other's backup
claims, are what an import conflicts with; ids up to 2 are enough for a restored
row and a new one, and one row being inserted (`MaxNew`) for an id that a reset does
not see. One name makes every two types conflict and lets the second only follow the
first; two types side by side, which the proofs cover, are too many states. One
account is imported at a time, no export runs beside it, and its file is not replaced
meanwhile; the code forbids none of the three. What is proved (below) holds for all
values of the constants; the bounds matter for the rest. `EveryCallIsResolved` has one user because a
ticket's resolution involves only its own row and the handlers.

`CHECK_DEADLOCK FALSE` stands in two configurations: `Webhook`, once every event
has used up its deliveries or both pushes have returned; `Accounts`, when every
account is deactivated and nobody can log in, or all are deleted.

Four runs are expected to fail; each states what a text of the repository says of
the program and shows a run of the code that contradicts it:

* `backup_silent`: "データベース全体を復元します". The loop that resets the sequences
  covers `app_settings`, which has no column `id`; `pg_get_serial_sequence` raises,
  the exception is swallowed, and the `commit()` of the broken transaction is a
  rollback that psycopg2 does not report. Every full import answers
  `backup_restored` and changes nothing.
* `pool_ready`: the CSV export closes its connection instead of giving it back, so
  each export takes a slot of the pool for good; so does a connection the server
  dropped. In the end an idle process answers every request with an error.
* `queue_finished`: a cancel command that has picked its row overwrites a visit
  the administrator finishes before it gets the lock.
* `numbers_restart`: every process start stores `MAX(reservation_no) + 1`, a six
  digit value, as the next XXX; the next ticket starts over at 1. (Restarts can
  so use up the ten numbers of one XXX; a collision rolls the increment back,
  and later attempts meet the same XXX.)

Some properties that hold name an exception, and the exception is real:

* `ConfirmedIsStored`: the customer reads 受付完了 and a number although nothing is
  stored, when the SELECT of the waiting-time estimate fails inside the
  transaction ("swallowed").
* `StopsAreHonoured` speaks of a moment since the message came, not of the moment
  of the INSERT: whoever has passed the flags gets his ticket, and the type's and
  the owner's flags need not have been open together.
* `KnownTicketIsCancelled` speaks of confirmed tickets: a cancel that overtakes its
  reservation in the thread pool finds nothing, and the ticket stays.
* `NightIsCleared` needs a cancellation that took effect within 0:00 (`night`), and that
  no ticket of the day before has been reopened on the status screen (`revived`), which
  asks for no date.
  "毎日 0:00 JST に…自動でキャンセルされます" (README of the application) is up to the cron
  service: without a tick in that one minute tickets stay for another day, and a tick
  that begins in it and is late cancels whoever came after, which nothing in the
  repository rules out.
* `SummariesChain`: of two overlapping batches the one that saves first is missing
  from the pair of summaries (`overtaken`).
* `TogglesFlip`: two tabs that press the button together do what one does. For an
  account that is deactivated in between, the flag is read as stopped and set to
  TRUE.
* `LimitsHold`. `LoginBounded`: parallel attempts pass the check together, one fewer than there are
  threads may exceed the limit. `UserBounded`: a row that waited for the advisory
  lock is stamped with the start of its transaction, leaves the window early, and
  lets one more message through. `RedisBounded`: two fixed windows meet in one.
* `BecomesReady`: an older database in which one user has two open tickets (a queued
  one counts), or one owner a number twice, contradicts a unique index; the step
  raises on every request, and the process never serves (`Blocked`).
* `RepeatsNeedLateFailure`: an exception after the commit releases the claim, and
  the redelivery is processed again. `ClaimsAccountedFor`: a crash or a failed
  release leaves a claim (`leaked`) that turns the redelivery of an unprocessed
  event into a duplicate. (README of the application: neither happens.)
* `AuditAdminRemains`: two audit administrators who deactivate each other at the
  same time both pass the count (`overtaken`), and none is left. Otherwise it is
  the refusal of one's own account, not the count, that keeps the last one.
* `StampsMatchStatus`: `heard <= age`: the timeout runs from the claim, before the
  pushes of the batch, while the notice announces a deadline computed when it is
  sent, so a ticket can be cancelled early, never late.
* `ServedOnSchema`: a row has an owner if its type has one. Without an active
  administrator the types have none, the step only logs a warning, and the process
  serves.
* `SequencesAheadOfSeen`: `_reset_sequence` promises the maximum id
  ("テーブルの SERIAL シーケンスを最大 id 値にリセットする。"), but `setval` takes that of the
  rows its statement sees and belongs to no transaction. A ticket whose id is drawn
  before the reset and whose row is committed after it is ahead of the sequence
  (`unseen`), although the import is reported as done, and so are, when the import
  fails afterwards, the rows it had deleted. The next 予約 that draws such an id fails
  on the primary key.
* `RestoredOrTaken`: `ON CONFLICT DO NOTHING` leaves out rows whose id, name, customer or
  number a row has that the DELETE left or that was committed since, of another account
  or of the same one (`rivals`), and the import still reports success; what the account
  itself got since the DELETE stays beside the restored rows. A backup whose
  tables were read while a type and a ticket were added cannot be imported at all.
* `SentIsDelivered` has no converse: a push reported as failed may have been
  delivered when its last answer was lost.

### Fairness

`ReservationQueue!Fairness` assumes that time passes; that a handler which has
claimed rows goes on (pushes are bounded by `LINE_PUSH_MAX_RETRIES`, and it may
still crash or fail at every point); that a batch past its sweep goes on; and that
the sweep of some batch keeps succeeding as long as it is possible again and again
(strong fairness: cron posts every minute, of which only 0:00 takes the midnight
branch, and the database answers now and then). No fairness is assumed of
customers, administrators, or the rollback.

`LinePush!Fairness` assumes that the thread runs on and that an attempt without an
answer ends some time. The code gives the SDK no timeout; it is the network, or
gunicorn's, that ends it. Nothing is assumed of LINE: `PushReturns` holds even if
no request ever arrives.

`SchemaInit!Fairness` assumes that pages keep being asked for (strong: a thread is
idle again and again), that a thread runs on, and that whoever waits for
`SCHEMA_LOCK` gets it if it is free again and again, which a `threading.Lock` and
the operating system give in practice. Errors that need not happen are bounded by
`MaxErrors`: a database that always fails makes nothing ready. Contention for the
locks needs several threads in a worker; gunicorn's default is one, but webhook
threads exist beside it.

## Proofs

Eight modules hold theorems for every value of the constants, under the
assumptions named in the modules (`...Assumption`: ranges of the bounds, finite and
disjoint sets, and `Timeout > 0`, which `config.parse_int_env` enforces for
`CALL_TIMEOUT_MINUTES`). Each component has an inductive invariant (`IInv`,
`ScheduleInv`, `SchemaInv`, `LimitsInv`, ...): `Init` implies it, every step keeps it,
and the properties are taken from it.

A theorem that states a component's property is about the component's specification.
Where a run holds several components, a step of the composition is a step of the one
that `part` names and leaves the others' variables alone: the composition implies the
specifications of its components (`AdministratorsCompose`, for example; of
`SchemaInit`, whose instance `part` also chooses, its steps and invariant). From that
follow the properties that the composed modules themselves name, `TypesOK` among them.

* `BatchProofs`, the queue. The safety properties are not inductive alone: that a
  rollback does not withdraw a confirmed call needs to know that a row some handler
  holds has not been notified, which needs that no other handler holds it. `IInv` adds
  `UnbornRows` (nothing refers to a row before its INSERT), `HeldWhilePushing`
  (a handler holds rows only while pushing, each once) and `HeldRows` (a held row
  is not waiting and not notified, status screen aside). `QueueNext` has one step
  per action; the three shapes of update that several handlers share
  (closing, claiming, giving up) are lemmas. `RowSteps` says what one step may do
  to one row; from it follow `QueueConfirmed` and, with the mapping of phases,
  `QueueImplements`: the queue implements `TicketLifecycle`.
* `BatchProofs`, the cron job. `NightLeavesNone` (after a cancellation within 0:00 and
  until the status screen reopens one, no ticket of the day before is active) is
  inductive because every other step, a late rollback included, moves tickets among the
  statuses that some are in (`StatusesStay`); it gives `BatchNightIsCleared`. That the summaries chain needs `RunsAreNew`: a batch
  that has read them has a number of its own, which no saved summary bears and no
  other batch has read, so that its saving can be told from everybody else's
  (`BatchSummariesChain`).
* `StartupProofs`, numbers. The invariant says that the sequence row is held by at
  most one transaction, that what a holder will store and insert is the successor of
  what is stored, and that the stored value is the last XXX plus one unless a restart
  intervened. From it: `NumbersAreWellFormed`, `NumbersAreSixDigits`,
  `NumbersAdvance`.
* `SchemaInitProofs`, for any number of processes, threads and old rows. `StepsStand`
  says what is true of the database from each step of a process on; it is inductive
  although other processes repeat the steps, because every step only adds: no table
  goes, no owner or number of a row is taken back, no row is queued again
  (`RepairIsOnward`, with an active administrator and without). A ready process or a page being served therefore implies the
  complete schema (`SchemaServes`). Repaired rows get numbers above their owner's
  highest, and two of them differ because the sets of rows before them are included
  one in the other (`NewNumbersDiffer`); `NumbersWithin` bounds them by the number of
  rows (`SchemaRepairs`). That the rows of an owner have a highest number is induction
  over a finite set, taken from the well-foundedness of strict inclusion
  (`MaximumExists`). `SchemaLocks`: one thread of a process is in the steps and one
  connects, and the holder of `POOL_LOCK` waits for no lock, so the two locks cannot
  block each other. `StartupProofs` shows that both instances in `MCStartup` (two
  threads of one process, one in each of two) satisfy `SchemaAssumption` and takes
  `StartupServes` and `StartupRepairs` from there.
* `MessagesProofs`, events. The invariant says that a working thread's event is
  claimed, that no two threads work on one event, and that a thread about to reply has
  had its effect. From it the three properties of the webhook.
* `MessagesProofs`, pushes. Whether a call has a copy is a function of its one key
  (`CopiesByKey`); that attempts stay in range needs `SleepersMayRetry`; a push that
  returned normally was accepted.
* `MessagesProofs`, limiters (`MessagesLimitsHold`, `MessagesRefusedForAReason`). What
  falls into a window is the cardinality of the set of its rows (`RowsOf`), so that
  moving the window, adding a row and deleting old ones are facts about finite sets.
  Each limiter has an argument of its own. Login: what a window let through and the
  attempts that may still land in it together stay below the limit plus the
  number of threads (`RoomForTries`); attempts that have passed the check are recorded
  (`TriesAreRecorded`). Table: the advisory lock lets one transaction at a time count and
  insert (`OneInserts`), which has room in every window its row can fall into unless it
  waited for the lock (`RoomForInsert`). Redis: the counter is what was spent since the
  key was made, and what a window reaches of the time before is one fixed window
  (`KeyCounts`), hence twice the limit.
* `AdministratorsProofs`. `AuditAdminRemains` is inductive together with `UnbornRows`
  (ids not yet given out have no row) and `NotOneself` (a request to withdraw an
  account is never about its sender's own): when an account is withdrawn, its sender
  still is an active audit administrator or `overtaken` becomes true. For the accepting
  button `ShownIsStored` (what a tab has read is what is stored unless something came
  in between) gives `AdministratorsFlip`.
* `IntakeProofs`. `ThreadsOfRows` ties a pending row to the one thread that inserted it;
  `PendingIsNewest` says that within one owner a pending row has the highest id, because
  the sequence row is held until the commit. From it: `IntakeNobodyOvertakes` (a
  commit adds nobody ahead). `OneOpenTicket` and `KnownRow` (a cancel whose user
  knows his ticket has picked that very row) give `IntakeCancels`, `SeenBy` gives
  `IntakeStops`. The set of people ahead is compared by inclusion, so the theorem about
  its cardinality rests on the library's facts about finite sets.
* `ConnectionPoolProofs`. `Lent` (whoever holds a connection has it from the pool's
  table) makes `OneHolder`, `LiveConnectionsReturn` and `PoolBounded` inductive; that
  a connection taken is new to everybody follows from it.
* `BackupProofs`. `FilesSound`: a file holds rows of one snapshot of each table, so it
  has no conflict with itself, and of one account only its own rows. `RowsSound`: what
  a running import sees is as consistent as what is committed, so its commit is, too;
  every statement and every commit of somebody else's keeps both, because an INSERT
  waits for whoever it conflicts with (`CommitRowKeeps`, `InsertKeeps`). `IdsSound`:
  each id, also one that is only drawn, has been passed by its sequence or was out of
  sight of the last reset; it needs `NextIdIsFree`, the arithmetic of `setval` (that a
  bounded set of ids has a highest one is taken from the well-foundedness of < on the
  natural numbers). `ImportSound` accounts for every row of the file an import is at:
  still to be inserted, inserted, or left out with an excuse among the `rivals`. From
  it follow the action properties `OthersUntouched` and `RestoredOrTaken`, which speak of the
  one step that reports a restored account (`AccountRestored`).

Every safety invariant and every action property of the passing runs, type invariants
included, has its theorem. `PoolBounded`, that issued numbers show in full in six digits
(`NumbersAreSixDigits`) and the order of the locks (`LocksInOrder`) are proved and not
run. Model-checked only: the four liveness properties (`EveryCallIsResolved`,
`PushReturns`, `RequestsReturn`, `BecomesReady`), because liveness under fairness is
outside the prover's reach, and the four violations, which are counterexamples of one
instance.

## Not modelled

* The queue omits the import of a backup and the deletion of types and accounts
  (both can remove or add rows); the pushes of the timeout sweep change no state.
  `Intake` omits tickets reopened on the status screen and imports, either of which
  can put a row with a smaller id back in line or give a user another ticket: they
  are what the queue's and the backup's modules are about, and would make
  `AheadNeverGrows` and `KnownTicketIsCancelled` false by intention.
* `SchemaInit` takes columns that older versions lacked, and the tables in which nothing
  is repaired, for one step each; it stores no creation time, so old rows of one
  owner are numbered by id.
* `Backup` carries only types and reservations of the six tables a file holds, and
  takes a file to be one that an export of this program has made.
* `get_accepting_type_names`, the overview an empty 予約 returns, does not look at the
  account's `active` flag, so it may list a type that `ReadOwner` then refuses: display
  only. Waiting time (half a minute per person ahead, and two) is arithmetic on
  `Intake!Ahead`.
* `queue_service._try_allocate_with_seq` and `hour_digit` are never called.
* Screens, exports, Flex layouts, headers, CSRF tokens, the login log, images and asset
  minification keep no state that other steps depend on.
