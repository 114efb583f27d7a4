---------------------------- MODULE AdminAccounts ----------------------------
(***************************************************************************)
(* Administrator accounts (table admin_accounts) and the sessions that use *)
(* them.  Every request of a management screen authenticates, reads the    *)
(* target account, counts the active audit administrators and writes, each *)
(* with a SELECT or UPDATE of its own under READ COMMITTED: other requests *)
(* come in between.  A signed session cookie holds the account's id; its   *)
(* role is the account's, which no statement changes.                      *)
(***************************************************************************)
EXTENDS Integers, FiniteSets

CONSTANTS
    Names,     \* login ids
    AdminName, \* "admin", upserted by every process start
    AuditName, \* "audit", upserted when AUDIT_ADMIN_PASSWORD_HASH is set
    NoName,    \* login id of an id that has no row
    Browsers,  \* tabs, each with a session and one request at a time
    MaxId      \* bound: accounts ever created

ASSUME AccountsAssumption ==
    /\ AdminName \in Names /\ AuditName \in Names /\ AdminName # AuditName
    /\ NoName \notin Names
    /\ MaxId \in Nat /\ MaxId >= 2

Ids == 1..MaxId
NoAccount == 0

VARIABLES
    name,      \* column login_id
    role,      \* column role
    active,    \* column active
    nextId,    \* the next SERIAL id
    session,   \* account id in a browser's cookie
    pc,        \* step of the browser's request
    op,        \* the management route it called
    target,    \* account_id of the route
    wasActive, \* account["active"] as the request read it
    overtaken  \* history: somebody withdrew an account who was no audit
               \* administrator any more

rows == <<name, role, active, nextId>>
request == <<pc, op, target, wasActive>>
vars == <<rows, session, request, overtaken>>

Ops == {"create", "rename", "toggle", "delete"}
Steps == {"idle", "authorised", "counting", "writing"}

TypeOK ==
    /\ name \in [Ids -> Names \cup {NoName}]
    /\ role \in [Ids -> {"admin", "audit_admin"}]
    /\ active \in [Ids -> BOOLEAN]
    /\ nextId \in 1..MaxId + 1
    /\ session \in [Browsers -> Ids \cup {NoAccount}]
    /\ pc \in [Browsers -> Steps]
    /\ op \in [Browsers -> Ops]
    /\ target \in [Browsers -> Ids]
    /\ wasActive \in [Browsers -> BOOLEAN]
    /\ overtaken \in BOOLEAN

\* The table after the first process start.
Init ==
    /\ name = [i \in Ids |-> IF i = 1 THEN AdminName ELSE IF i = 2 THEN AuditName ELSE NoName]
    /\ role = [i \in Ids |-> IF i = 2 THEN "audit_admin" ELSE "admin"]
    /\ active = [i \in Ids |-> i <= 2]
    /\ nextId = 3
    /\ session = [b \in Browsers |-> NoAccount]
    /\ pc = [b \in Browsers |-> "idle"]
    /\ op = [b \in Browsers |-> "create"]
    /\ target = [b \in Browsers |-> 1]
    /\ wasActive = [b \in Browsers |-> FALSE]
    /\ overtaken = FALSE

Exists(i) == i \in Ids /\ name[i] # NoName
Usable(i) == Exists(i) /\ active[i]
IsAudit(i) == Usable(i) /\ role[i] = "audit_admin"

\* get_active_admin_count(ROLE_AUDIT_ADMIN) counts these.
Audits == {i \in Ids : IsAudit(i)}

Taken(n) == \E i \in Ids : name[i] = n
\* Login ids for the next SERIAL ids, all different and all free.
Batches ==
    {new \in UNION {[nextId..last -> Names] : last \in nextId - 1..MaxId} :
        /\ \A i, j \in DOMAIN new : new[i] = new[j] => i = j
        /\ \A i \in DOMAIN new : ~Taken(new[i])}

\* INSERT of one transaction; the column active defaults to TRUE.
Insert(new, roles) ==
    /\ name' = [i \in Ids |-> IF i \in DOMAIN new THEN new[i] ELSE name[i]]
    /\ role' = [i \in Ids |-> IF i \in DOMAIN new THEN roles[i] ELSE role[i]]
    /\ active' = [i \in Ids |-> IF i \in DOMAIN new THEN TRUE ELSE active[i]]
    /\ nextId' = nextId + Cardinality(DOMAIN new)

\* ensure_admin_accounts_table, at every process start: the accounts "admin"
\* and "audit" are inserted when no account has that login id; otherwise only
\* the password is reset, a deactivated account stays deactivated.
Start ==
    /\ \E new \in Batches :
         /\ {new[i] : i \in DOMAIN new} = {n \in {AdminName, AuditName} : ~Taken(n)}
         /\ Insert(new, [i \in DOMAIN new |->
                           IF new[i] = AuditName THEN "audit_admin" ELSE "admin"])
    /\ UNCHANGED <<session, request, overtaken>>
-----------------------------------------------------------------------------
(* Sessions. *)

\* login: authenticate_admin_account, start_admin_session.
Login(b, i) ==
    /\ pc[b] = "idle"
    /\ Usable(i)
    /\ session' = [session EXCEPT ![b] = i]
    /\ UNCHANGED <<rows, request, overtaken>>

\* Logout, or more than SESSION_IDLE_TIMEOUT_SECONDS since the last activity.
EndSession(b) ==
    /\ pc[b] = "idle"
    /\ session[b] # NoAccount
    /\ session' = [session EXCEPT ![b] = NoAccount]
    /\ UNCHANGED <<rows, request, overtaken>>

\* is_authenticated_as finds the account gone or deactivated: session.clear().
Evict(b) ==
    /\ pc[b] = "idle"
    /\ session[b] # NoAccount
    /\ ~Usable(session[b])
    /\ session' = [session EXCEPT ![b] = NoAccount]
    /\ UNCHANGED <<rows, request, overtaken>>
-----------------------------------------------------------------------------
(* Requests of the account management screen. *)

\* Mutant: one's own account is not refused.
AuthoriseSelf(b, o, t) ==
    /\ pc[b] = "idle"
    /\ IsAudit(session[b])
    /\ pc' = [pc EXCEPT ![b] = "authorised"]
    /\ op' = [op EXCEPT ![b] = o]
    /\ target' = [target EXCEPT ![b] = t]
    /\ UNCHANGED <<rows, session, wasActive, overtaken>>

\* is_audit_admin_authenticated, then the refusal to deactivate or delete
\* one's own account.
Authorise(b, o, t) ==
    /\ pc[b] = "idle"
    /\ IsAudit(session[b])
    /\ o \in {"toggle", "delete"} => t # session[b]
    /\ pc' = [pc EXCEPT ![b] = "authorised"]
    /\ op' = [op EXCEPT ![b] = o]
    /\ target' = [target EXCEPT ![b] = t]
    /\ UNCHANGED <<rows, session, wasActive, overtaken>>

\* The request ends with a redirect, or its thread is lost, and its local
\* variables with it.
Done(b) ==
    /\ pc' = [pc EXCEPT ![b] = "idle"]
    /\ op' = [op EXCEPT ![b] = "create"]
    /\ target' = [target EXCEPT ![b] = 1]
    /\ wasActive' = [wasActive EXCEPT ![b] = FALSE]

GiveUp(b) ==
    /\ pc[b] # "idle"
    /\ Done(b)
    /\ UNCHANGED <<rows, session, overtaken>>

\* History: b deactivates or deletes without being an audit administrator now.
Withdraw(b) == overtaken' = (overtaken \/ ~IsAudit(session[b]))

\* admin_accounts_create, one account or a list.  The SELECT before a list
\* refuses what the unique index refuses: a taken login id creates nothing.
Create(b) ==
    /\ pc[b] = "authorised" /\ op[b] = "create"
    /\ \E new \in Batches : Insert(new, [i \in DOMAIN new |-> "admin"])
    /\ Done(b)
    /\ UNCHANGED <<session, overtaken>>

\* admin_accounts_update_login_id.
Rename(b, n) ==
    /\ pc[b] = "authorised" /\ op[b] = "rename"
    /\ Exists(target[b])
    /\ name[target[b]] = n \/ ~Taken(n)
    /\ name' = [name EXCEPT ![target[b]] = n]
    /\ Done(b)
    /\ UNCHANGED <<role, active, nextId, session, overtaken>>

\* get_admin_account_by_id, for a toggle or a deletion.  Only an active audit
\* administrator's toggle, and any audit administrator's deletion, is counted.
ReadTarget(b) ==
    /\ pc[b] = "authorised" /\ op[b] \in {"toggle", "delete"}
    /\ Exists(target[b])
    /\ wasActive' = [wasActive EXCEPT ![b] = active[target[b]]]
    /\ pc' = [pc EXCEPT ![b] =
                IF role[target[b]] = "audit_admin" /\ (op[b] = "delete" \/ active[target[b]])
                THEN "counting" ELSE "writing"]
    /\ UNCHANGED <<rows, session, op, target, overtaken>>

\* get_active_admin_count: more than one is left.
CountPasses(b) ==
    /\ pc[b] = "counting"
    /\ Cardinality(Audits) > 1
    /\ pc' = [pc EXCEPT ![b] = "writing"]
    /\ UNCHANGED <<rows, session, op, target, wasActive, overtaken>>

\* 最後の監査管理者は無効化 / 削除できません.
RefuseLast(b) ==
    /\ pc[b] = "counting"
    /\ Cardinality(Audits) <= 1
    /\ Done(b)
    /\ UNCHANGED <<rows, session, overtaken>>

\* UPDATE active to the opposite of what was read.
Toggle(b) ==
    /\ pc[b] = "writing" /\ op[b] = "toggle"
    /\ Exists(target[b])
    /\ active' = [active EXCEPT ![target[b]] = ~wasActive[b]]
    /\ IF wasActive[b] THEN Withdraw(b) ELSE UNCHANGED overtaken
    /\ Done(b)
    /\ UNCHANGED <<name, role, nextId, session>>

\* DELETE; refused (GiveUp) while rows of other tables refer to the account.
Delete(b) ==
    /\ pc[b] = "writing" /\ op[b] = "delete"
    /\ Exists(target[b])
    /\ name' = [name EXCEPT ![target[b]] = NoName]
    /\ active' = [active EXCEPT ![target[b]] = FALSE]
    /\ Withdraw(b)
    /\ Done(b)
    /\ UNCHANGED <<role, nextId, session>>
-----------------------------------------------------------------------------
Next ==
    \/ Start
    \/ \E b \in Browsers :
         \/ \E i \in Ids : Login(b, i)
         \/ EndSession(b) \/ Evict(b) \/ GiveUp(b)
         \/ \E o \in Ops, t \in Ids : Authorise(b, o, t)
         \/ Create(b)
         \/ \E n \in Names : Rename(b, n)
         \/ ReadTarget(b) \/ CountPasses(b) \/ RefuseLast(b)
         \/ Toggle(b) \/ Delete(b)

Spec == Init /\ [][Next]_vars
-----------------------------------------------------------------------------
\* An active audit administrator remains, whatever requests overlap, unless
\* a request withdrew an account whose sender was himself deactivated or
\* deleted after it was authorised.  It is the refusal of one's own account, not the
\* count, that protects the last one.
AuditAdminRemains == overtaken \/ Audits # {}
=============================================================================
