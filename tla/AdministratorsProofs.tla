------------------------ MODULE AdministratorsProofs ------------------------
(***************************************************************************)
(* Proofs about AdminAccounts and AcceptingFlag, for any login ids,        *)
(* browsers, accounts and tabs, and about the two side by side.            *)
(***************************************************************************)
EXTENDS MCAdminAccounts, FiniteSetTheorems, TLAPS

\* A request that will deactivate or delete was not made for one's own account.
NotOneself ==
    \A b \in Browsers :
        pc[b] # "idle" /\ op[b] \in {"toggle", "delete"} => target[b] # session[b]

\* The SERIAL column has not reached rows that do not exist yet.
UnbornRows == \A i \in Ids : i >= nextId => name[i] = NoName

IInv == TypeOK /\ UnbornRows /\ NotOneself /\ AuditAdminRemains

\* Inserted rows keep the types, and whoever was an audit administrator is one.
LEMMA InsertRows ==
    ASSUME TypeOK, UnbornRows, NEW new \in Batches,
           NEW roles \in [DOMAIN new -> {"admin", "audit_admin"}], Insert(new, roles)
    PROVE  /\ name' \in [Ids -> Names \cup {NoName}]
           /\ role' \in [Ids -> {"admin", "audit_admin"}]
           /\ active' \in [Ids -> BOOLEAN]
           /\ nextId' \in 1..MaxId + 1
           /\ UnbornRows'
           /\ Audits \subseteq Audits'
<1>1. PICK last \in nextId - 1..MaxId : new \in [nextId..last -> Names]
  BY DEF Batches
<1>2. DOMAIN new = nextId..last /\ \A i \in DOMAIN new : new[i] \in Names
  BY <1>1
<1>3. nextId \in Int /\ last \in Int /\ nextId - 1 <= last /\ last <= MaxId /\ nextId >= 1
  BY AccountsAssumption DEF TypeOK
<1>4. Cardinality(nextId..last) = IF nextId > last THEN 0 ELSE last - nextId + 1
  BY <1>3, FS_Interval
<1>5. nextId' = nextId + Cardinality(nextId..last)
  BY <1>2 DEF Insert
<1>6. nextId' \in 1..MaxId + 1 /\ nextId' = last + 1
  BY <1>3, <1>4, <1>5, AccountsAssumption
<1>7. name' \in [Ids -> Names \cup {NoName}]
  BY <1>2 DEF Insert, TypeOK
<1>8. role' \in [Ids -> {"admin", "audit_admin"}]
  BY DEF Insert, TypeOK
<1>9. active' \in [Ids -> BOOLEAN]
  <2>1. active' = [i \in Ids |-> IF i \in DOMAIN new THEN TRUE ELSE active[i]]
    BY DEF Insert
  <2>2. \A i \in Ids : (IF i \in DOMAIN new THEN TRUE ELSE active[i]) \in BOOLEAN
    BY DEF TypeOK
  <2> QED
    BY <2>1, <2>2
<1>10. UnbornRows'
  BY <1>2, <1>3, <1>6, AccountsAssumption DEF Insert, UnbornRows, Ids
<1>11. \A i \in Ids : name[i] # NoName =>
          name'[i] = name[i] /\ role'[i] = role[i] /\ active'[i] = active[i]
  <2> SUFFICES ASSUME NEW i \in Ids, name[i] # NoName
               PROVE  name'[i] = name[i] /\ role'[i] = role[i] /\ active'[i] = active[i]
    OBVIOUS
  <2>1. i \notin DOMAIN new
    BY <1>2, <1>3, AccountsAssumption DEF UnbornRows, Ids
  <2>2. active' = [j \in Ids |-> IF j \in DOMAIN new THEN TRUE ELSE active[j]]
    BY DEF Insert
  <2>3. active'[i] = active[i]
    BY <2>1, <2>2
  <2>4. name'[i] = name[i] /\ role'[i] = role[i]
    BY <2>1 DEF Insert
  <2> QED
    BY <2>3, <2>4
<1>12. Audits \subseteq Audits'
  BY <1>11 DEF Audits, IsAudit, Usable, Exists
<1> QED
  BY <1>6, <1>7, <1>8, <1>9, <1>10, <1>12

LEMMA AccountsInit == Init => IInv
<1> SUFFICES ASSUME Init PROVE IInv
  OBVIOUS
<1> USE AccountsAssumption DEF Init, Ids
<1>1. TypeOK
  <2>1. name \in [1..MaxId -> Names \cup {NoName}]
    OBVIOUS
  <2>2. active \in [1..MaxId -> BOOLEAN]
    OBVIOUS
  <2>3. role \in [1..MaxId -> {"admin", "audit_admin"}]
    OBVIOUS
  <2>4. nextId \in 1..MaxId + 1
    OBVIOUS
  <2>5. /\ session \in [Browsers -> Ids \cup {NoAccount}]
        /\ pc \in [Browsers -> Steps]
        /\ op \in [Browsers -> Ops]
        /\ target \in [Browsers -> Ids]
    BY DEF Steps, Ops, NoAccount
  <2>6. wasActive \in [Browsers -> BOOLEAN] /\ overtaken \in BOOLEAN
    OBVIOUS
  <2> QED
    BY <2>1, <2>2, <2>3, <2>4, <2>5, <2>6 DEF TypeOK
<1>2. UnbornRows
  BY DEF UnbornRows
<1>3. NotOneself
  BY DEF NotOneself
<1>4. 2 \in Audits
  <2>1. 2 \in 1..MaxId
    OBVIOUS
  <2>2. name[2] = AuditName /\ AuditName # NoName /\ role[2] = "audit_admin"
    BY <2>1
  <2>3. active[2] = (2 <= 2)
    BY <2>1
  <2>4. active[2] = TRUE
    <3>1. (2 <= 2) = TRUE
      BY SMT
    <3> QED
      BY <2>3, <3>1, Zenon
  <2> QED
    BY <2>1, <2>2, <2>4 DEF Audits, IsAudit, Usable, Exists
<1> QED
  BY <1>1, <1>2, <1>3, <1>4 DEF IInv, AuditAdminRemains

LEMMA AccountsNext == IInv /\ [Next]_vars => IInv'
<1> SUFFICES ASSUME IInv, [Next]_vars PROVE IInv'
  OBVIOUS
<1> USE AccountsAssumption
    DEF IInv, TypeOK, UnbornRows, NotOneself, AuditAdminRemains, Done, rows, request
<1>1. ASSUME Start PROVE IInv'
  <2>1. PICK new \in Batches :
           Insert(new, [i \in DOMAIN new |->
                          IF new[i] = AuditName THEN "audit_admin" ELSE "admin"])
    BY <1>1 DEF Start
  <2>2. [i \in DOMAIN new |-> IF new[i] = AuditName THEN "audit_admin" ELSE "admin"]
          \in [DOMAIN new -> {"admin", "audit_admin"}]
    OBVIOUS
  <2>3. /\ name' \in [Ids -> Names \cup {NoName}]
        /\ role' \in [Ids -> {"admin", "audit_admin"}]
        /\ active' \in [Ids -> BOOLEAN]
        /\ nextId' \in 1..MaxId + 1
        /\ UnbornRows'
        /\ Audits \subseteq Audits'
    BY <2>1, <2>2, InsertRows
  <2> QED
    BY <1>1, <2>3 DEF Start
<1>2. ASSUME NEW b \in Browsers, Create(b) PROVE IInv'
  <2>1. PICK new \in Batches : Insert(new, [i \in DOMAIN new |-> "admin"])
    BY <1>2 DEF Create
  <2>2. [i \in DOMAIN new |-> "admin"] \in [DOMAIN new -> {"admin", "audit_admin"}]
    OBVIOUS
  <2>3. /\ name' \in [Ids -> Names \cup {NoName}]
        /\ role' \in [Ids -> {"admin", "audit_admin"}]
        /\ active' \in [Ids -> BOOLEAN]
        /\ nextId' \in 1..MaxId + 1
        /\ UnbornRows'
        /\ Audits \subseteq Audits'
    BY <2>1, <2>2, InsertRows
  <2> QED
    BY <1>2, <2>3 DEF Create, Steps, Ops, Ids
<1> USE DEF Audits, IsAudit, Usable, Exists
<1>3. ASSUME NEW b \in Browsers, NEW i \in Ids, Login(b, i) PROVE IInv'
  BY <1>3 DEF Login
<1>4. ASSUME NEW b \in Browsers, EndSession(b) \/ Evict(b) PROVE IInv'
  BY <1>4 DEF EndSession, Evict, NoAccount
<1>5. ASSUME NEW b \in Browsers, GiveUp(b) \/ RefuseLast(b) PROVE IInv'
  <2>1. Done(b) /\ UNCHANGED <<rows, session, overtaken>>
    BY <1>5 DEF GiveUp, RefuseLast
  <2> QED
    BY <2>1 DEF Steps, Ops, Ids
<1>6. ASSUME NEW b \in Browsers, NEW o \in Ops, NEW t \in Ids, Authorise(b, o, t) PROVE IInv'
  BY <1>6 DEF Authorise, Steps
<1>7. ASSUME NEW b \in Browsers, NEW n \in Names, Rename(b, n) PROVE IInv'
  BY <1>7 DEF Rename, Steps, Ops, Ids
<1>8. ASSUME NEW b \in Browsers, ReadTarget(b) PROVE IInv'
  BY <1>8 DEF ReadTarget, Steps
<1>9. ASSUME NEW b \in Browsers, CountPasses(b) PROVE IInv'
  BY <1>9 DEF CountPasses, Steps
<1>10. ASSUME NEW b \in Browsers, Toggle(b) PROVE IInv'
  BY <1>10 DEF Toggle, Withdraw, Steps, Ops, Ids
<1>11. ASSUME NEW b \in Browsers, Delete(b) PROVE IInv'
  BY <1>11 DEF Delete, Withdraw, Steps, Ops, Ids
<1>12. ASSUME UNCHANGED vars PROVE IInv'
  BY <1>12 DEF vars
<1> QED
  BY <1>1, <1>2, <1>3, <1>4, <1>5, <1>6, <1>7, <1>8, <1>9, <1>10, <1>11, <1>12 DEF Next

\* The inductive invariant holds in every reachable state.
THEOREM AccountsInvariant == Spec => []IInv
<1> QED
  BY AccountsInit, AccountsNext, PTL DEF Spec

\* Type correctness of the table, the sessions and the requests.
THEOREM AccountsTyped == Spec => []TypeOK
  BY AccountsInvariant, PTL DEF IInv

\* admin_accounts_toggle_active, admin_accounts_delete: as long as whoever
\* withdraws an account still is an audit administrator, one remains.
THEOREM AccountsAuditRemains == Spec => []AuditAdminRemains
  BY AccountsInvariant, PTL DEF IInv
-----------------------------------------------------------------------------
(* AcceptingFlag *)

\* As long as nothing else has changed the account, it is active, and its flag is
\* what the tab was shown; a tab that has read the flag has read that.
ShownIsStored ==
    \A b \in Tabs : where[b] # "idle" /\ b \notin disturbed =>
        /\ account[whose[b]] = "active"
        /\ flag[whose[b]] = shown[b]
        /\ where[b] = "read" => found[b] = shown[b]

ButtonInv == Button!TypeOK /\ ShownIsStored

LEMMA ButtonInit == Button!Init => ButtonInv
  BY DEF Button!Init, ButtonInv, Button!TypeOK, ShownIsStored

LEMMA ButtonNext == ButtonInv /\ [Button!Next]_(Button!vars) => ButtonInv'
<1> SUFFICES ASSUME ButtonInv, [Button!Next]_(Button!vars) PROVE ButtonInv'
  OBVIOUS
<1> USE DEF ButtonInv, Button!TypeOK, ShownIsStored
<1>1. ASSUME NEW b \in Tabs, NEW a \in Accounts, Button!Authorise(b, a) PROVE ButtonInv'
  BY <1>1 DEF Button!Authorise
<1>2. ASSUME NEW b \in Tabs, Button!Read(b) PROVE ButtonInv'
  BY <1>2 DEF Button!Read
<1>3. ASSUME NEW b \in Tabs, Button!Write(b) PROVE ButtonInv'
  BY <1>3 DEF Button!Write, Button!Others
<1>4. ASSUME NEW b \in Tabs, Button!Fail(b) PROVE ButtonInv'
  BY <1>4 DEF Button!Fail
<1>5. ASSUME NEW a \in Accounts, NEW state \in {"active", "inactive", "gone"},
             Button!Change(a, state)
      PROVE  ButtonInv'
  BY <1>5 DEF Button!Change, Button!Others, Button!request
<1>6. ASSUME UNCHANGED Button!vars PROVE ButtonInv'
  BY <1>6 DEF Button!vars, Button!request
<1> QED
  BY <1>1, <1>2, <1>3, <1>4, <1>5, <1>6 DEF Button!Next

\* What TogglesFlip says of one step.
Flips ==
    \A b \in Tabs :
        Button!Write(b) =>
            /\ b \in disturbed \/ flag'[whose[b]] = ~shown[b]
            /\ \A a \in Accounts : a # whose[b] => flag'[a] = flag[a]

LEMMA ButtonFlips == ButtonInv => Flips
  BY DEF ButtonInv, Button!TypeOK, ShownIsStored, Flips, Button!Write

\* The flags and the requests of the button stay well typed, and an undisturbed
\* request knows its account's flag.
THEOREM ButtonInvariant == Button!Spec => []ButtonInv
  BY ButtonInit, ButtonNext, PTL DEF Button!Spec
-----------------------------------------------------------------------------
(* Side by side *)

LEMMA AdministratorsAccounts == AdministratorsSpec => Spec
<1>1. AdministratorsInit => Init
  BY DEF AdministratorsInit
<1>2. [AdministratorsNext]_<<part, vars, buttonVars>> => [Next]_vars
  BY DEF AdministratorsNext
<1> QED
  BY <1>1, <1>2, PTL DEF AdministratorsSpec, Spec

LEMMA AdministratorsButton == AdministratorsSpec => Button!Spec
<1>1. AdministratorsInit => Button!Init
  BY DEF AdministratorsInit
<1>2. UNCHANGED buttonVars => UNCHANGED Button!vars
  BY DEF Button!vars, Button!request, buttonVars
<1>3. [AdministratorsNext]_<<part, vars, buttonVars>> => [Button!Next]_(Button!vars)
  BY <1>2 DEF AdministratorsNext
<1> QED
  BY <1>1, <1>3, PTL DEF AdministratorsSpec, Button!Spec

\* A behaviour of both is one of the accounts and one of the button.
THEOREM AdministratorsCompose == AdministratorsSpec => Spec /\ Button!Spec
  BY AdministratorsAccounts, AdministratorsButton, PTL

\* Every table and every request of both stays well typed.
THEOREM AdministratorsTypes == AdministratorsSpec => []TypesOK
  BY AdministratorsCompose, AccountsTyped, ButtonInvariant, PTL DEF TypesOK, ButtonInv

\* admin_toggle_accepting: the flag becomes the opposite of what the administrator
\* saw, unless another tab or a change of the account came in between; the flags
\* of the others stay.
THEOREM AdministratorsFlip == AdministratorsSpec => TogglesFlip
<1>1. ButtonInv => [Flips]_(Button!vars)
  BY ButtonFlips
<1>2. [][Flips]_(Button!vars) => TogglesFlip
  BY PTL DEF TogglesFlip, Button!TogglesFlip, Flips
<1> QED
  BY <1>1, <1>2, AdministratorsCompose, ButtonInvariant, PTL
============================================================================
