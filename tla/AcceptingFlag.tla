---------------------------- MODULE AcceptingFlag ----------------------------
(***************************************************************************)
(* The button that stops and resumes an administrator's intake reads the   *)
(* flag in one transaction and writes its negation in another, while the   *)
(* account may be deactivated or deleted and its other tabs press it too.  *)
(***************************************************************************)

CONSTANTS
    Accounts,   \* admin accounts
    Tabs        \* requests that may overlap

VARIABLES
    flag,       \* accepting_new
    account,    \* "active", "inactive" or "gone"
    where,      \* step of each request
    whose,      \* get_current_admin_account_id
    found,      \* what is_accepting_new answered
    shown,      \* history: the flag when the request was authenticated
    disturbed   \* history: requests whose account changed in another way since

request == <<where, whose, found, shown>>
vars == <<flag, account, request, disturbed>>

TypeOK ==
    /\ flag \in [Accounts -> BOOLEAN]
    /\ account \in [Accounts -> {"active", "inactive", "gone"}]
    /\ where \in [Tabs -> {"idle", "authorised", "read"}]
    /\ whose \in [Tabs -> Accounts]
    /\ found \in [Tabs -> BOOLEAN] /\ shown \in [Tabs -> BOOLEAN]
    /\ disturbed \subseteq Tabs

Init ==
    /\ flag = [a \in Accounts |-> TRUE]
    /\ account = [a \in Accounts |-> "active"]
    /\ where = [b \in Tabs |-> "idle"]
    /\ whose \in [Tabs -> Accounts]
    /\ found = [b \in Tabs |-> TRUE] /\ shown = [b \in Tabs |-> TRUE]
    /\ disturbed = {}

Others(a) == {b \in Tabs : whose[b] = a /\ where[b] # "idle"}

\* Mutant: the session does not know whose it is.
AuthoriseUnknown(b, a) ==
    /\ where[b] = "idle" /\ account[a] = "active"
    /\ where' = [where EXCEPT ![b] = "authorised"]
    /\ whose' = [whose EXCEPT ![b] = b]
    /\ shown' = [shown EXCEPT ![b] = flag[a]]
    /\ disturbed' = disturbed \ {b}
    /\ UNCHANGED <<flag, account, found>>

\* admin_toggle_accepting, authenticated by an account that is active.
Authorise(b, a) ==
    /\ where[b] = "idle" /\ account[a] = "active"
    /\ where' = [where EXCEPT ![b] = "authorised"]
    /\ whose' = [whose EXCEPT ![b] = a]
    /\ shown' = [shown EXCEPT ![b] = flag[a]]
    /\ disturbed' = disturbed \ {b}
    /\ UNCHANGED <<flag, account, found>>

\* Mutant: is_accepting_new() without the account's id: does anybody accept?
ReadAny(b) ==
    /\ where[b] = "authorised"
    /\ where' = [where EXCEPT ![b] = "read"]
    /\ found' = [found EXCEPT ![b] = \E a \in Accounts : account[a] = "active" /\ flag[a]]
    /\ UNCHANGED <<flag, account, whose, shown, disturbed>>

\* is_accepting_new: no row counts as accepting, an inactive account does not.
Read(b) ==
    /\ where[b] = "authorised"
    /\ where' = [where EXCEPT ![b] = "read"]
    /\ found' = [found EXCEPT ![b] =
                    \/ account[whose[b]] = "gone"
                    \/ account[whose[b]] = "active" /\ flag[whose[b]]]
    /\ UNCHANGED <<flag, account, whose, shown, disturbed>>

\* set_accepting_new: an UPDATE, which finds no row of a deleted account.
Write(b) ==
    /\ where[b] = "read"
    /\ flag' = IF account[whose[b]] = "gone" THEN flag
               ELSE [flag EXCEPT ![whose[b]] = ~found[b]]
    /\ where' = [where EXCEPT ![b] = "idle"]
    /\ disturbed' = disturbed \cup (Others(whose[b]) \ {b})
    /\ UNCHANGED <<account, whose, found, shown>>

\* An exception in either transaction.
Fail(b) ==
    /\ where[b] # "idle"
    /\ where' = [where EXCEPT ![b] = "idle"]
    /\ UNCHANGED <<flag, account, whose, found, shown, disturbed>>

\* admin_accounts_toggle_active, admin_accounts_delete.
Change(a, state) ==
    /\ account[a] \notin {"gone", state}
    /\ account' = [account EXCEPT ![a] = state]
    /\ disturbed' = disturbed \cup Others(a)
    /\ UNCHANGED <<flag, request>>

Next ==
    \/ \E b \in Tabs : \/ \E a \in Accounts : Authorise(b, a)
                       \/ Read(b) \/ Write(b) \/ Fail(b)
    \/ \E a \in Accounts, state \in {"active", "inactive", "gone"} : Change(a, state)

Spec == Init /\ [][Next]_vars
-----------------------------------------------------------------------------
\* Whoever presses the button gets the opposite of what he saw, unless another
\* tab of his or a change of his account came in between; nobody else's flag
\* moves.
TogglesFlip ==
    [][\A b \in Tabs :
          Write(b) => /\ b \in disturbed \/ flag'[whose[b]] = ~shown[b]
                      /\ \A a \in Accounts : a # whose[b] => flag'[a] = flag[a]]_vars
=============================================================================
