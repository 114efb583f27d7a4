--------------------------- MODULE MCAdminAccounts ---------------------------
(***************************************************************************)
(* Administrators: their accounts and sessions, and the button with which  *)
(* each stops his intake.  AdminAccounts and AcceptingFlag look at the     *)
(* same accounts at different grains and share no state here; a behaviour  *)
(* moves one of them (part), the other stays as it began.                  *)
(***************************************************************************)
EXTENDS AdminAccounts, TLC

CONSTANTS Accounts, Tabs

VARIABLES part, flag, account, where, whose, found, shown, disturbed

buttonVars == <<flag, account, where, whose, found, shown, disturbed>>

Button == INSTANCE AcceptingFlag

AdministratorsInit ==
    /\ Init /\ Button!Init
    /\ part \in {"accounts", "button"}
    /\ part = "accounts" => \E a \in Accounts : whose = [b \in Tabs |-> a]

AdministratorsNext ==
    /\ \/ part = "accounts" /\ Next /\ UNCHANGED buttonVars
       \/ part = "button" /\ Button!Next /\ UNCHANGED vars
    /\ UNCHANGED part

AdministratorsSpec ==
    AdministratorsInit /\ [][AdministratorsNext]_<<part, vars, buttonVars>>

Symmetry ==
    Permutations(Browsers) \cup Permutations(Accounts) \cup Permutations(Tabs)
-----------------------------------------------------------------------------
\* Every variable of the accounts and the button has its type.
TypesOK == TypeOK /\ Button!TypeOK

\* A press of the button negates what its administrator saw (admin_routes.py:1474).
TogglesFlip == Button!TogglesFlip
=============================================================================
