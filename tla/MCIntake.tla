------------------------------- MODULE MCIntake -------------------------------
(* A small shop for TLC: one type of each of two owners. *)
EXTENDS Intake, TLC

CONSTANTS t1, t2, o1, o2

OwnerOf == t1 :> o1 @@ t2 :> o2

Symmetry == Permutations(Users) \cup Permutations(Workers) \cup Permutations(Names)
=============================================================================
