------------------------- MODULE MCReservationQueue -------------------------
(* Small instances of ReservationQueue for TLC. *)
EXTENDS ReservationQueue, TLC

NoRows == {}
FirstRow == {1}

\* Users are interchangeable: no property names one of them.
UserSymmetry == Permutations(Users)
=============================================================================
