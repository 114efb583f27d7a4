-------------------------- MODULE TicketLifecycle --------------------------
(***************************************************************************)
(* What the queue promises about one ticket, whatever the interleaving of  *)
(* customers, administrators and the cron batch.  A ticket is issued,      *)
(* called, confirmed to the customer and closed; a call whose notice could *)
(* not be sent is withdrawn.  A call that has been confirmed is never      *)
(* withdrawn and a closed ticket never comes back, unless an administrator *)
(* takes the ticket out of the protocol on the status screen, or the       *)
(* process that was calling it dies ("released").                          *)
(***************************************************************************)
CONSTANT Tickets

VARIABLE phase

Phases == {"absent", "waiting", "calling", "told", "closed",
           "erased", "released"}

\* The moves a single ticket may make.
Moves == { <<"absent",  "waiting">>,  \* issued to a customer
           <<"waiting", "calling">>,  \* called, the notice is on its way
           <<"calling", "told">>,     \* LINE accepted the notice
           <<"calling", "waiting">>,  \* the notice failed: withdrawn
           <<"waiting", "closed">>,
           <<"calling", "closed">>,
           <<"told",    "closed">> }
      \cup ({"waiting", "calling", "told", "closed"} \X {"erased"})
      \cup ({"waiting", "calling", "told", "closed"} \X {"released"})

TypeOK == phase \in [Tickets -> Phases]

Init == phase = [t \in Tickets |-> "absent"]

\* A batch moves several tickets in one transaction.
Next == /\ phase' \in [Tickets -> Phases]
        /\ \A t \in Tickets :
              phase'[t] = phase[t] \/ <<phase[t], phase'[t]>> \in Moves

Spec == Init /\ [][Next]_phase
============================================================================
