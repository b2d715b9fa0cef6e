-------------------------- MODULE ReservationState --------------------------
(* The state of a reservation store behind owners with clocks of their own *)
(* and what became of it, shared by the contract and the SQL stores.       *)
EXTENDS ReservationConstants

VARIABLES
  clock,        \* each owner's reading of the time
  records,      \* the reservation held for each operation
  incarnation,  \* history: fresh reservations made so far, per operation
  grants        \* history: every lease handed out

(* The response kept for replay is that of a lease no later lease of the   *)
(* same incarnation displaced: complete is fenced, so that an execution    *)
(* another one took over from never publishes.                             *)
DisplacedNeverPublishes ==
  \A op \in Ops :
    records[op].state = "completed" =>
      \A h \in grants :
        h.op = op /\ h.inc = incarnation[op] =>
          h.token <= records[op].response.token

=============================================================================
