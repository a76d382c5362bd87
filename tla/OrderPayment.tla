---------------------------- MODULE OrderPayment ----------------------------
(***************************************************************************)
(* What the payment layer promises of an order: the customer is charged    *)
(* for it at most once; a payment is recorded only for a charge, once, and *)
(* stays recorded; recording it confirms the order if it is still pending  *)
(* and leaves its status alone otherwise.  Payments implements this.       *)
(***************************************************************************)
EXTENDS Integers, OrderStates

CONSTANT Order

VARIABLES charges,   \* times the customer paid for each order
          recorded,  \* whether a payment of the order is recorded as succeeded
          status     \* of each order

paymentVars == <<charges, recorded, status>>

Init ==
  /\ charges = [o \in Order |-> 0]
  /\ recorded = [o \in Order |-> FALSE]
  /\ status = [o \in Order |-> "pending"]

Charge(o) ==
  /\ charges[o] = 0
  /\ charges' = [charges EXCEPT ![o] = 1]
  /\ UNCHANGED <<recorded, status>>

Record(o) ==
  /\ charges[o] = 1
  /\ ~recorded[o]
  /\ recorded' = [recorded EXCEPT ![o] = TRUE]
  /\ status' = [status EXCEPT ![o] = IF @ = "pending" THEN "confirmed" ELSE @]
  /\ UNCHANGED charges

\* Cancellation by the customer, a step along the table by the administrator.
ChangeStatus(o) ==
  /\ \/ status[o] = "pending" /\ status' = [status EXCEPT ![o] = "cancelled"]
     \/ \E new \in ALLOWED_STATUS_TRANSITIONS[status[o]] :
          status' = [status EXCEPT ![o] = new]
  /\ UNCHANGED <<charges, recorded>>

Next == \E o \in Order : Charge(o) \/ Record(o) \/ ChangeStatus(o)

Spec == Init /\ [][Next]_paymentVars
=============================================================================
