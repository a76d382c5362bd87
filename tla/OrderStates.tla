---------------------------- MODULE OrderStates ----------------------------
(***************************************************************************)
(* The life of an order, shared by every module that has orders: the       *)
(* status values of orders/enums/order-status.enum.ts and the table of     *)
(* orders/enums/order-status-transitions.ts.  Cancelling is not in the     *)
(* table: it is an operation of its own, open to pending orders only.      *)
(***************************************************************************)

OrderStatus ==
  {"pending", "confirmed", "processing", "shipped", "delivered", "cancelled"}

ALLOWED_STATUS_TRANSITIONS ==
  [s \in OrderStatus |->
     CASE s = "pending"    -> {"confirmed"}
       [] s = "confirmed"  -> {"processing"}
       [] s = "processing" -> {"shipped"}
       [] s = "shipped"    -> {"delivered"}
       [] OTHER            -> {}]

\* An order of the pool that has no row yet has the status "none".
StatusOrNone == OrderStatus \cup {"none"}
=============================================================================
