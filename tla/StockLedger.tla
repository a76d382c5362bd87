---------------------------- MODULE StockLedger ----------------------------
(***************************************************************************)
(* What checkout and cancellation promise about stock, without carts,      *)
(* locks or requests: placing an order takes its quantities out of the     *)
(* stock in one step and never more than there is, cancelling a pending    *)
(* order puts the same quantities back in one step, and every other change *)
(* of an order leaves the stock alone.  Checkout implements this module.   *)
(***************************************************************************)
EXTENDS Integers, OrderStates

CONSTANTS Product, Order

VARIABLES stock,   \* units on the shelf, per product
          status,  \* of each order
          items    \* units of each product in each order

ledgerVars == <<stock, status, items>>

Init ==
  /\ stock \in [Product -> Nat]
  /\ status = [o \in Order |-> "none"]
  /\ items = [o \in Order |-> [p \in Product |-> 0]]

Place(o) ==
  /\ status[o] = "none"
  /\ status' = [status EXCEPT ![o] = "pending"]
  /\ items'[o] \in [Product -> Nat]
  /\ \E p \in Product : items'[o][p] > 0
  /\ items' = [items EXCEPT ![o] = items'[o]]
  /\ \A p \in Product : items'[o][p] <= stock[p]
  /\ stock' = [p \in Product |-> stock[p] - items'[o][p]]

Cancel(o) ==
  /\ status[o] = "pending"
  /\ status' = [status EXCEPT ![o] = "cancelled"]
  /\ stock' = [p \in Product |-> stock[p] + items[o][p]]
  /\ UNCHANGED items

Advance(o) ==
  /\ status[o] \in OrderStatus
  /\ \E new \in ALLOWED_STATUS_TRANSITIONS[status[o]] :
       status' = [status EXCEPT ![o] = new]
  /\ UNCHANGED <<stock, items>>

Next == \E o \in Order : Place(o) \/ Cancel(o) \/ Advance(o)

Spec == Init /\ [][Next]_ledgerVars
=============================================================================
