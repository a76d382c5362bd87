------------------------------ MODULE Checkout ------------------------------
(***************************************************************************)
(* Carts, checkout, cancellation and order status (orders.service.ts and   *)
(* cart.service.ts) over the shared stock of the products table.           *)
(*                                                                         *)
(* A request is one HTTP call being served.  Checkout and cancellation are *)
(* database transactions of several statements; each takes row locks with  *)
(* SELECT ... FOR UPDATE or UPDATE and keeps them to its end, so a step of *)
(* a request is the taking of one lock, and what the transaction wrote     *)
(* becomes visible in its last step, the commit.  An operation that takes  *)
(* one lock and waits for no other (the cart edits, the status change) is  *)
(* one action guarded by that lock being free.                             *)
(*                                                                         *)
(* Product ids are the numbers 1..NumProducts: the code uses their order   *)
(* (ORDER BY id, ORDER BY product_id) and nothing else of them.            *)
(***************************************************************************)
EXTENDS Integers, FiniteSets, FiniteSetsExt, OrderStates

CONSTANTS
  User,         \* customers, each with one cart
  NumProducts,  \* how many products the shop lists
  Order,        \* the pool of orders that may be placed: bounds the orders
  Request,      \* requests served at the same time
  NoRequest,    \* the holder of a free lock
  Quantity,     \* the quantities a customer may ask for
  MaxStock      \* bound on the initial stock of a product

Product == 1 .. NumProducts

ASSUME NumProductsAssumption == NumProducts \in Nat
ASSUME NoRequestAssumption   == NoRequest \notin Request
ASSUME QuantityAssumption    == Quantity \subseteq Nat \ {0}
ASSUME MaxStockAssumption    == MaxStock \in Nat

VARIABLES
  stock,        \* products.stock
  listing,      \* "active", "inactive" (is_active) or "deleted" (no row)
  supply,       \* history: units of a product the shop was ever given to sell
  cart,         \* cart_items: quantity of each product in a user's cart, 0 = no row
  status,       \* orders.status, "none" = no such order yet
  items,        \* order_items: quantity of each product in an order, 0 = no row
  pc,           \* what a request is doing
  want,         \* the lines a request read from the cart or from the order
  todo,         \* the products whose row a request has still to lock
  seen,         \* the stock a checkout read with the lock, Missing if not found
  cartLock, productLock, orderLock   \* holders of the row locks

requestVars == <<pc, want, todo, seen>>
lockVars    == <<cartLock, productLock, orderLock>>
vars == <<stock, listing, supply, cart, status, items, requestVars, lockVars>>

NoLines      == [p \in Product |-> 0]
Lines(lines) == {p \in Product : lines[p] > 0}
Missing      == -1
NothingSeen  == [p \in Product |-> Missing]

Init ==
  /\ stock \in [Product -> 0 .. MaxStock]
  /\ listing \in [Product -> {"active", "inactive"}]
  /\ supply = stock
  /\ cart = [u \in User |-> NoLines]
  /\ status = [o \in Order |-> "none"]
  /\ items = [o \in Order |-> NoLines]
  /\ pc = [r \in Request |-> "idle"]
  /\ want = [r \in Request |-> NoLines]
  /\ todo = [r \in Request |-> {}]
  /\ seen = [r \in Request |-> NothingSeen]
  /\ cartLock = [u \in User |-> NoRequest]
  /\ productLock = [p \in Product |-> NoRequest]
  /\ orderLock = [o \in Order |-> NoRequest]

-----------------------------------------------------------------------------
(* When a statement gets the lock it asks for.  Beside each rule stands the *)
(* rule of a program that forgot it; those are used by no action, only to   *)
(* see that the properties below notice the difference.                     *)

CartUnguarded(u) == u \in User
CartFree(u) == cartLock[u] = NoRequest

OrderUnguarded(o) == o \in Order
OrderFree(o) == orderLock[o] = NoRequest

ProductUnguarded(p) == p \in Product
ProductFree(p) == productLock[p] = NoRequest

\* A statement finds the row; the SELECT of checkout wants it active as well.
RowExists(p) == listing[p] # "deleted"
SelectedInactive(p) == RowExists(p)
Selected(p) == listing[p] = "active"

\* Rows of a statement are locked in the order of their ids.
AnyOf(p, S) == p \in S
FirstOf(p, S) == p \in S /\ \A q \in S : p <= q

-----------------------------------------------------------------------------
(* The cart: each edit locks the cart row, reads the product without a     *)
(* lock, and commits.                                                      *)

PutInCart(u, p, n) ==
  /\ CartFree(u)
  /\ listing[p] = "active"
  /\ n <= stock[p]
  /\ cart' = [cart EXCEPT ![u][p] = n]
  /\ UNCHANGED <<stock, listing, supply, status, items, requestVars, lockVars>>

AddItem(u, p, q) == PutInCart(u, p, cart[u][p] + q)

UpdateItem(u, p, q) == cart[u][p] > 0 /\ PutInCart(u, p, q)

RemoveItem(u, p) ==
  /\ CartFree(u)
  /\ cart[u][p] > 0
  /\ cart' = [cart EXCEPT ![u][p] = 0]
  /\ UNCHANGED <<stock, listing, supply, status, items, requestVars, lockVars>>

-----------------------------------------------------------------------------
(* Row locks on products, taken one by one in the order of the ids.        *)

\* The statement of r has reached the row of p: checkout selects it for
\* update, cancellation updates it.  A row that was made inactive since the
\* SELECT began is locked but not returned.
LockProduct(r, p) ==
  /\ FirstOf(p, todo[r])
  /\ RowExists(p)
  /\ ProductFree(p)
  /\ productLock' = [productLock EXCEPT ![p] = r]
  /\ todo' = [todo EXCEPT ![r] = @ \ {p}]
  /\ seen' = IF pc[r] = "checkout" /\ Selected(p)
             THEN [seen EXCEPT ![r][p] = stock[p]]
             ELSE seen
  /\ UNCHANGED <<stock, listing, supply, cart, status, items, pc, want,
                 cartLock, orderLock>>

NotReleased(lock, r) == lock
Released(lock, r) ==
  [x \in DOMAIN lock |-> IF lock[x] = r THEN NoRequest ELSE lock[x]]

\* The transaction of r ends, by commit or by rollback: its locks are released.
EndTransaction(r) ==
  /\ pc' = [pc EXCEPT ![r] = "idle"]
  /\ want' = [want EXCEPT ![r] = NoLines]
  /\ todo' = [todo EXCEPT ![r] = {}]
  /\ seen' = [seen EXCEPT ![r] = NothingSeen]
  /\ cartLock' = Released(cartLock, r)
  /\ productLock' = Released(productLock, r)
  /\ orderLock' = Released(orderLock, r)

-----------------------------------------------------------------------------
(* Checkout.                                                               *)

\* Bound: no more checkouts at once than orders left in the pool.
OrderRoom == Cardinality({s \in Request : pc[s] = "checkout"})
               < Cardinality({o \in Order : status[o] = "none"})

\* The cart is locked and read; the SELECT that follows sees the products of
\* its lines that are active now.
BeginCheckout(r, u) ==
  /\ pc[r] = "idle"
  /\ OrderRoom
  /\ CartFree(u)
  /\ Lines(cart[u]) # {}
  /\ cartLock' = [cartLock EXCEPT ![u] = r]
  /\ pc' = [pc EXCEPT ![r] = "checkout"]
  /\ want' = [want EXCEPT ![r] = cart[u]]
  /\ todo' = [todo EXCEPT ![r] = {p \in Lines(cart[u]) : Selected(p)}]
  /\ UNCHANGED <<stock, listing, supply, cart, status, items, seen,
                 productLock, orderLock>>

AvailableOffByOne(r) ==
  \A p \in Lines(want[r]) : want[r][p] <= seen[r][p] + 1

\* Found, active and in stock, first by the stock read with the lock, then by
\* the condition of the decrementing UPDATE.
Available(r) ==
  \A p \in Lines(want[r]) : want[r][p] <= seen[r][p] /\ want[r][p] <= stock[p]

PlaceOrder(r, o) ==
  /\ pc[r] = "checkout"
  /\ todo[r] = {}
  /\ Available(r)
  /\ status[o] = "none"
  /\ stock' = [p \in Product |-> stock[p] - want[r][p]]
  /\ status' = [status EXCEPT ![o] = "pending"]
  /\ items' = [items EXCEPT ![o] = want[r]]
  /\ cart' = [u \in User |-> IF cartLock[u] = r THEN NoLines ELSE cart[u]]
  /\ EndTransaction(r)
  /\ UNCHANGED <<listing, supply>>

RejectCheckout(r) ==
  /\ pc[r] = "checkout"
  /\ todo[r] = {}
  /\ ~Available(r)
  /\ EndTransaction(r)
  /\ UNCHANGED <<stock, listing, supply, cart, status, items>>

-----------------------------------------------------------------------------
(* Cancellation and status changes.                                        *)

BeginCancel(r, o) ==
  /\ pc[r] = "idle"
  /\ OrderFree(o)
  /\ status[o] = "pending"
  /\ orderLock' = [orderLock EXCEPT ![o] = r]
  /\ pc' = [pc EXCEPT ![r] = "cancel"]
  /\ want' = [want EXCEPT ![r] = items[o]]
  /\ todo' = [todo EXCEPT ![r] = Lines(items[o])]
  /\ UNCHANGED <<stock, listing, supply, cart, status, items, seen,
                 cartLock, productLock>>

RestoredDeleted(r) == [p \in Product |-> stock[p] + want[r][p]]

\* The stock with the lines of r given back, those of deleted products aside.
Restored(r) ==
  [p \in Product |->
     IF productLock[p] = r THEN stock[p] + want[r][p] ELSE stock[p]]

CancelOrder(r) ==
  /\ pc[r] = "cancel"
  /\ todo[r] = {}
  /\ stock' = Restored(r)
  /\ status' = [o \in Order |->
                 IF orderLock[o] = r THEN "cancelled" ELSE status[o]]
  /\ EndTransaction(r)
  /\ UNCHANGED <<listing, supply, cart, items>>

\* The administrator's change, and the confirmation by a payment webhook.
UpdateStatus(o, new) ==
  /\ OrderFree(o)
  /\ status[o] \in OrderStatus
  /\ new \in ALLOWED_STATUS_TRANSITIONS[status[o]]
  /\ status' = [status EXCEPT ![o] = new]
  /\ UNCHANGED <<stock, listing, supply, cart, items, requestVars, lockVars>>

\* Any statement may fail (a foreign address, a lost connection, a crash of
\* the server): the database rolls the transaction back.
Abort(r) ==
  /\ pc[r] # "idle"
  /\ EndTransaction(r)
  /\ UNCHANGED <<stock, listing, supply, cart, status, items>>

-----------------------------------------------------------------------------
Step(r) ==
  \/ \E p \in Product : LockProduct(r, p)
  \/ \E o \in Order : PlaceOrder(r, o)
  \/ RejectCheckout(r)
  \/ CancelOrder(r)

CartEdit ==
  \E u \in User, p \in Product :
    \/ \E q \in Quantity : AddItem(u, p, q) \/ UpdateItem(u, p, q)
    \/ RemoveItem(u, p)

Next ==
  \/ CartEdit
  \/ \E r \in Request :
       \/ \E u \in User : BeginCheckout(r, u)
       \/ \E o \in Order : BeginCancel(r, o)
       \/ Step(r)
       \/ Abort(r)
  \/ \E o \in Order, new \in OrderStatus : UpdateStatus(o, new)

Spec == Init /\ [][Next]_vars

\* The database grants a row lock to each waiting transaction in turn, and the
\* server keeps executing the statements of a request it has begun.
FairSpec == Spec /\ \A r \in Request : SF_vars(Step(r))

-----------------------------------------------------------------------------
(* Properties.                                                             *)

\* Every variable has its type; in particular no sequence of checkouts,
\* cancellations and failures makes the stock of a product negative.
TypeOK ==
  /\ stock \in [Product -> Nat]
  /\ listing \in [Product -> {"active", "inactive", "deleted"}]
  /\ supply \in [Product -> Nat]
  /\ cart \in [User -> [Product -> Nat]]
  /\ status \in [Order -> StatusOrNone]
  /\ items \in [Order -> [Product -> Nat]]
  /\ pc \in [Request -> {"idle", "checkout", "cancel"}]
  /\ want \in [Request -> [Product -> Nat]]
  /\ todo \in [Request -> SUBSET Product]
  /\ seen \in [Request -> [Product -> Nat \cup {Missing}]]
  /\ cartLock \in [User -> Request \cup {NoRequest}]
  /\ productLock \in [Product -> Request \cup {NoRequest}]
  /\ orderLock \in [Order -> Request \cup {NoRequest}]

Live == {o \in Order : status[o] \notin {"none", "cancelled"}}

\* Units of p that orders still entitled to them hold.
Reserved(p) == MapThenSumSet(LAMBDA o : items[o][p], Live)

\* A unit is on the shelf or in exactly one order that was not cancelled: no
\* interleaving of checkouts, cancellations, status changes and failures
\* loses a unit, sells it twice or gives it back twice.
StockConserved == \A p \in Product : stock[p] + Reserved(p) = supply[p]

\* r waits for a row of the products table that s holds.
WaitsFor(r, s) ==
  \E p \in todo[r] : FirstOf(p, todo[r]) /\ productLock[p] = s

\* Checkouts and cancellations lock products in the same order, so there is
\* no circle of requests each waiting for the next (no database deadlock).
NoWaitCycle ==
  \A S \in SUBSET Request :
    S # {} => \E r \in S : \A s \in S : ~WaitsFor(r, s)

\* The stock a checkout validated a line against is still the stock of the
\* row, and the product is still listed: the row lock keeps the check valid
\* until the order is written.
SeenIsCurrent ==
  \A r \in Request, p \in Product :
    seen[r][p] # Missing =>
      productLock[p] = r /\ listing[p] = "active" /\ seen[r][p] = stock[p]

\* A new order holds exactly what some cart held, and that cart becomes empty
\* in the same step: no edit of a cart gets between the reading of the cart
\* and the deletion of its lines ("Cart mutations must lock this same row").
OrdersTakeWholeCart ==
  [][\A o \in Order : status[o] = "none" /\ status'[o] # "none" =>
       \E u \in User :
         Lines(cart[u]) # {} /\ items'[o] = cart[u] /\ cart'[u] = NoLines]_vars

\* An order becomes cancelled only from pending, although the status is read
\* when the cancellation begins and written when it ends: an order that was
\* confirmed meanwhile is never cancelled.
CancelOnlyPending ==
  [][\A o \in Order : status'[o] = "cancelled" /\ status[o] # "cancelled"
                        => status[o] = "pending"]_vars

\* Checkout, cancellation and status changes implement the stock ledger.
Ledger == INSTANCE StockLedger
ImplementsLedger == Ledger!Spec

\* Every checkout and cancellation that begins ends, even if others keep
\* taking the locks it waits for.
TransactionsEnd == \A r \in Request : pc[r] # "idle" ~> pc[r] = "idle"
=============================================================================
