------------------------------ MODULE Payments ------------------------------
(***************************************************************************)
(* Payments of orders (payments.service.ts with the Paymob gateway).       *)
(*                                                                         *)
(* createPayment runs outside any transaction: each of its database        *)
(* statements and its call of the provider is a step, and calls for the    *)
(* same order interleave freely.  A call is used once; the row it inserts  *)
(* and the payment intention it opens at the provider carry its name.      *)
(* The webhook is one transaction that locks the payment and then the      *)
(* order, so it is one step.  Events with another amount or currency, or   *)
(* that are not about a transaction, change nothing and are not modelled;  *)
(* nor are requests refused without an effect.                             *)
(***************************************************************************)
EXTENDS Integers, FiniteSets, OrderStates

CONSTANTS
  Order,     \* orders that were placed
  Call,      \* calls of createPayment: bounds how many are made
  Key,       \* values of the Idempotency-Key header
  NoOrder, NoKey,  \* of a call not made yet
  Fault      \* what may go wrong besides the provider: see SaveRef and Crash

ASSUME NoOrderAssumption == NoOrder \notin Order
ASSUME NoKeyAssumption   == NoKey \notin Key
ASSUME FaultAssumption   == Fault \subseteq {"crash", "saveError", "lostCommit"}

VARIABLES
  status,         \* orders.status
  pc,             \* the next step of a call
  forOrder, key,  \* its arguments
  answered,       \* whether it holds the provider's answer
  payment,        \* payments.status of the row the call inserted, or "none"
  ref,            \* whether that row has its transaction_ref and client_data
  intention,      \* of the call at the provider: "none", "open", "paid", or
                  \* "reversed": paid and then voided or refunded
  linked          \* whether its checkout URL was given to the customer

callVars == <<pc, forOrder, key, answered>>
rowVars  == <<payment, ref>>
vars == <<status, callVars, rowVars, intention, linked>>

Init ==
  /\ status = [o \in Order |-> "pending"]
  /\ pc = [c \in Call |-> "unused"]
  /\ forOrder = [c \in Call |-> NoOrder]
  /\ key = [c \in Call |-> NoKey]
  /\ answered = [c \in Call |-> FALSE]
  /\ payment = [c \in Call |-> "none"]
  /\ ref = [c \in Call |-> FALSE]
  /\ intention = [c \in Call |-> "none"]
  /\ linked = [c \in Call |-> FALSE]

Goto(c, step) == pc' = [pc EXCEPT ![c] = step]

-----------------------------------------------------------------------------
(* The payments table.                                                     *)

RowsOf(o)   == {d \in Call : forOrder[d] = o /\ payment[d] # "none"}
Active(d)   == payment[d] \in {"pending", "succeeded"}
SameKey(c)  == {d \in RowsOf(forOrder[c]) : key[d] = key[c]}
ActiveOf(c) == {d \in RowsOf(forOrder[c]) : Active(d)}

\* The two unique indexes of the table.  Beside each rule stand variants a
\* mistake would produce; no action uses them, they only show that the
\* properties below notice the difference.
OnlyKeyIndexed(c)    == SameKey(c) = {}
OnlyActiveIndexed(c) == ActiveOf(c) = {}
Insertable(c)        == SameKey(c) = {} /\ ActiveOf(c) = {}

-----------------------------------------------------------------------------
(* createPayment.                                                          *)

\* The order is read, without a lock, and must be pending.
Begin(c, o, k) ==
  /\ pc[c] = "unused"
  /\ status[o] = "pending"
  /\ Goto(c, "findByKey")
  /\ forOrder' = [forOrder EXCEPT ![c] = o]
  /\ key' = [key EXCEPT ![c] = k]
  /\ UNCHANGED <<status, answered, rowVars, intention, linked>>

\* The rows of D the call found are answered with: the stored checkout URL if
\* there is one, a conflict otherwise.
Answer(c, D) ==
  /\ Goto(c, "done")
  /\ linked' = [d \in Call |->
       linked[d] \/ (d \in D /\ payment[d] = "pending" /\ ref[d])]
  /\ UNCHANGED <<status, forOrder, key, answered, rowVars, intention>>

FindByKey(c) ==
  /\ pc[c] = "findByKey"
  /\ IF SameKey(c) # {}
     THEN Answer(c, SameKey(c))
     ELSE Goto(c, "findActive")
          /\ UNCHANGED <<status, forOrder, key, answered, rowVars, intention, linked>>

FindActive(c) ==
  /\ pc[c] = "findActive"
  /\ IF ActiveOf(c) # {}
     THEN Answer(c, ActiveOf(c))
     ELSE Goto(c, "insert")
          /\ UNCHANGED <<status, forOrder, key, answered, rowVars, intention, linked>>

Insert(c) ==
  /\ pc[c] = "insert"
  /\ IF Insertable(c)
     THEN payment' = [payment EXCEPT ![c] = "pending"] /\ Goto(c, "callProvider")
     ELSE Goto(c, "done") /\ UNCHANGED payment
  /\ UNCHANGED <<status, forOrder, key, answered, ref, intention, linked>>

\* The provider opens an intention; its answer may be lost, late or malformed.
ProviderOpens(c) ==
  /\ pc[c] = "callProvider"
  /\ intention' = [intention EXCEPT ![c] = "open"]
  /\ \/ Goto(c, "saveRef") /\ answered' = [answered EXCEPT ![c] = TRUE]
     \/ Goto(c, "saveFailed") /\ UNCHANGED answered
  /\ UNCHANGED <<status, forOrder, key, rowVars, linked>>

ProviderRefuses(c) ==
  /\ pc[c] = "callProvider"
  /\ Goto(c, "saveFailed")
  /\ UNCHANGED <<status, forOrder, key, answered, rowVars, intention, linked>>

\* The second save, and the response with the checkout URL.
SaveRef(c) ==
  /\ pc[c] = "saveRef"
  /\ Goto(c, "done")
  /\ ref' = [ref EXCEPT ![c] = TRUE]
  /\ linked' = [linked EXCEPT ![c] = TRUE]
  /\ UNCHANGED <<status, forOrder, key, answered, payment, intention>>

\* The second save throws: the row was not written, or it was and the
\* acknowledgement of the commit was lost.
SaveRefThrows(c) ==
  /\ pc[c] = "saveRef"
  /\ Goto(c, "saveFailed")
  /\ \/ "saveError" \in Fault /\ UNCHANGED ref
     \/ "lostCommit" \in Fault /\ ref' = [ref EXCEPT ![c] = TRUE]
  /\ UNCHANGED <<status, forOrder, key, answered, payment, intention, linked>>

\* The catch block: save writes every column in which the object differs from
\* the row, so with the status also a reference that was not written before.
SaveFailed(c) ==
  /\ pc[c] = "saveFailed"
  /\ Goto(c, "done")
  /\ payment' = [payment EXCEPT ![c] = "failed"]
  /\ ref' = [ref EXCEPT ![c] = @ \/ answered[c]]
  /\ UNCHANGED <<status, forOrder, key, answered, intention, linked>>

\* The server stops, or the database is unreachable, between two steps.
Crash(c) ==
  /\ "crash" \in Fault
  /\ pc[c] \notin {"unused", "done"}
  /\ Goto(c, "done")
  /\ UNCHANGED <<status, forOrder, key, answered, rowVars, intention, linked>>

-----------------------------------------------------------------------------
(* The provider, the webhook and the order.                                *)

\* The customer pays on the checkout page.
Pay(c) ==
  /\ intention[c] = "open"
  /\ linked[c]
  /\ intention' = [intention EXCEPT ![c] = "paid"]
  /\ UNCHANGED <<status, callVars, rowVars, linked>>

\* The store voids or refunds the payment at the provider.
Reverse(c) ==
  /\ intention[c] = "paid"
  /\ intention' = [intention EXCEPT ![c] = "reversed"]
  /\ UNCHANGED <<status, callVars, rowVars, linked>>

\* The transactions the provider may tell of, in any order, late, and more
\* than once: attempts begun or declined, the payment, and its reversal.
Transactions(c) ==
  CASE intention[c] = "open"     -> {"pending", "declined"}
    [] intention[c] = "paid"     -> {"pending", "declined", "paid"}
    [] intention[c] = "reversed" -> {"pending", "declined", "paid", "reversed"}
    [] OTHER                     -> {}

\* parseWebhook: an attempt under way or a reversal is no result.
FailedUnread(transaction) == IF transaction = "pending" THEN "ignored" ELSE "succeeded"
Parsed(transaction) ==
  CASE transaction \in {"pending", "reversed"} -> "ignored"
    [] transaction = "paid"                    -> "succeeded"
    [] OTHER                                   -> "failed"

\* A success event finds its row by transaction_ref.  A row that failed may
\* succeed unless the partial index holds another active row of the order.
KnownPending(c) == ref[c] /\ payment[c] = "pending" /\ status[forOrder[c]] = "pending"
Known(c) ==
  /\ ref[c]
  /\ payment[c] # "succeeded"
  /\ ActiveOf(c) \subseteq {c}

Overwritten(o) == [status EXCEPT ![o] = "confirmed"]
PaymentStatusWritten(o) == [status EXCEPT ![o] = "succeeded"]
ConfirmedIfPending(o) ==
  [status EXCEPT ![o] = IF @ = "pending" THEN "confirmed" ELSE @]

\* Events that are ignored, and failed ones, change nothing.
Webhook(c) ==
  /\ \E transaction \in Transactions(c) : Parsed(transaction) = "succeeded"
  /\ Known(c)
  /\ payment' = [payment EXCEPT ![c] = "succeeded"]
  /\ status' = ConfirmedIfPending(forOrder[c])
  /\ UNCHANGED <<callVars, ref, intention, linked>>

CancelOrder(o) ==
  /\ status[o] = "pending"
  /\ status' = [status EXCEPT ![o] = "cancelled"]
  /\ UNCHANGED <<callVars, rowVars, intention, linked>>

UpdateStatus(o, new) ==
  /\ new \in ALLOWED_STATUS_TRANSITIONS[status[o]]
  /\ status' = [status EXCEPT ![o] = new]
  /\ UNCHANGED <<callVars, rowVars, intention, linked>>

-----------------------------------------------------------------------------
Step(c) ==
  \/ FindByKey(c) \/ FindActive(c) \/ Insert(c)
  \/ ProviderOpens(c) \/ ProviderRefuses(c)
  \/ SaveRef(c) \/ SaveRefThrows(c) \/ SaveFailed(c)

Next ==
  \/ \E c \in Call :
       \/ \E o \in Order, k \in Key : Begin(c, o, k)
       \/ Step(c) \/ Crash(c) \/ Pay(c) \/ Reverse(c) \/ Webhook(c)
  \/ \E o \in Order : CancelOrder(o) \/ \E new \in OrderStatus : UpdateStatus(o, new)

Spec == Init /\ [][Next]_vars

\* The server goes on with the calls it serves, and the provider repeats an
\* event until it is accepted.
FairSpec == Spec /\ \A c \in Call : WF_vars(Step(c)) /\ WF_vars(Webhook(c))

-----------------------------------------------------------------------------
(* Properties.                                                             *)

\* Every variable has its type.
TypeOK ==
  /\ status \in [Order -> OrderStatus]
  /\ pc \in [Call -> {"unused", "findByKey", "findActive", "insert",
                      "callProvider", "saveRef", "saveFailed", "done"}]
  /\ forOrder \in [Call -> Order \cup {NoOrder}]
  /\ key \in [Call -> Key \cup {NoKey}]
  /\ answered \in [Call -> BOOLEAN]
  /\ payment \in [Call -> {"none", "pending", "succeeded", "failed"}]
  /\ ref \in [Call -> BOOLEAN]
  /\ intention \in [Call -> {"none", "open", "paid", "reversed"}]
  /\ linked \in [Call -> BOOLEAN]

Charged(c) == intention[c] \in {"paid", "reversed"}

\* README.md, "Double-charge protection": however calls of createPayment, lost
\* answers of the provider, failed saves, crashes and webhooks interleave, a
\* customer pays for an order at most once.
OneCharge ==
  \A c, d \in Call :
    Charged(c) /\ Charged(d) /\ forOrder[c] = forOrder[d] => c = d

\* docs/backend/API.md: the same Idempotency-Key for the same order never
\* creates a second payment, also when the calls run at the same time or the
\* first one failed.
OneIntentionPerKey ==
  \A c, d \in Call :
    intention[c] # "none" /\ intention[d] # "none"
        /\ forOrder[c] = forOrder[d] /\ key[c] = key[d]
      => c = d

\* "At most one payment per order can be pending or succeeded"
\* (getPaymentStatus relies on it to find the payment that counts).
OneActivePayment == \A c, d \in Call :
  Active(c) /\ Active(d) /\ forOrder[c] = forOrder[d] => c = d

\* Payments implement the abstract payment of an order.
PaidCalls(o) == {c \in Call : forOrder[c] = o /\ Charged(c)}
Abstract == INSTANCE OrderPayment WITH
  charges  <- [o \in Order |-> Cardinality(PaidCalls(o))],
  recorded <- [o \in Order |-> \E c \in Call : forOrder[c] = o /\ payment[c] = "succeeded"]
ImplementsOrderPayment == Abstract!Spec

\* A charge is recorded sooner or later, also when the order was cancelled or
\* changed by the administrator in between, or the charge was reversed before
\* its event came.
PaidIsRecorded ==
  \A c \in Call : Charged(c) ~> payment[c] = "succeeded"

\* README.md: "Stock is reserved at checkout, not at payment, so a paid order
\* can never be out of stock": an order that was still pending when its customer
\* had the checkout page open is never one that was paid and whose stock was
\* given back.
PageOpen(c) == intention[c] = "open" /\ linked[c]
PaidOrderKeepsStock ==
  \A c \in Call :
    [](PageOpen(c) /\ status[forOrder[c]] = "pending" =>
         [](payment[c] = "succeeded" => status[forOrder[c]] # "cancelled"))

\* "A payment for this order is already in progress, try again shortly": a
\* payment without a checkout URL does not stay in the customer's way.
InProgressEnds ==
  \A c \in Call : payment[c] = "pending" /\ ~ref[c]
                    ~> ~(payment[c] = "pending" /\ ~ref[c])
=============================================================================
