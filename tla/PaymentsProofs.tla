--------------------------- MODULE PaymentsProofs ---------------------------
(***************************************************************************)
(* Proofs about Payments, for every number of orders, calls and keys.      *)
(* Two invariants.  The first holds whatever fails: a row is what the call *)
(* that inserts it has reached, and the two unique indexes keep their      *)
(* promise.  The second needs that no acknowledgement of a commit is lost  *)
(* (SaveRefThrows): then a checkout page is only ever given to the         *)
(* customer for a row that is, and stays, the active one of its order.     *)
(***************************************************************************)
EXTENDS Payments, FiniteSetTheorems, TLAPS

\* The arguments of a call are set when it begins.
ArgumentsSet == \A c \in Call : pc[c] # "unused" => forOrder[c] \in Order

\* Before its insert a call left nothing behind, in any table or elsewhere.
NothingBeforeInsert ==
  \A c \in Call :
    pc[c] \in {"unused", "findByKey", "findActive", "insert"} =>
      payment[c] = "none" /\ ~ref[c] /\ intention[c] = "none" /\ ~linked[c]

\* An intention and a reference belong to a row; a page to an intention.
RowsBehind ==
  \A c \in Call :
    /\ intention[c] # "none" => payment[c] # "none"
    /\ ref[c] => payment[c] # "none" /\ intention[c] # "none"
    /\ linked[c] => ref[c]
    /\ Charged(c) => linked[c]
    /\ payment[c] = "succeeded" => Charged(c)
    /\ pc[c] = "callProvider" =>
         payment[c] = "pending" /\ intention[c] = "none" /\ ~answered[c]
    /\ pc[c] = "saveRef" => payment[c] = "pending" /\ intention[c] = "open" /\ ~ref[c]
    /\ pc[c] = "saveFailed" => payment[c] # "none"
    /\ answered[c] => intention[c] # "none"

\* The unique index on order and idempotency key.
OneRowPerKey ==
  \A c, d \in Call :
    payment[c] # "none" /\ payment[d] # "none"
        /\ forOrder[c] = forOrder[d] /\ key[c] = key[d]
      => c = d

\* What holds whatever fails.
IInv ==
  /\ TypeOK
  /\ ArgumentsSet
  /\ NothingBeforeInsert
  /\ RowsBehind
  /\ OneRowPerKey
  /\ OneActivePayment

\* A row gets its reference when its call is done with it, and the catch
\* block only ever meets a pending row without one: no page leads to a row
\* that failed.
PagesOfActive ==
  \A c \in Call :
    /\ ref[c] => pc[c] = "done"
    /\ pc[c] = "saveFailed" => payment[c] = "pending"
    /\ linked[c] => Active(c)

\* What holds unless the acknowledgement of a commit is lost.
PageInv == IInv /\ PagesOfActive

-----------------------------------------------------------------------------
\* The initial states satisfy both invariants.
LEMMA InvInit == Init => PageInv
BY NoOrderAssumption, NoKeyAssumption
   DEF Init, PageInv, IInv, TypeOK, ArgumentsSet, NothingBeforeInsert, RowsBehind,
       OneRowPerKey, OneActivePayment, PagesOfActive, Active, Charged, OrderStatus

\* Every step keeps the types.
LEMMA TypeStep == TypeOK /\ ArgumentsSet /\ [Next]_vars => TypeOK'
<1> SUFFICES ASSUME TypeOK, ArgumentsSet, [Next]_vars
             PROVE  TypeOK'
  OBVIOUS
<1> USE DEF TypeOK, Goto, Answer, callVars, rowVars
<1>1. ASSUME NEW c \in Call, NEW o \in Order, NEW k \in Key, Begin(c, o, k)
      PROVE  TypeOK'
  BY <1>1 DEF Begin
<1>2. ASSUME NEW c \in Call, FindByKey(c)
      PROVE  TypeOK'
  BY <1>2 DEF FindByKey
<1>3. ASSUME NEW c \in Call, FindActive(c)
      PROVE  TypeOK'
  BY <1>3 DEF FindActive
<1>4. ASSUME NEW c \in Call, Insert(c)
      PROVE  TypeOK'
  BY <1>4 DEF Insert
<1>5. ASSUME NEW c \in Call, ProviderOpens(c) \/ ProviderRefuses(c)
      PROVE  TypeOK'
  BY <1>5 DEF ProviderOpens, ProviderRefuses
<1>6. ASSUME NEW c \in Call, SaveRef(c) \/ SaveRefThrows(c) \/ SaveFailed(c)
      PROVE  TypeOK'
  BY <1>6 DEF SaveRef, SaveRefThrows, SaveFailed
<1>7. ASSUME NEW c \in Call, Crash(c) \/ Pay(c) \/ Reverse(c)
      PROVE  TypeOK'
  BY <1>7 DEF Crash, Pay, Reverse
<1>8. ASSUME NEW c \in Call, Webhook(c)
      PROVE  TypeOK'
  BY <1>8 DEF Webhook, ConfirmedIfPending, OrderStatus
<1>9. ASSUME NEW o \in Order, CancelOrder(o)
      PROVE  TypeOK'
  BY <1>9 DEF CancelOrder, OrderStatus
<1>10. ASSUME NEW o \in Order, NEW new \in OrderStatus, UpdateStatus(o, new)
       PROVE  TypeOK'
  BY <1>10 DEF UpdateStatus
<1>11. CASE UNCHANGED vars
  BY <1>11 DEF vars
<1> QED
  BY <1>1, <1>2, <1>3, <1>4, <1>5, <1>6, <1>7, <1>8, <1>9, <1>10, <1>11 DEF Next, Step

\* Every step keeps the invariant that holds whatever fails.
LEMMA InvStep == IInv /\ [Next]_vars => IInv'
<1> SUFFICES ASSUME IInv, [Next]_vars
             PROVE  IInv'
  OBVIOUS
<1>t. TypeOK /\ TypeOK'
  BY TypeStep DEF IInv
<1> USE DEF callVars, rowVars, Goto
<1>1. ASSUME NEW c \in Call, NEW o \in Order, NEW k \in Key, Begin(c, o, k)
      PROVE  IInv'
  <2> USE <1>1 DEF Begin
  <2>1. ArgumentsSet' /\ NothingBeforeInsert'
    BY <1>t DEF IInv, TypeOK, ArgumentsSet, NothingBeforeInsert
  <2>2. RowsBehind'
    BY <1>t DEF IInv, TypeOK, RowsBehind, Charged
  <2>3. OneRowPerKey' /\ OneActivePayment'
    BY <1>t DEF IInv, TypeOK, OneRowPerKey, OneActivePayment, Active, NothingBeforeInsert
  <2> QED
    BY <1>t, <2>1, <2>2, <2>3 DEF IInv
<1>2. ASSUME NEW c \in Call, FindByKey(c) \/ FindActive(c)
      PROVE  IInv'
  <2>1. PICK found \in SUBSET {d \in Call : payment[d] # "none"} :
          /\ pc[c] \in {"findByKey", "findActive"}
          /\ \/ pc' = [pc EXCEPT ![c] = "done"]
                /\ linked' = [d \in Call |->
                     linked[d] \/ (d \in found /\ payment[d] = "pending" /\ ref[d])]
             \/ pc' = [pc EXCEPT ![c] = "findActive"] /\ UNCHANGED linked
             \/ pc' = [pc EXCEPT ![c] = "insert"] /\ UNCHANGED linked
          /\ UNCHANGED <<status, forOrder, key, answered, rowVars, intention>>
    BY <1>2 DEF FindByKey, FindActive, Answer, SameKey, ActiveOf, RowsOf
  <2>2. ArgumentsSet' /\ NothingBeforeInsert'
    BY <1>t, <2>1 DEF IInv, TypeOK, ArgumentsSet, NothingBeforeInsert
  <2>3. RowsBehind'
    BY <1>t, <2>1 DEF IInv, TypeOK, RowsBehind, Charged
  <2>4. OneRowPerKey' /\ OneActivePayment'
    BY <1>t, <2>1 DEF IInv, TypeOK, OneRowPerKey, OneActivePayment, Active
  <2> QED
    BY <1>t, <2>2, <2>3, <2>4 DEF IInv
<1>3. ASSUME NEW c \in Call, Insert(c)
      PROVE  IInv'
  <2> USE <1>3 DEF Insert
  <2>1. ArgumentsSet' /\ NothingBeforeInsert'
    BY <1>t DEF IInv, TypeOK, ArgumentsSet, NothingBeforeInsert
  <2>2. RowsBehind'
    BY <1>t DEF IInv, TypeOK, RowsBehind, Charged, NothingBeforeInsert
  <2>3. OneRowPerKey'
    BY <1>t DEF IInv, TypeOK, OneRowPerKey, Insertable, SameKey, RowsOf
  <2>4. OneActivePayment'
    BY <1>t DEF IInv, TypeOK, OneActivePayment, Active, Insertable, ActiveOf, RowsOf
  <2> QED
    BY <1>t, <2>1, <2>2, <2>3, <2>4 DEF IInv
<1>4. ASSUME NEW c \in Call, ProviderOpens(c) \/ ProviderRefuses(c)
      PROVE  IInv'
  <2> USE <1>4 DEF ProviderOpens, ProviderRefuses
  <2>1. ArgumentsSet' /\ NothingBeforeInsert'
    BY <1>t DEF IInv, TypeOK, ArgumentsSet, NothingBeforeInsert
  <2>2. RowsBehind'
    BY <1>t DEF IInv, TypeOK, RowsBehind, Charged
  <2>3. OneRowPerKey' /\ OneActivePayment'
    BY <1>t DEF IInv, TypeOK, OneRowPerKey, OneActivePayment, Active
  <2> QED
    BY <1>t, <2>1, <2>2, <2>3 DEF IInv
<1>5. ASSUME NEW c \in Call, SaveRef(c) \/ SaveRefThrows(c)
      PROVE  IInv'
  <2> USE <1>5 DEF SaveRef, SaveRefThrows
  <2>1. ArgumentsSet' /\ NothingBeforeInsert'
    BY <1>t DEF IInv, TypeOK, ArgumentsSet, NothingBeforeInsert
  <2>2. RowsBehind'
    BY <1>t DEF IInv, TypeOK, RowsBehind, Charged
  <2>3. OneRowPerKey' /\ OneActivePayment'
    BY <1>t DEF IInv, TypeOK, OneRowPerKey, OneActivePayment, Active
  <2> QED
    BY <1>t, <2>1, <2>2, <2>3 DEF IInv
<1>6. ASSUME NEW c \in Call, SaveFailed(c)
      PROVE  IInv'
  <2> USE <1>6 DEF SaveFailed
  <2>1. ArgumentsSet' /\ NothingBeforeInsert'
    BY <1>t DEF IInv, TypeOK, ArgumentsSet, NothingBeforeInsert
  <2>2. RowsBehind'
    BY <1>t DEF IInv, TypeOK, RowsBehind, Charged
  <2>3. OneRowPerKey' /\ OneActivePayment'
    BY <1>t DEF IInv, TypeOK, OneRowPerKey, OneActivePayment, Active, RowsBehind
  <2> QED
    BY <1>t, <2>1, <2>2, <2>3 DEF IInv
<1>7. ASSUME NEW c \in Call, Crash(c)
      PROVE  IInv'
  <2> USE <1>7 DEF Crash
  <2>1. ArgumentsSet' /\ NothingBeforeInsert'
    BY <1>t DEF IInv, TypeOK, ArgumentsSet, NothingBeforeInsert
  <2>2. RowsBehind'
    BY <1>t DEF IInv, TypeOK, RowsBehind, Charged
  <2>3. OneRowPerKey' /\ OneActivePayment'
    BY DEF IInv, OneRowPerKey, OneActivePayment, Active
  <2> QED
    BY <1>t, <2>1, <2>2, <2>3 DEF IInv
<1>8. ASSUME NEW c \in Call, Pay(c) \/ Reverse(c)
      PROVE  IInv'
  <2> USE <1>8 DEF Pay, Reverse
  <2>1. ArgumentsSet' /\ NothingBeforeInsert'
    BY <1>t DEF IInv, TypeOK, ArgumentsSet, NothingBeforeInsert
  <2>2. RowsBehind'
    BY <1>t DEF IInv, TypeOK, RowsBehind, Charged, NothingBeforeInsert
  <2>3. OneRowPerKey' /\ OneActivePayment'
    BY DEF IInv, OneRowPerKey, OneActivePayment, Active
  <2> QED
    BY <1>t, <2>1, <2>2, <2>3 DEF IInv
<1>9. ASSUME NEW c \in Call, Webhook(c)
      PROVE  IInv'
  <2> USE <1>9 DEF Webhook
  <2>1. Charged(c) /\ ref[c]
    BY <1>t DEF TypeOK, Transactions, Parsed, Charged, Known
  <2>2. ArgumentsSet' /\ NothingBeforeInsert'
    BY <1>t, <2>1 DEF IInv, TypeOK, ArgumentsSet, NothingBeforeInsert
  <2>3. RowsBehind'
    BY <1>t, <2>1 DEF IInv, TypeOK, RowsBehind, Charged
  <2>4. OneRowPerKey'
    BY <1>t, <2>1 DEF IInv, TypeOK, OneRowPerKey, RowsBehind
  <2>5. OneActivePayment'
    BY <1>t DEF IInv, TypeOK, OneActivePayment, Active, Known, ActiveOf, RowsOf
  <2> QED
    BY <1>t, <2>2, <2>3, <2>4, <2>5 DEF IInv
<1>10. CASE UNCHANGED <<callVars, rowVars, intention, linked>>
  BY <1>t, <1>10 DEF IInv, ArgumentsSet, NothingBeforeInsert, RowsBehind, Charged,
     OneRowPerKey, OneActivePayment, Active
<1> QED
  BY <1>1, <1>2, <1>3, <1>4, <1>5, <1>6, <1>7, <1>8, <1>9, <1>10
     DEF Next, Step, CancelOrder, UpdateStatus, vars

\* Unless a lost commit lets the catch block meet a row that has its page,
\* every step keeps the pages with the active rows.
LEMMA PageStep ==
  ASSUME "lostCommit" \notin Fault
  PROVE  PageInv /\ [Next]_vars => PageInv'
<1> SUFFICES ASSUME PageInv, [Next]_vars
             PROVE  PagesOfActive'
  BY InvStep DEF PageInv
<1>t. TypeOK /\ TypeOK'
  BY TypeStep DEF PageInv, IInv
<1> USE DEF callVars, rowVars, Goto
<1>1. ASSUME NEW c \in Call, NEW o \in Order, NEW k \in Key, Begin(c, o, k)
      PROVE  PagesOfActive'
  BY <1>t, <1>1 DEF Begin, TypeOK, PageInv, IInv, PagesOfActive, NothingBeforeInsert, Active
<1>2. ASSUME NEW c \in Call, FindByKey(c)
      PROVE  PagesOfActive'
  BY <1>t, <1>2 DEF FindByKey, Answer, TypeOK, PageInv, IInv, PagesOfActive,
     NothingBeforeInsert, Active
<1>3. ASSUME NEW c \in Call, FindActive(c)
      PROVE  PagesOfActive'
  BY <1>t, <1>3 DEF FindActive, Answer, TypeOK, PageInv, IInv, PagesOfActive,
     NothingBeforeInsert, Active
<1>4. ASSUME NEW c \in Call, Insert(c)
      PROVE  PagesOfActive'
  BY <1>t, <1>4 DEF Insert, TypeOK, PageInv, IInv, PagesOfActive, NothingBeforeInsert, Active
<1>5. ASSUME NEW c \in Call, ProviderOpens(c) \/ ProviderRefuses(c)
      PROVE  PagesOfActive'
  BY <1>t, <1>5 DEF ProviderOpens, ProviderRefuses, TypeOK, PageInv, IInv, PagesOfActive,
     RowsBehind, Active
<1>6. ASSUME NEW c \in Call, SaveRef(c) \/ SaveRefThrows(c)
      PROVE  PagesOfActive'
  BY <1>t, <1>6 DEF SaveRef, SaveRefThrows, TypeOK, PageInv, IInv, PagesOfActive,
     RowsBehind, Active
<1>7. ASSUME NEW c \in Call, SaveFailed(c)
      PROVE  PagesOfActive'
  BY <1>t, <1>7 DEF SaveFailed, TypeOK, PageInv, IInv, PagesOfActive, RowsBehind, Active
<1>8. ASSUME NEW c \in Call, Crash(c)
      PROVE  PagesOfActive'
  BY <1>t, <1>8 DEF Crash, TypeOK, PageInv, PagesOfActive, Active
<1>9. ASSUME NEW c \in Call, Webhook(c)
      PROVE  PagesOfActive'
  BY <1>t, <1>9 DEF Webhook, Known, TypeOK, PageInv, PagesOfActive, Active
<1>10. CASE UNCHANGED <<callVars, rowVars, linked>>
  BY <1>t, <1>10 DEF PageInv, PagesOfActive, Active
<1> QED
  BY <1>1, <1>2, <1>3, <1>4, <1>5, <1>6, <1>7, <1>8, <1>9, <1>10
     DEF Next, Step, Pay, Reverse, CancelOrder, UpdateStatus, vars

\* Two charges of an order would be two active rows of it.
LEMMA ChargedOnce == PageInv => OneCharge
BY DEF PageInv, IInv, PagesOfActive, RowsBehind, OneActivePayment, OneCharge

-----------------------------------------------------------------------------
(* The refinement: what a step does to the abstract payment of its order.  *)

\* The abstract variables count one charge where a call charged, and none
\* elsewhere.
LEMMA ChargesCounted ==
  ASSUME OneCharge, NEW o \in Order
  PROVE  /\ \A c \in PaidCalls(o) : Cardinality(PaidCalls(o)) = 1
         /\ Cardinality(PaidCalls(o)) = 0 <=> PaidCalls(o) = {}
<1>1. CASE PaidCalls(o) = {}
  BY <1>1, FS_EmptySet
<1>2. ASSUME NEW c \in PaidCalls(o)
      PROVE  Cardinality(PaidCalls(o)) = 1
  <2>1. PaidCalls(o) = {c}
    BY DEF PaidCalls, OneCharge
  <2> QED
    BY <2>1, FS_Singleton
<1> QED
  BY <1>1, <1>2

\* The initial states implement those of the abstract payment.
LEMMA AbstractInit == Init => Abstract!Init
<1> SUFFICES ASSUME Init
             PROVE  Abstract!Init
  OBVIOUS
<1>1. ASSUME NEW o \in Order
      PROVE  Cardinality(PaidCalls(o)) = 0
  <2>1. PaidCalls(o) = {}
    BY DEF Init, PaidCalls, Charged
  <2> QED
    BY <2>1, FS_EmptySet
<1> QED
  BY <1>1 DEF Init, Abstract!Init

\* A step that neither charges nor records leaves the counts of charges and
\* the records of every order as they were.
LEMMA AbstractSame ==
  ASSUME \A c \in Call : Charged(c)' = Charged(c),
         \A c \in Call : (payment'[c] = "succeeded") = (payment[c] = "succeeded"),
         \A c \in Call : Charged(c) \/ payment[c] = "succeeded" => forOrder'[c] = forOrder[c]
  PROVE  /\ UNCHANGED [o \in Order |-> Cardinality(PaidCalls(o))]
         /\ UNCHANGED [o \in Order |->
              \E c \in Call : forOrder[c] = o /\ payment[c] = "succeeded"]
<1>1. \A o \in Order : PaidCalls(o)' = PaidCalls(o)
  BY DEF PaidCalls
<1>2. \A o \in Order : Cardinality(PaidCalls(o))' = Cardinality(PaidCalls(o))
  BY <1>1
<1> QED
  BY <1>2

\* Every step is a step of the abstract payment of one order, or stutters.
LEMMA AbstractStep ==
  PageInv /\ PageInv' /\ [Next]_vars => [Abstract!Next]_(Abstract!paymentVars)
<1> SUFFICES ASSUME PageInv, PageInv', [Next]_vars
             PROVE  Abstract!Next \/ UNCHANGED Abstract!paymentVars
  OBVIOUS
<1>t. TypeOK /\ TypeOK'
  BY DEF PageInv, IInv
<1>o. OneCharge /\ OneCharge'
  BY ChargedOnce, PTL
<1>1. ASSUME NEW c \in Call, NEW o \in Order, o = forOrder[c], Pay(c)
      PROVE  Abstract!Charge(o)
  <2>1. ~Charged(c) /\ Active(c)
    BY <1>1 DEF Pay, Charged, PageInv, PagesOfActive
  <2>2. PaidCalls(o) = {}
    <3>1. ASSUME NEW d \in Call, Charged(d), forOrder[d] = o
          PROVE  FALSE
      <4>1. Active(d)
        BY <3>1 DEF PageInv, IInv, PagesOfActive, RowsBehind
      <4> QED
        BY <1>1, <2>1, <3>1, <4>1 DEF PageInv, IInv, OneActivePayment
    <3> QED
      BY <3>1 DEF PaidCalls
  <2>3. c \in PaidCalls(o)'
    BY <1>1, <1>t DEF Pay, PaidCalls, Charged, TypeOK, callVars
  <2>4. \A p \in Order : p # o => PaidCalls(p)' = PaidCalls(p)
    BY <1>1, <1>t DEF Pay, PaidCalls, Charged, TypeOK, callVars
  <2>5. Cardinality(PaidCalls(o)) = 0 /\ Cardinality(PaidCalls(o)') = 1
    <3>1. PaidCalls(o)' = {c}
      BY <1>o, <2>3 DEF PaidCalls, OneCharge
    <3> QED
      BY <2>2, <3>1, FS_EmptySet, FS_Singleton
  <2> QED
    BY <1>1, <2>1, <2>4, <2>5 DEF Pay, rowVars, callVars, Abstract!Charge
<1>2. ASSUME NEW c \in Call, NEW o \in Order, o = forOrder[c], Webhook(c)
      PROVE  Abstract!Record(o)
  <2> USE <1>2 DEF Webhook
  <2>1. Charged(c)
    BY <1>t DEF TypeOK, Transactions, Parsed, Charged
  <2>2. Cardinality(PaidCalls(o)) = 1
    BY <1>o, <2>1, ChargesCounted DEF PaidCalls
  <2>3. ~\E d \in Call : forOrder[d] = o /\ payment[d] = "succeeded"
    BY DEF Known, ActiveOf, RowsOf, Active
  <2>4. \A p \in Order : PaidCalls(p)' = PaidCalls(p)
    BY DEF PaidCalls, Charged, callVars
  <2>5. \A p \in Order :
          (\E d \in Call : forOrder'[d] = p /\ payment'[d] = "succeeded")
            = (p = o \/ \E d \in Call : forOrder[d] = p /\ payment[d] = "succeeded")
    BY <1>t DEF TypeOK, callVars
  <2> QED
    BY <2>1, <2>2, <2>3, <2>4, <2>5 DEF ConfirmedIfPending, Abstract!Record
<1>3. ASSUME NEW o \in Order,
             CancelOrder(o) \/ \E new \in OrderStatus : UpdateStatus(o, new)
      PROVE  Abstract!ChangeStatus(o)
  <2>1. /\ UNCHANGED [p \in Order |-> Cardinality(PaidCalls(p))]
        /\ UNCHANGED [p \in Order |->
             \E c \in Call : forOrder[c] = p /\ payment[c] = "succeeded"]
    BY <1>3, AbstractSame DEF CancelOrder, UpdateStatus, callVars, rowVars, Charged
  <2> QED
    BY <1>3, <2>1 DEF CancelOrder, UpdateStatus, Abstract!ChangeStatus,
       ALLOWED_STATUS_TRANSITIONS, Abstract!ALLOWED_STATUS_TRANSITIONS,
       OrderStatus, Abstract!OrderStatus
<1>4. ASSUME NEW c \in Call,
             \/ \E o \in Order, k \in Key : Begin(c, o, k)
             \/ Step(c) \/ Crash(c) \/ Reverse(c)
      PROVE  UNCHANGED Abstract!paymentVars
  <2>1. UNCHANGED status /\ \A d \in Call : Charged(d)' = Charged(d)
    BY <1>4, <1>t DEF Begin, Step, FindByKey, FindActive, Answer, Insert, ProviderOpens,
       ProviderRefuses, SaveRef, SaveRefThrows, SaveFailed, Crash, Reverse, Charged, TypeOK,
       PageInv, IInv, RowsBehind
  <2>2. \A d \in Call : (payment'[d] = "succeeded") = (payment[d] = "succeeded")
    BY <1>4, <1>t DEF Begin, Step, FindByKey, FindActive, Answer, Insert, ProviderOpens,
       ProviderRefuses, SaveRef, SaveRefThrows, SaveFailed, Crash, Reverse, TypeOK, rowVars,
       PageInv, IInv, NothingBeforeInsert, PagesOfActive
  <2>3. \A d \in Call : Charged(d) \/ payment[d] = "succeeded" => forOrder'[d] = forOrder[d]
    BY <1>4, <1>t DEF Begin, Step, FindByKey, FindActive, Answer, Insert, ProviderOpens,
       ProviderRefuses, SaveRef, SaveRefThrows, SaveFailed, Crash, Reverse, TypeOK, callVars,
       PageInv, IInv, NothingBeforeInsert, Charged
  <2> QED
    BY <2>1, <2>2, <2>3, AbstractSame DEF Abstract!paymentVars
<1>5. CASE UNCHANGED vars
  BY <1>5, AbstractSame DEF vars, callVars, rowVars, Charged, Abstract!paymentVars
<1>6. ASSUME NEW c \in Call, Pay(c) \/ Webhook(c)
      PROVE  Abstract!Next
  <2>1. forOrder[c] \in Order
    BY <1>6, <1>t DEF Pay, Webhook, Known, PageInv, IInv, ArgumentsSet, NothingBeforeInsert
  <2>2. PICK o \in Order : o = forOrder[c]
    BY <2>1
  <2> QED
    BY <1>1, <1>2, <1>6, <2>2 DEF Abstract!Next
<1>7. ASSUME NEW o \in Order,
             CancelOrder(o) \/ \E new \in OrderStatus : UpdateStatus(o, new)
      PROVE  Abstract!Next
  BY <1>3, <1>7 DEF Abstract!Next
<1> QED
  BY <1>4, <1>5, <1>6, <1>7 DEF Next

-----------------------------------------------------------------------------
(* The theorems.                                                            *)

\* Every reachable state of the payments is well typed, and every call, row
\* and intention is where the steps of createPayment leave them.
THEOREM Invariance == Spec => []IInv
<1>1. Init => IInv
  BY InvInit DEF PageInv
<1> QED
  BY <1>1, InvStep, PTL DEF Spec

\* Whatever fails, also a lost commit: the types.
THEOREM TypeCorrect == Spec => []TypeOK
<1>1. IInv => TypeOK
  BY DEF IInv
<1> QED
  BY <1>1, Invariance, PTL

\* Whatever fails, also a lost commit: the same idempotency key never opens
\* two intentions for an order, however the look-ups and inserts interleave.
THEOREM KeyNeverPaysTwice == Spec => []OneIntentionPerKey
<1>1. IInv => OneIntentionPerKey
  BY DEF IInv, RowsBehind, OneRowPerKey, OneIntentionPerKey
<1> QED
  BY <1>1, Invariance, PTL

\* Whatever fails, also a lost commit: an order has at most one payment that
\* is pending or succeeded.
THEOREM AtMostOneActive == Spec => []OneActivePayment
<1>1. IInv => OneActivePayment
  BY DEF IInv
<1> QED
  BY <1>1, Invariance, PTL

\* Unless the acknowledgement of a commit is lost, a page given to a customer
\* stays the page of the active payment of its order.
THEOREM PageInvariance ==
  ASSUME "lostCommit" \notin Fault
  PROVE  Spec => []PageInv
BY InvInit, PageStep, PTL DEF Spec

\* Unless the acknowledgement of a commit is lost, a customer pays for an
\* order at most once.  (With it, he may pay twice: MCPaymentsLostCommit.)
THEOREM NoDoubleCharge ==
  ASSUME "lostCommit" \notin Fault
  PROVE  Spec => []OneCharge
BY PageInvariance, ChargedOnce, PTL

\* Unless the acknowledgement of a commit is lost, payments implement the
\* abstract payment of an order: charged at most once, recorded only after
\* the charge and for good, the order confirmed only if it was pending.
THEOREM Refinement ==
  ASSUME "lostCommit" \notin Fault
  PROVE  Spec => ImplementsOrderPayment
<1>1. Spec => []PageInv
  BY PageInvariance
<1> QED
  BY <1>1, AbstractInit, AbstractStep, PTL DEF Spec, ImplementsOrderPayment, Abstract!Spec
=============================================================================
