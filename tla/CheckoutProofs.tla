--------------------------- MODULE CheckoutProofs ---------------------------
(***************************************************************************)
(* Proofs about Checkout for every number of users, products, orders and   *)
(* requests.  The properties are not inductive: they hold because of what  *)
(* the holder of a row lock may rely on.  IInv says it.                    *)
(***************************************************************************)
EXTENDS Checkout, WellFoundedInduction, FiniteSetTheorems, TLAPS

\* A locked cart is the one its holder read, and it was not empty.
CartLocks ==
  /\ \A u \in User : cartLock[u] # NoRequest =>
       /\ pc[cartLock[u]] = "checkout"
       /\ want[cartLock[u]] = cart[u]
       /\ Lines(cart[u]) # {}
  /\ \A r \in Request : pc[r] = "checkout" => \E u \in User : cartLock[u] = r

\* Who holds a product has only larger ids still to lock.
ProductLocks ==
  \A p \in Product : productLock[p] # NoRequest =>
    /\ pc[productLock[p]] # "idle"
    /\ \A q \in todo[productLock[p]] : p < q

\* A locked order is pending, its holder is cancelling it and it alone, and
\* the lines the holder read are the lines it has.
OrderLocks ==
  /\ \A o \in Order : orderLock[o] # NoRequest =>
       /\ pc[orderLock[o]] = "cancel"
       /\ status[o] = "pending"
       /\ want[orderLock[o]] = items[o]
  /\ \A o, q \in Order : orderLock[o] = orderLock[q] /\ orderLock[o] # NoRequest
                           => o = q
  /\ \A r \in Request : pc[r] = "cancel" => \E o \in Order : orderLock[o] = r

\* A cancellation has locked the products of the lines it is done with.
CancelLines ==
  \A r \in Request, p \in Product :
    pc[r] = "cancel" /\ want[r][p] > 0 => p \in todo[r] \/ productLock[p] = r

\* An idle request has nothing left to do and has seen nothing.
IdleRequests ==
  \A r \in Request : pc[r] = "idle" => todo[r] = {} /\ seen[r] = NothingSeen

\* The inductive invariant.
IInv ==
  /\ TypeOK
  /\ CartLocks
  /\ ProductLocks
  /\ OrderLocks
  /\ SeenIsCurrent
  /\ CancelLines
  /\ IdleRequests

-----------------------------------------------------------------------------
(* Type correctness.                                                        *)

\* The initial states are well typed.
LEMMA TypeInit == Init => TypeOK
<1>1. MaxStock \in Nat
  BY MaxStockAssumption
<1> QED
  BY <1>1 DEF Init, TypeOK, StatusOrNone, NoLines, NothingSeen

\* Every step keeps the types.
LEMMA TypeStep == TypeOK /\ [Next]_vars => TypeOK'
<1> SUFFICES ASSUME TypeOK, [Next]_vars
             PROVE  TypeOK'
  OBVIOUS
<1> USE DEF TypeOK, requestVars, lockVars, NoLines, NothingSeen
<1>1. ASSUME NEW u \in User, NEW p \in Product, NEW n \in Nat, PutInCart(u, p, n)
      PROVE  TypeOK'
  BY <1>1 DEF PutInCart
<1>2. ASSUME NEW u \in User, NEW p \in Product, NEW q \in Quantity,
             AddItem(u, p, q) \/ UpdateItem(u, p, q)
      PROVE  TypeOK'
  <2>1. q \in Nat /\ cart[u][p] + q \in Nat
    BY QuantityAssumption
  <2> QED
    BY <1>1, <1>2, <2>1 DEF AddItem, UpdateItem
<1>3. ASSUME NEW u \in User, NEW p \in Product, RemoveItem(u, p)
      PROVE  TypeOK'
  BY <1>3 DEF RemoveItem
<1>4. ASSUME NEW r \in Request, NEW u \in User, BeginCheckout(r, u)
      PROVE  TypeOK'
  BY <1>4 DEF BeginCheckout, Lines
<1>5. ASSUME NEW r \in Request, NEW o \in Order, BeginCancel(r, o)
      PROVE  TypeOK'
  BY <1>5 DEF BeginCancel, Lines
<1>6. ASSUME NEW r \in Request, NEW p \in Product, LockProduct(r, p)
      PROVE  TypeOK'
  BY <1>6 DEF LockProduct
<1>7. ASSUME NEW r \in Request, EndTransaction(r)
      PROVE  /\ pc' \in [Request -> {"idle", "checkout", "cancel"}]
             /\ want' \in [Request -> [Product -> Nat]]
             /\ todo' \in [Request -> SUBSET Product]
             /\ seen' \in [Request -> [Product -> Nat \cup {Missing}]]
             /\ cartLock' \in [User -> Request \cup {NoRequest}]
             /\ productLock' \in [Product -> Request \cup {NoRequest}]
             /\ orderLock' \in [Order -> Request \cup {NoRequest}]
  BY <1>7 DEF EndTransaction, Released
<1>8. ASSUME NEW r \in Request, NEW o \in Order, PlaceOrder(r, o)
      PROVE  TypeOK'
  <2>1. ASSUME NEW p \in Product
        PROVE  stock[p] - want[r][p] \in Nat
    <3>1. stock[p] \in Nat /\ want[r][p] \in Nat
      OBVIOUS
    <3>2. want[r][p] > 0 => want[r][p] <= stock[p]
      BY <1>8 DEF PlaceOrder, Available, Lines
    <3> QED
      BY <3>1, <3>2
  <2> QED
    BY <1>7, <1>8, <2>1 DEF PlaceOrder, StatusOrNone, OrderStatus
<1>9. ASSUME NEW r \in Request, RejectCheckout(r) \/ Abort(r)
      PROVE  TypeOK'
  BY <1>7, <1>9 DEF RejectCheckout, Abort
<1>10. ASSUME NEW r \in Request, CancelOrder(r)
       PROVE  TypeOK'
  BY <1>7, <1>10 DEF CancelOrder, Restored, StatusOrNone, OrderStatus
<1>11. ASSUME NEW o \in Order, NEW new \in OrderStatus, UpdateStatus(o, new)
       PROVE  TypeOK'
  BY <1>11 DEF UpdateStatus, StatusOrNone
<1>12. CASE UNCHANGED vars
  BY <1>12 DEF vars
<1> QED
  BY <1>2, <1>3, <1>4, <1>5, <1>6, <1>8, <1>9, <1>10, <1>11, <1>12
     DEF Next, CartEdit, Step

\* Every reachable state is well typed; in particular the stock of a product
\* is never negative (decrementStock is never applied to too little stock).
THEOREM TypeCorrect == Spec => []TypeOK
BY TypeInit, TypeStep, PTL DEF Spec

-----------------------------------------------------------------------------
(* Sums.  Reserved is a fold, a function defined by recursion that takes    *)
(* the orders out in an order of its own.  Inductions are by the smallest   *)
(* set for which a fact would fail.                                         *)

\* A non-empty set of naturals has a least element (the order of the naturals
\* is well founded; the induction theorems themselves are second order).
LEMMA LeastNatural ==
  ASSUME NEW W \in SUBSET Nat, W # {}
  PROVE  \E n \in W : \A m \in W : n <= m
<1> DEFINE R == OpToRel(<, Nat)
<1>1. \A m, n \in Nat : m < n => <<m, n>> \in R
  BY DEF OpToRel
<1>2. IsWellFoundedOn(R, Nat)
  BY NatLessThanWellFounded
<1> HIDE DEF R
<1>3. PICK n \in W : \A m \in W : ~ (<<m, n>> \in R)
  BY <1>2, WFMin
<1>4. ASSUME NEW m \in W
      PROVE  n <= m
  <2>1. n \in Nat /\ m \in Nat
    OBVIOUS
  <2>2. ~ (m < n)
    BY <1>1, <1>3, <2>1
  <2> QED
    BY <2>1, <2>2
<1> QED
  BY <1>4

\* Among subsets of a finite set, one has the fewest elements.
LEMMA SmallestSet ==
  ASSUME NEW T, IsFiniteSet(T), NEW B \in SUBSET (SUBSET T), B # {}
  PROVE  \E s \in B : \A t \in B : Cardinality(s) <= Cardinality(t)
<1> DEFINE W == {n \in Nat : \E s \in B : n = Cardinality(s)}
<1>1. \A s \in B : Cardinality(s) \in Nat
  BY FS_Subset, FS_CardinalityType
<1>2. W # {} /\ W \in SUBSET Nat
  BY <1>1
<1>3. PICK n \in W : \A m \in W : n <= m
  <2> HIDE DEF W
  <2> QED
    BY <1>2, LeastNatural
<1> QED
  BY <1>1, <1>3

\* The units of p in the orders of S, with the lines of it.
Units(it, p, S) == MapThenSumSet(LAMBDA o : it[o][p], S)

\* The sum takes the orders out one by one; f holds it for every part of S.
Out(s) == CHOOSE o \in s : TRUE
IsSum(f, it, p, S) ==
  f = [s \in SUBSET S |-> IF s = {} THEN 0 ELSE it[Out(s)][p] + f[s \ {Out(s)}]]

\* The fold is the value of that function.
LEMMA UnitsFold ==
  ASSUME NEW it, NEW p, NEW S
  PROVE  Units(it, p, S) = (CHOOSE f : IsSum(f, it, p, S))[S]
BY DEF Units, IsSum, Out, MapThenSumSet, MapThenFoldSet

\* Taking one out leaves fewer.
LEMMA OutSmaller ==
  ASSUME NEW S, IsFiniteSet(S), NEW s \in SUBSET S, s # {}, NEW o \in s
  PROVE  /\ Out(s) \in s
         /\ IsFiniteSet(s) /\ IsFiniteSet(s \ {o})
         /\ Cardinality(s \ {o}) < Cardinality(s)
<1>1. Out(s) \in s
  BY DEF Out
<1>2. IsFiniteSet(s)
  BY FS_Subset
<1>3. IsFiniteSet(s \ {o}) /\ Cardinality(s \ {o}) = Cardinality(s) - 1
  BY <1>2, FS_RemoveElement
<1>4. Cardinality(s) \in Nat
  BY <1>2, FS_CardinalityType
<1> QED
  BY <1>1, <1>2, <1>3, <1>4

\* Sums agree where the lines do.
LEMMA SumsAgree ==
  ASSUME NEW S, NEW T, IsFiniteSet(S), NEW p, NEW it, NEW jt, NEW f, NEW g,
         IsSum(f, it, p, S), IsSum(g, jt, p, T), NEW U, U \subseteq S, U \subseteq T,
         \A o \in U : it[o][p] = jt[o][p]
  PROVE  f[U] = g[U]
<1> DEFINE B == {s \in SUBSET U : f[s] # g[s]}
<1>1. SUFFICES ASSUME B # {} PROVE FALSE
  OBVIOUS
<1>2. IsFiniteSet(U)
  BY FS_Subset
<1>3. PICK s \in B : \A t \in B : Cardinality(s) <= Cardinality(t)
  BY <1>1, <1>2, SmallestSet
<1>4. /\ f[s] = IF s = {} THEN 0 ELSE it[Out(s)][p] + f[s \ {Out(s)}]
      /\ g[s] = IF s = {} THEN 0 ELSE jt[Out(s)][p] + g[s \ {Out(s)}]
  BY DEF IsSum
<1>5. s # {}
  BY <1>4
<1>6. Out(s) \in s
  BY <1>5 DEF Out
<1>7. /\ Cardinality(s \ {Out(s)}) < Cardinality(s)
      /\ Cardinality(s) \in Nat /\ Cardinality(s \ {Out(s)}) \in Nat
  BY <1>2, <1>5, <1>6, OutSmaller, FS_CardinalityType
<1>8. s \ {Out(s)} \notin B
  BY <1>3, <1>7
<1>9. f[s \ {Out(s)}] = g[s \ {Out(s)}]
  BY <1>8
<1> QED
  BY <1>4, <1>5, <1>6, <1>9

\* Every finite set of orders has a sum.
LEMMA SumExists ==
  ASSUME NEW T, IsFiniteSet(T), NEW it, NEW p
  PROVE  \E f : IsSum(f, it, p, T)
<1> DEFINE B == {s \in SUBSET T : ~ \E f : IsSum(f, it, p, s)}
<1>1. SUFFICES ASSUME B # {} PROVE FALSE
  OBVIOUS
<1>2. PICK s \in B : \A t \in B : Cardinality(s) <= Cardinality(t)
  BY <1>1, SmallestSet
<1>s. IsFiniteSet(s)
  BY FS_Subset
<1>3. ASSUME NEW t \in SUBSET s, t # s
      PROVE  \E f : IsSum(f, it, p, t)
  <2>1. Cardinality(t) < Cardinality(s)
    <3>1. Cardinality(t) <= Cardinality(s) /\ (Cardinality(t) = Cardinality(s) => t = s)
      BY <1>s, FS_Subset
    <3> QED
      BY <1>s, <1>3, <3>1, FS_Subset, FS_CardinalityType
  <2>2. Cardinality(t) \in Nat /\ Cardinality(s) \in Nat
    BY <1>s, FS_Subset, FS_CardinalityType
  <2> QED
    BY <1>2, <2>1, <2>2
<1> DEFINE F == [t \in SUBSET s |->
                   IF t = {} THEN 0 ELSE it[Out(t)][p] + Units(it, p, t \ {Out(t)})]
<1>4. ASSUME NEW t \in SUBSET s, t # s
      PROVE  F[t] = Units(it, p, t)
  <2>1. PICK f : IsSum(f, it, p, t) /\ Units(it, p, t) = f[t]
    BY <1>3, <1>4, UnitsFold
  <2>2. f[t] = IF t = {} THEN 0 ELSE it[Out(t)][p] + f[t \ {Out(t)}]
    BY <2>1 DEF IsSum
  <2>3. CASE t = {}
    BY <2>1, <2>2, <2>3
  <2>4. CASE t # {}
    <3>1. Out(t) \in t
      BY <2>4 DEF Out
    <3>2. t \ {Out(t)} \in SUBSET s /\ t \ {Out(t)} # s
      BY <1>4, <3>1
    <3>3. PICK g : IsSum(g, it, p, t \ {Out(t)})
                   /\ Units(it, p, t \ {Out(t)}) = g[t \ {Out(t)}]
      BY <1>3, <3>2, UnitsFold
    <3>4. IsFiniteSet(t)
      BY <1>s, FS_Subset
    <3>5. f[t \ {Out(t)}] = g[t \ {Out(t)}]
      <4>1. t \ {Out(t)} \subseteq t
        OBVIOUS
      <4> QED
        BY <2>1, <3>3, <3>4, <4>1, SumsAgree
    <3> QED
      BY <2>1, <2>2, <2>4, <3>3, <3>5
  <2> QED
    BY <2>3, <2>4
<1>5. IsSum(F, it, p, s)
  <2>1. ASSUME NEW t \in SUBSET s, t # {}
        PROVE  F[t] = it[Out(t)][p] + F[t \ {Out(t)}]
    <3>1. Out(t) \in t
      BY <2>1 DEF Out
    <3>2. t \ {Out(t)} \in SUBSET s /\ t \ {Out(t)} # s
      BY <3>1
    <3>3. F[t \ {Out(t)}] = Units(it, p, t \ {Out(t)})
      BY <1>4, <3>2
    <3>4. F[t] = it[Out(t)][p] + Units(it, p, t \ {Out(t)})
      BY <2>1
    <3> QED
      BY <3>3, <3>4
  <2>2. F[{}] = 0
    OBVIOUS
  <2>3. F = [t \in SUBSET s |-> F[t]]
    OBVIOUS
  <2> HIDE DEF F
  <2>4. [t \in SUBSET s |-> F[t]]
          = [t \in SUBSET s |-> IF t = {} THEN 0 ELSE it[Out(t)][p] + F[t \ {Out(t)}]]
    BY <2>1, <2>2
  <2> QED
    BY <2>3, <2>4 DEF IsSum
<1> QED
  BY <1>5

\* No order, no units; otherwise those of one order and of the others.
LEMMA UnitsUnfold ==
  ASSUME NEW S, IsFiniteSet(S), NEW it, NEW p
  PROVE  Units(it, p, S) = IF S = {} THEN 0
                           ELSE it[Out(S)][p] + Units(it, p, S \ {Out(S)})
<1>1. PICK f : IsSum(f, it, p, S) /\ Units(it, p, S) = f[S]
  BY SumExists, UnitsFold
<1>2. PICK g : IsSum(g, it, p, S \ {Out(S)})
               /\ Units(it, p, S \ {Out(S)}) = g[S \ {Out(S)}]
  BY SumExists, UnitsFold, FS_Subset
<1>3. f[S \ {Out(S)}] = g[S \ {Out(S)}]
  <2>1. S \ {Out(S)} \subseteq S
    OBVIOUS
  <2> QED
    BY <1>1, <1>2, <2>1, SumsAgree
<1>4. f[S] = IF S = {} THEN 0 ELSE it[Out(S)][p] + f[S \ {Out(S)}]
  BY <1>1 DEF IsSum
<1> QED
  BY <1>1, <1>2, <1>3, <1>4

\* The sum is the same for the same lines.
LEMMA UnitsSame ==
  ASSUME NEW S, IsFiniteSet(S), NEW it, NEW jt, NEW p, \A o \in S : it[o][p] = jt[o][p]
  PROVE  Units(it, p, S) = Units(jt, p, S)
<1>1. PICK f : IsSum(f, it, p, S) /\ Units(it, p, S) = f[S]
  BY SumExists, UnitsFold
<1>2. PICK g : IsSum(g, jt, p, S) /\ Units(jt, p, S) = g[S]
  BY SumExists, UnitsFold
<1>3. f[S] = g[S]
  <2>1. S \subseteq S
    OBVIOUS
  <2> QED
    <3>1. IsSum(f, it, p, S) /\ IsSum(g, jt, p, S)
      BY <1>1, <1>2
    <3>2. \A U : U \subseteq S /\ (\A o \in U : it[o][p] = jt[o][p]) => f[U] = g[U]
      BY <3>1, SumsAgree
    <3> QED
      BY <2>1, <3>2
<1> QED
  BY <1>1, <1>2, <1>3

\* The sum is a natural number.
LEMMA UnitsType ==
  ASSUME NEW S, IsFiniteSet(S), NEW it, NEW p, \A o \in S : it[o][p] \in Nat
  PROVE  Units(it, p, S) \in Nat
<1> DEFINE B == {s \in SUBSET S : Units(it, p, s) \notin Nat}
<1>1. SUFFICES ASSUME B # {} PROVE FALSE
  OBVIOUS
<1>2. PICK s \in B : \A t \in B : Cardinality(s) <= Cardinality(t)
  BY <1>1, SmallestSet
<1>3. IsFiniteSet(s)
  BY FS_Subset
<1>4. s # {} /\ Out(s) \in s
  BY <1>3, UnitsUnfold DEF Out
<1>5. /\ Cardinality(s \ {Out(s)}) < Cardinality(s)
      /\ Cardinality(s) \in Nat /\ Cardinality(s \ {Out(s)}) \in Nat
  BY <1>3, <1>4, OutSmaller, FS_CardinalityType
<1>6. Units(it, p, s \ {Out(s)}) \in Nat
  BY <1>2, <1>5
<1>7. Units(it, p, s) = it[Out(s)][p] + Units(it, p, s \ {Out(s)})
  BY <1>3, <1>4, UnitsUnfold
<1>8. it[Out(s)][p] \in Nat
  BY <1>4
<1>9. Units(it, p, s) \in Nat
  BY <1>6, <1>7, <1>8
<1> QED
  BY <1>9

\* Whichever order is taken out, the sum is what it holds and what the others
\* hold.
LEMMA UnitsRemove ==
  ASSUME NEW S, IsFiniteSet(S), NEW it, NEW p, \A o \in S : it[o][p] \in Nat, NEW o \in S
  PROVE  Units(it, p, S) = it[o][p] + Units(it, p, S \ {o})
<1> DEFINE B == {s \in SUBSET S :
                   \E q \in s : Units(it, p, s) # it[q][p] + Units(it, p, s \ {q})}
<1>1. SUFFICES ASSUME B # {} PROVE FALSE
  OBVIOUS
<1>2. PICK s \in B : \A t \in B : Cardinality(s) <= Cardinality(t)
  BY <1>1, SmallestSet
<1>3. PICK q \in s : Units(it, p, s) # it[q][p] + Units(it, p, s \ {q})
  OBVIOUS
<1>4. IsFiniteSet(s) /\ s \in SUBSET S
  BY FS_Subset
<1> DEFINE x == Out(s)
<1>5. x \in s
  BY <1>3 DEF Out
<1>6. Units(it, p, s) = it[x][p] + Units(it, p, s \ {x})
  BY <1>3, <1>4, UnitsUnfold
<1> HIDE DEF x
<1>7. x # q
  BY <1>3, <1>6
<1>8. \A y \in s : /\ Cardinality(s \ {y}) < Cardinality(s)
                   /\ Cardinality(s \ {y}) \in Nat /\ Cardinality(s) \in Nat
  BY <1>4, OutSmaller, FS_CardinalityType
<1>9. \A y \in s : s \ {y} \notin B
  <2> HIDE DEF B
  <2> QED
    BY <1>2, <1>8
<1>10. /\ Units(it, p, s \ {x}) = it[q][p] + Units(it, p, (s \ {x}) \ {q})
       /\ Units(it, p, s \ {q}) = it[x][p] + Units(it, p, (s \ {q}) \ {x})
  <2>1. s \ {x} \in SUBSET S /\ q \in s \ {x} /\ s \ {q} \in SUBSET S /\ x \in s \ {q}
    BY <1>4, <1>5, <1>7
  <2> QED
    BY <1>5, <1>9, <2>1
<1>11. (s \ {x}) \ {q} = (s \ {q}) \ {x}
  OBVIOUS
<1>12. Units(it, p, (s \ {q}) \ {x}) \in Nat /\ it[x][p] \in Nat /\ it[q][p] \in Nat
  <2>1. IsFiniteSet((s \ {q}) \ {x}) /\ \A y \in (s \ {q}) \ {x} : it[y][p] \in Nat
    BY <1>4, FS_Subset
  <2>2. Units(it, p, (s \ {q}) \ {x}) \in Nat
    BY <2>1, UnitsType
  <2> QED
    BY <1>4, <1>5, <2>2
<1> HIDE DEF B
<1> DEFINE rest == Units(it, p, (s \ {q}) \ {x})
<1>13. /\ Units(it, p, s \ {x}) = it[q][p] + rest
       /\ Units(it, p, s \ {q}) = it[x][p] + rest
  BY <1>10, <1>11
<1>14. rest \in Nat
  BY <1>12
<1> HIDE DEF rest
<1>15. Units(it, p, s) = it[q][p] + Units(it, p, s \ {q})
  BY <1>6, <1>12, <1>13, <1>14
<1> QED
  BY <1>3, <1>15

-----------------------------------------------------------------------------
(* The invariant.                                                           *)

\* The step leaves alone every row that someone other than r has locked.
HeldUnchanged(r) ==
  /\ \A u \in User : cartLock[u] \notin {r, NoRequest} => cart'[u] = cart[u]
  /\ \A p \in Product : productLock[p] \notin {r, NoRequest} => stock'[p] = stock[p]
  /\ \A o \in Order : orderLock[o] \notin {r, NoRequest} =>
       status'[o] = status[o] /\ items'[o] = items[o]
  /\ listing' = listing

\* The invariant holds at the start.
LEMMA InvInit == Init => IInv
<1> SUFFICES ASSUME Init PROVE IInv
  OBVIOUS
<1> USE NoRequestAssumption
<1>1. TypeOK
  BY TypeInit
<1>2. CartLocks /\ ProductLocks /\ OrderLocks
  BY DEF Init, CartLocks, ProductLocks, OrderLocks
<1>3. SeenIsCurrent /\ CancelLines /\ IdleRequests
  BY DEF Init, SeenIsCurrent, CancelLines, IdleRequests, NothingSeen, Missing
<1> QED
  BY <1>1, <1>2, <1>3 DEF IInv

\* A transaction may end, by commit or rollback, with any change of rows that
\* nobody else has locked.
LEMMA EndStep ==
  ASSUME IInv, NEW r \in Request, pc[r] # "idle", EndTransaction(r), HeldUnchanged(r)
  PROVE  /\ CartLocks' /\ ProductLocks' /\ OrderLocks'
         /\ SeenIsCurrent' /\ CancelLines' /\ IdleRequests'
<1> USE NoRequestAssumption
<1>1. /\ \A s \in Request : s # r => /\ pc'[s] = pc[s] /\ want'[s] = want[s]
                                     /\ todo'[s] = todo[s] /\ seen'[s] = seen[s]
      /\ pc'[r] = "idle" /\ want'[r] = NoLines
      /\ todo'[r] = {} /\ seen'[r] = NothingSeen
  BY DEF EndTransaction, IInv, TypeOK
<1>2. /\ \A u \in User : cartLock'[u] =
           IF cartLock[u] = r THEN NoRequest ELSE cartLock[u]
      /\ \A p \in Product : productLock'[p] =
           IF productLock[p] = r THEN NoRequest ELSE productLock[p]
      /\ \A o \in Order : orderLock'[o] =
           IF orderLock[o] = r THEN NoRequest ELSE orderLock[o]
  BY DEF EndTransaction, Released, IInv, TypeOK
<1>3. /\ \A u \in User : cartLock[u] \in Request \cup {NoRequest}
      /\ \A p \in Product : productLock[p] \in Request \cup {NoRequest}
      /\ \A o \in Order : orderLock[o] \in Request \cup {NoRequest}
  BY DEF IInv, TypeOK
<1>4. CartLocks'
  BY <1>1, <1>2, <1>3 DEF IInv, CartLocks, HeldUnchanged, Lines
<1>5. ProductLocks'
  BY <1>1, <1>2, <1>3 DEF IInv, ProductLocks
<1>6. OrderLocks'
  BY <1>1, <1>2, <1>3 DEF IInv, OrderLocks, HeldUnchanged
<1>7. SeenIsCurrent'
  BY <1>1, <1>2, <1>3 DEF IInv, SeenIsCurrent, HeldUnchanged, NothingSeen, Missing
<1>8. CancelLines'
  BY <1>1, <1>2, <1>3 DEF IInv, CancelLines
<1>9. IdleRequests'
  BY <1>1 DEF IInv, IdleRequests, HeldUnchanged
<1> QED
  BY <1>4, <1>5, <1>6, <1>7, <1>8, <1>9

\* Every step keeps the invariant.
LEMMA InvStep == IInv /\ [Next]_vars => IInv'
<1> SUFFICES ASSUME IInv, [Next]_vars
             PROVE  IInv'
  OBVIOUS
<1> USE NoRequestAssumption
<1>t. TypeOK /\ TypeOK'
  BY TypeStep DEF IInv
<1>c. ASSUME NEW u \in User, CartFree(u), NEW c, cart' = [cart EXCEPT ![u] = c],
             UNCHANGED <<stock, listing, supply, status, items, requestVars, lockVars>>
      PROVE  IInv'
  BY <1>t, <1>c DEF IInv, TypeOK, CartFree, requestVars, lockVars, CartLocks, ProductLocks,
     OrderLocks, SeenIsCurrent, CancelLines, IdleRequests, Lines
<1>1. ASSUME NEW u \in User, NEW p \in Product, NEW q \in Quantity,
             AddItem(u, p, q) \/ UpdateItem(u, p, q)
      PROVE  IInv'
  BY <1>1, <1>c DEF AddItem, UpdateItem, PutInCart
<1>2. ASSUME NEW u \in User, NEW p \in Product, RemoveItem(u, p)
      PROVE  IInv'
  BY <1>2, <1>c DEF RemoveItem
<1>3. ASSUME NEW r \in Request, NEW u \in User, BeginCheckout(r, u)
      PROVE  IInv'
  <2> USE <1>3 DEF BeginCheckout
  <2>1. CartLocks'
    BY <1>t DEF IInv, TypeOK, CartLocks, CartFree, Lines
  <2>2. ProductLocks'
    BY <1>t DEF IInv, TypeOK, ProductLocks
  <2>3. OrderLocks'
    BY <1>t DEF IInv, TypeOK, OrderLocks
  <2>4. SeenIsCurrent'
    BY DEF IInv, SeenIsCurrent
  <2>5. CancelLines' /\ IdleRequests'
    BY <1>t DEF IInv, TypeOK, CancelLines, IdleRequests
  <2> QED
    BY <1>t, <2>1, <2>2, <2>3, <2>4, <2>5 DEF IInv
<1>4. ASSUME NEW r \in Request, NEW o \in Order, BeginCancel(r, o)
      PROVE  IInv'
  <2> USE <1>4 DEF BeginCancel
  <2>1. CartLocks'
    BY <1>t DEF IInv, TypeOK, CartLocks
  <2>2. ProductLocks'
    BY <1>t DEF IInv, TypeOK, ProductLocks
  <2>3. OrderLocks'
    BY <1>t DEF IInv, TypeOK, OrderLocks, OrderFree
  <2>4. SeenIsCurrent'
    BY DEF IInv, SeenIsCurrent
  <2>5. CancelLines'
    BY <1>t DEF IInv, TypeOK, CancelLines, Lines
  <2>6. IdleRequests'
    BY <1>t DEF IInv, TypeOK, IdleRequests
  <2> QED
    BY <1>t, <2>1, <2>2, <2>3, <2>4, <2>5, <2>6 DEF IInv
<1>5. ASSUME NEW r \in Request, NEW p \in Product, LockProduct(r, p)
      PROVE  IInv'
  <2> USE <1>5 DEF LockProduct
  <2>1. CartLocks' /\ OrderLocks'
    BY DEF IInv, CartLocks, OrderLocks
  <2>2. ProductLocks'
    BY <1>t DEF IInv, TypeOK, ProductLocks, FirstOf, IdleRequests, Product
  <2>3. SeenIsCurrent'
    <3> SUFFICES ASSUME NEW s \in Request, NEW q \in Product, seen'[s][q] # Missing
                 PROVE  productLock'[q] = s /\ listing[q] = "active"
                          /\ seen'[s][q] = stock[q]
      BY DEF SeenIsCurrent
    <3>1. productLock' \in [Product -> Request \cup {NoRequest}] /\ productLock'[p] = r
      BY <1>t DEF TypeOK
    <3>2. CASE s = r /\ q = p /\ seen' # seen
      BY <1>t, <3>1, <3>2 DEF TypeOK, Selected
    <3>3. CASE seen'[s][q] = seen[s][q]
      BY <1>t, <3>3 DEF TypeOK, IInv, SeenIsCurrent, ProductFree
    <3> QED
      BY <1>t, <3>2, <3>3 DEF TypeOK
  <2>4. CancelLines'
    BY <1>t DEF IInv, TypeOK, CancelLines, ProductFree
  <2>5. IdleRequests'
    BY <1>t DEF IInv, TypeOK, IdleRequests, FirstOf
  <2> QED
    BY <1>t, <2>1, <2>2, <2>3, <2>4, <2>5 DEF IInv
<1>6. ASSUME NEW r \in Request, NEW o \in Order, PlaceOrder(r, o)
      PROVE  IInv'
  <2> USE <1>6 DEF PlaceOrder
  <2>1. ASSUME NEW p \in Product, productLock[p] # r
        PROVE  stock'[p] = stock[p]
    <3>1. seen[r][p] = Missing
      BY <2>1 DEF IInv, SeenIsCurrent
    <3>2. want[r][p] \in Nat /\ stock[p] \in Nat
      BY <1>t DEF TypeOK
    <3>3. want[r][p] > 0 => want[r][p] <= seen[r][p]
      BY DEF Available, Lines
    <3> QED
      BY <3>1, <3>2, <3>3 DEF Missing
  <2>2. HeldUnchanged(r)
    BY <1>t, <2>1 DEF HeldUnchanged, IInv, TypeOK, OrderLocks
  <2> QED
    BY <1>t, <2>2, EndStep DEF IInv
<1>7. ASSUME NEW r \in Request, RejectCheckout(r) \/ Abort(r)
      PROVE  IInv'
  <2>1. pc[r] # "idle" /\ EndTransaction(r) /\ HeldUnchanged(r)
    BY <1>7 DEF RejectCheckout, Abort, HeldUnchanged
  <2> QED
    BY <1>t, <2>1, EndStep DEF IInv
<1>8. ASSUME NEW r \in Request, CancelOrder(r)
      PROVE  IInv'
  <2>1. pc[r] # "idle" /\ EndTransaction(r) /\ HeldUnchanged(r)
    BY <1>8 DEF CancelOrder, Restored, HeldUnchanged
  <2> QED
    BY <1>t, <2>1, EndStep DEF IInv
<1>9. ASSUME NEW o \in Order, NEW new \in OrderStatus, UpdateStatus(o, new)
      PROVE  IInv'
  BY <1>t, <1>9 DEF IInv, TypeOK, UpdateStatus, OrderFree, requestVars, lockVars, CartLocks,
     ProductLocks, OrderLocks, SeenIsCurrent, CancelLines, IdleRequests
<1>10. CASE UNCHANGED vars
  BY <1>10 DEF vars, requestVars, lockVars, IInv, TypeOK, CartLocks, ProductLocks, OrderLocks,
     SeenIsCurrent, CancelLines, IdleRequests
<1> QED
  BY <1>1, <1>2, <1>3, <1>4, <1>5, <1>6, <1>7, <1>8, <1>9, <1>10
     DEF Next, CartEdit, Step

\* Every reachable state satisfies the invariant.
THEOREM Invariance == Spec => []IInv
BY InvInit, InvStep, PTL DEF Spec

-----------------------------------------------------------------------------
(* What follows from the invariant.                                         *)

\* What a checkout read with the lock stays true until it ends, in every
\* reachable state.
THEOREM SeenStaysCurrent == Spec => []SeenIsCurrent
<1>1. IInv => SeenIsCurrent
  BY DEF IInv
<1> QED
  BY <1>1, Invariance, PTL

\* As who holds a product has only larger ids still to lock, no circle of
\* requests waits for each other's product rows: of the rows waited for in it
\* take the one with the largest id; its holder waits for a larger one.
LEMMA LockOrder ==
  ASSUME TypeOK, ProductLocks
  PROVE  NoWaitCycle
<1> SUFFICES ASSUME NEW S \in SUBSET Request, S # {},
                    \A r \in S : \E s \in S : WaitsFor(r, s)
             PROVE  FALSE
  BY DEF NoWaitCycle
<1> DEFINE Waited(p) == \E r \in S, s \in S :
                          FirstOf(p, todo[r]) /\ p \in todo[r] /\ productLock[p] = s
           W == {n \in Nat : \E p \in Product : Waited(p) /\ n = NumProducts - p}
<1>1. \A r \in Request : todo[r] \subseteq Product
  BY DEF TypeOK
<1>2. \A p \in Product : NumProducts - p \in Nat
  BY NumProductsAssumption DEF Product
<1>3. W # {}
  BY <1>1, <1>2 DEF WaitsFor
<1>4. PICK n \in W : \A m \in W : n <= m
  <2>1. W \in SUBSET Nat
    OBVIOUS
  <2> HIDE DEF W
  <2> QED
    BY <1>3, <2>1, LeastNatural
<1>5. PICK p \in Product : Waited(p) /\ n = NumProducts - p
  BY <1>4
<1>6. PICK s \in S : productLock[p] = s
  BY <1>5
<1>7. PICK q \in todo[s] : FirstOf(q, todo[s]) /\ \E t \in S : productLock[q] = t
  BY DEF WaitsFor
<1>8. p < q
  BY <1>6, <1>7, NoRequestAssumption DEF ProductLocks
<1>9. q \in Product /\ NumProducts - q \in W
  BY <1>1, <1>2, <1>7
<1> QED
  BY <1>4, <1>5, <1>8, <1>9, NumProductsAssumption DEF Product

\* No circle of requests waiting for each other's product rows, for any
\* number of requests and products.
THEOREM NoDeadlock == Spec => []NoWaitCycle
<1>1. IInv => NoWaitCycle
  BY LockOrder DEF IInv
<1> QED
  BY <1>1, Invariance, PTL

\* An order is cancelled only from pending: the order row stays locked, and
\* so pending, from the check of its status to the end of the cancellation.
THEOREM CancelsArePending == Spec => CancelOnlyPending
<1>1. ASSUME IInv, [Next]_vars, NEW o \in Order,
             status'[o] = "cancelled", status[o] # "cancelled"
      PROVE  status[o] = "pending"
  <2> USE <1>1 DEF IInv, TypeOK
  <2>1. ASSUME NEW r \in Request, CancelOrder(r)
        PROVE  status[o] = "pending"
    BY <2>1, NoRequestAssumption DEF CancelOrder, OrderLocks
  <2>2. ASSUME NEW q \in Order, NEW new \in OrderStatus, UpdateStatus(q, new)
        PROVE  FALSE
    BY <2>2 DEF UpdateStatus, ALLOWED_STATUS_TRANSITIONS, OrderStatus
  <2>3. ASSUME NEW r \in Request, NEW q \in Order, PlaceOrder(r, q)
        PROVE  FALSE
    BY <2>3 DEF PlaceOrder
  <2>4. status' # status
    BY DEF TypeOK
  <2> QED
    BY <2>1, <2>2, <2>3, <2>4
       DEF vars, Next, CartEdit, Step, AddItem, UpdateItem, PutInCart, RemoveItem,
           BeginCheckout, BeginCancel, LockProduct, RejectCheckout, Abort
<1>2. IInv /\ [Next]_vars =>
        [\A o \in Order : status'[o] = "cancelled" /\ status[o] # "cancelled"
                            => status[o] = "pending"]_vars
  BY <1>1
<1> QED
  BY <1>2, Invariance, PTL DEF Spec, CancelOnlyPending

\* A new order is a whole cart, and the cart is emptied with it: the cart row
\* stays locked from the reading of its lines to their deletion.
THEOREM WholeCarts == Spec => OrdersTakeWholeCart
<1> DEFINE Taken(o) == \E u \in User :
             Lines(cart[u]) # {} /\ items'[o] = cart[u] /\ cart'[u] = NoLines
<1>1. ASSUME IInv, [Next]_vars, NEW o \in Order, status[o] = "none", status'[o] # "none"
      PROVE  Taken(o)
  <2> USE <1>1 DEF IInv, TypeOK
  <2>1. ASSUME NEW r \in Request, NEW q \in Order, PlaceOrder(r, q)
        PROVE  Taken(o)
    <3>1. q = o /\ items'[o] = want[r]
      BY <2>1 DEF PlaceOrder
    <3>2. PICK u \in User : cartLock[u] = r
      BY <2>1 DEF PlaceOrder, CartLocks
    <3>3. want[r] = cart[u] /\ Lines(cart[u]) # {}
      BY <3>2, NoRequestAssumption DEF CartLocks
    <3>4. cart'[u] = NoLines
      BY <2>1, <3>2 DEF PlaceOrder
    <3> QED
      BY <3>1, <3>3, <3>4
  <2>2. ASSUME NEW r \in Request, CancelOrder(r)
        PROVE  FALSE
    <3>1. orderLock[o] # r
      BY NoRequestAssumption DEF OrderLocks
    <3> QED
      BY <2>2, <3>1 DEF CancelOrder
  <2>3. ASSUME NEW q \in Order, NEW new \in OrderStatus, UpdateStatus(q, new)
        PROVE  FALSE
    BY <2>3 DEF UpdateStatus, OrderStatus
  <2>4. status' # status
    OBVIOUS
  <2> QED
    BY <2>1, <2>2, <2>3, <2>4
       DEF vars, Next, CartEdit, Step, AddItem, UpdateItem, PutInCart, RemoveItem,
           BeginCheckout, BeginCancel, LockProduct, RejectCheckout, Abort
<1>2. IInv /\ [Next]_vars =>
        [\A o \in Order : status[o] = "none" /\ status'[o] # "none" => Taken(o)]_vars
  BY <1>1
<1> QED
  BY <1>2, Invariance, PTL DEF Spec, OrdersTakeWholeCart

-----------------------------------------------------------------------------
(* The conservation of stock.                                               *)

\* A cancellation gives back exactly the lines of the one order it cancels.
LEMMA CancelGivesBack ==
  ASSUME IInv, NEW r \in Request, CancelOrder(r)
  PROVE  \E o \in Order : /\ orderLock[o] = r /\ status[o] = "pending"
                          /\ status' = [status EXCEPT ![o] = "cancelled"]
                          /\ stock' = [p \in Product |-> stock[p] + items[o][p]]
                          /\ \A p \in Product : stock'[p] = stock[p] + items[o][p]
<1> USE DEF IInv, TypeOK, CancelOrder
<1>1. PICK o \in Order : orderLock[o] = r
  BY DEF OrderLocks
<1>2. status[o] = "pending" /\ want[r] = items[o]
  BY <1>1, NoRequestAssumption DEF OrderLocks
<1>3. \A q \in Order : orderLock[q] = r <=> q = o
  BY <1>1, NoRequestAssumption DEF OrderLocks
<1>4. status' = [status EXCEPT ![o] = "cancelled"]
  BY <1>3
<1>5. ASSUME NEW p \in Product, productLock[p] # r
      PROVE  stock[p] = stock[p] + items[o][p]
  <2>1. ~ (want[r][p] > 0)
    BY <1>5 DEF CancelLines
  <2>2. want[r][p] \in Nat /\ stock[p] \in Nat
    OBVIOUS
  <2> QED
    BY <1>2, <2>1, <2>2
<1>6. stock' = [p \in Product |-> stock[p] + items[o][p]]
  BY <1>2, <1>5 DEF Restored
<1> QED
  BY <1>1, <1>2, <1>4, <1>6

\* The units reserved are such a sum, before and after a step.
LEMMA ReservedUnits ==
  ASSUME NEW p
  PROVE  Reserved(p) = Units(items, p, Live) /\ Reserved(p)' = Units(items', p, Live')
BY DEF Reserved, Units, MapThenSumSet, MapThenFoldSet

\* What is reserved is a number of units.
LEMMA ReservedType ==
  ASSUME TypeOK, IsFiniteSet(Live)
  PROVE  \A p \in Product : Reserved(p) \in Nat
<1>1. \A p \in Product, q \in Live : items[q][p] \in Nat
  BY DEF TypeOK, Live
<1>2. \A p \in Product : Units(items, p, Live) \in Nat
  BY <1>1, UnitsType
<1> QED
  BY <1>2, ReservedUnits

\* An order that is placed adds its lines to what is reserved.
LEMMA PlacedReserved ==
  ASSUME TypeOK, IsFiniteSet(Live), NEW o \in Order, NEW l \in [Product -> Nat],
         status[o] = "none", status' = [status EXCEPT ![o] = "pending"],
         items' = [items EXCEPT ![o] = l]
  PROVE  IsFiniteSet(Live') /\ \A p \in Product : Reserved(p)' = Reserved(p) + l[p]
<1>1. Live' = Live \cup {o} /\ o \notin Live /\ Live' \ {o} = Live
  BY DEF Live, TypeOK
<1>2. IsFiniteSet(Live')
  BY <1>1, FS_AddElement
<1>3. ASSUME NEW p \in Product
      PROVE  Reserved(p)' = Reserved(p) + l[p]
  <2>1. \A q \in Live' : items'[q][p] \in Nat
    BY DEF TypeOK, Live
  <2>2. Units(items', p, Live') = items'[o][p] + Units(items', p, Live)
    <3>1. Units(items', p, Live') = items'[o][p] + Units(items', p, Live' \ {o})
      <4>1. o \in Live'
        BY <1>1
      <4>2. \A S, it :
              IsFiniteSet(S) /\ (\A q \in S : it[q][p] \in Nat) =>
                \A q \in S : Units(it, p, S) = it[q][p] + Units(it, p, S \ {q})
        BY UnitsRemove
      <4>3. IsFiniteSet(Live') /\ (\A q \in Live' : items'[q][p] \in Nat) =>
              \A q \in Live' : Units(items', p, Live')
                              = items'[q][p] + Units(items', p, Live' \ {q})
        BY ONLY <4>2
      <4> QED
        BY <1>2, <2>1, <4>1, <4>3
    <3> QED
      BY <1>1, <3>1
  <2>3. Units(items', p, Live) = Units(items, p, Live)
    <3>1. \A q \in Live : items'[q][p] = items[q][p]
      BY <1>1 DEF TypeOK, Live
    <3> QED
      BY <3>1, UnitsSame
  <2>4. Units(items, p, Live) \in Nat
    <3>1. \A q \in Live : items[q][p] \in Nat
      BY DEF TypeOK, Live
    <3> QED
      BY <3>1, UnitsType
  <2>5. items'[o][p] = l[p] /\ l[p] \in Nat
    BY DEF TypeOK
  <2>6. Reserved(p)' = Units(items', p, Live') /\ Reserved(p) = Units(items, p, Live)
    BY ReservedUnits
  <2> QED
    BY <2>2, <2>3, <2>4, <2>5, <2>6
<1> QED
  BY <1>2, <1>3

\* One that is cancelled takes them away.
LEMMA CancelledReserved ==
  ASSUME TypeOK, IsFiniteSet(Live), NEW o \in Live,
         status' = [status EXCEPT ![o] = "cancelled"], items' = items
  PROVE  /\ IsFiniteSet(Live')
         /\ \A p \in Product :
              Reserved(p)' \in Nat /\ Reserved(p) = Reserved(p)' + items[o][p]
<1>1. Live' = Live \ {o}
  BY DEF Live, TypeOK
<1>2. IsFiniteSet(Live')
  BY <1>1, FS_Subset
<1>3. ASSUME NEW p \in Product
      PROVE  Reserved(p)' \in Nat /\ Reserved(p) = Reserved(p)' + items[o][p]
  <2>1. \A q \in Live : items[q][p] \in Nat
    BY DEF TypeOK, Live
  <2>2. Units(items, p, Live) = items[o][p] + Units(items, p, Live \ {o})
    BY <2>1, UnitsRemove
  <2>3. Units(items, p, Live \ {o}) \in Nat
    BY <1>1, <1>2, <2>1, UnitsType
  <2>4. Reserved(p)' = Units(items, p, Live \ {o}) /\ Reserved(p) = Units(items, p, Live)
    BY <1>1, ReservedUnits
  <2> QED
    BY <2>1, <2>2, <2>3, <2>4
<1> QED
  BY <1>2, <1>3

\* Nothing else changes what is reserved.
LEMMA SameReserved ==
  ASSUME TypeOK, Live' = Live, items' = items
  PROVE  \A p \in Product : Reserved(p)' = Reserved(p)
BY ReservedUnits

\* The status changes that may be asked for neither cancel an order nor bring
\* one back.
LEMMA StatusKeepsLive ==
  ASSUME TypeOK, NEW o \in Order, NEW new \in OrderStatus, UpdateStatus(o, new)
  PROVE  Live' = Live /\ items' = items /\ stock' = stock /\ supply' = supply
<1>1. /\ status[o] \notin {"none", "cancelled"} /\ new \notin {"none", "cancelled"}
      /\ status' = [status EXCEPT ![o] = new]
  BY DEF UpdateStatus, ALLOWED_STATUS_TRANSITIONS, OrderStatus
<1> QED
  BY <1>1 DEF Live, TypeOK, UpdateStatus

\* What keeps stock and orders in balance.
StockInv == IInv /\ IsFiniteSet(Live) /\ StockConserved

\* Initially every unit is on the shelf.
LEMMA StockInit == Init => StockInv
<1> SUFFICES ASSUME Init
             PROVE  StockInv
  OBVIOUS
<1>1. Live = {}
  BY DEF Init, Live
<1>2. ASSUME NEW p \in Product
      PROVE  Reserved(p) = 0
  <2>1. Units(items, p, {}) = 0
    BY UnitsUnfold, FS_EmptySet
  <2> QED
    BY <1>1, <2>1, ReservedUnits
<1>3. \A p \in Product : stock[p] \in Nat /\ supply[p] = stock[p]
  BY InvInit DEF Init, IInv, TypeOK
<1> QED
  BY <1>1, <1>2, <1>3, InvInit, FS_EmptySet DEF StockInv, StockConserved

\* Every step moves units between the shelf and the orders.
LEMMA StockStep == StockInv /\ [Next]_vars => StockInv'
<1> SUFFICES ASSUME StockInv, [Next]_vars
             PROVE  IsFiniteSet(Live') /\ StockConserved'
  BY InvStep DEF StockInv
<1>i. IInv /\ TypeOK /\ TypeOK' /\ IsFiniteSet(Live) /\ StockConserved
  BY TypeStep DEF StockInv, IInv
<1>n. \A p \in Product : /\ stock[p] \in Nat /\ supply[p] \in Nat /\ Reserved(p) \in Nat
                         /\ stock[p] + Reserved(p) = supply[p]
  BY <1>i, ReservedType DEF TypeOK, StockConserved
<1>1. ASSUME NEW r \in Request, NEW o \in Order, PlaceOrder(r, o)
      PROVE  IsFiniteSet(Live') /\ StockConserved'
  <2>1. want[r] \in [Product -> Nat]
    BY <1>i DEF TypeOK
  <2>2. /\ IsFiniteSet(Live')
        /\ \A p \in Product : Reserved(p)' = Reserved(p) + want[r][p]
    BY <1>i, <1>1, <2>1, PlacedReserved DEF PlaceOrder
  <2>3. supply' = supply /\ \A p \in Product : stock'[p] = stock[p] - want[r][p]
    BY <1>1 DEF PlaceOrder
  <2> QED
    BY <1>n, <2>1, <2>2, <2>3 DEF StockConserved
<1>2. ASSUME NEW r \in Request, CancelOrder(r)
      PROVE  IsFiniteSet(Live') /\ StockConserved'
  <2>1. PICK o \in Order : /\ orderLock[o] = r /\ status[o] = "pending"
                           /\ status' = [status EXCEPT ![o] = "cancelled"]
                           /\ \A p \in Product : stock'[p] = stock[p] + items[o][p]
    BY <1>i, <1>2, CancelGivesBack
  <2>2. o \in Live /\ items' = items /\ supply' = supply
    BY <1>2, <2>1 DEF Live, CancelOrder
  <2>3. /\ IsFiniteSet(Live')
        /\ \A p \in Product :
             Reserved(p)' \in Nat /\ Reserved(p) = Reserved(p)' + items[o][p]
    BY <1>i, <2>1, <2>2, CancelledReserved
  <2>4. \A p \in Product : items[o][p] \in Nat
    BY <1>i DEF TypeOK
  <2> QED
    BY <1>n, <2>1, <2>2, <2>3, <2>4 DEF StockConserved
<1>3. ASSUME NEW o \in Order, NEW new \in OrderStatus, UpdateStatus(o, new)
      PROVE  IsFiniteSet(Live') /\ StockConserved'
  BY <1>i, <1>3, StatusKeepsLive, SameReserved DEF StockConserved
<1>4. ASSUME UNCHANGED <<stock, supply, status, items>>
      PROVE  IsFiniteSet(Live') /\ StockConserved'
  <2>1. Live' = Live
    BY <1>4 DEF Live
  <2> QED
    BY <1>i, <1>4, <2>1, SameReserved DEF StockConserved
<1> QED
  BY <1>1, <1>2, <1>3, <1>4
     DEF vars, Next, CartEdit, Step, AddItem, UpdateItem, PutInCart, RemoveItem,
         BeginCheckout, BeginCancel, LockProduct, RejectCheckout, Abort

\* No interleaving of checkouts, cancellations, status changes and failures
\* loses a unit, sells it twice or gives it back twice.
THEOREM StockIsConserved == Spec => []StockConserved
<1>1. StockInv => StockConserved
  BY DEF StockInv
<1> QED
  BY <1>1, StockInit, StockStep, PTL DEF Spec

-----------------------------------------------------------------------------
(* Checkout implements the stock ledger: placing and cancelling are single  *)
(* steps of the ledger, taken when the transaction commits.                 *)

\* Initial states of Checkout are initial states of the ledger.
LEMMA LedgerInit == Init => Ledger!Init
BY MaxStockAssumption DEF Init, Ledger!Init, NoLines

\* Every step of Checkout is a step of the ledger or leaves it alone.
LEMMA LedgerStep == IInv /\ [Next]_vars => [Ledger!Next]_(Ledger!ledgerVars)
<1> SUFFICES ASSUME IInv, [Next]_vars
             PROVE  Ledger!Next \/ UNCHANGED <<stock, status, items>>
  BY DEF Ledger!ledgerVars
<1> USE DEF IInv, TypeOK
<1>1. ASSUME NEW r \in Request, NEW o \in Order, PlaceOrder(r, o)
      PROVE  Ledger!Place(o)
  <2> USE <1>1 DEF PlaceOrder
  <2>1. items'[o] = want[r] /\ items' = [items EXCEPT ![o] = items'[o]]
    OBVIOUS
  <2>2. \E p \in Product : want[r][p] > 0
    <3>1. PICK u \in User : cartLock[u] = r
      BY DEF CartLocks
    <3>2. Lines(want[r]) # {}
      BY <3>1, NoRequestAssumption DEF CartLocks
    <3> QED
      BY <3>2 DEF Lines
  <2>3. \A p \in Product : want[r][p] <= stock[p]
    <3> SUFFICES ASSUME NEW p \in Product PROVE want[r][p] <= stock[p]
      OBVIOUS
    <3>1. want[r][p] \in Nat /\ stock[p] \in Nat
      OBVIOUS
    <3> QED
      BY <3>1 DEF Available, Lines
  <2> QED
    BY <2>1, <2>2, <2>3 DEF Ledger!Place
<1>2. ASSUME NEW r \in Request, CancelOrder(r)
      PROVE  \E o \in Order : Ledger!Cancel(o)
  <2>1. PICK o \in Order : /\ status[o] = "pending"
                           /\ status' = [status EXCEPT ![o] = "cancelled"]
                           /\ stock' = [p \in Product |-> stock[p] + items[o][p]]
    BY <1>2, CancelGivesBack
  <2> QED
    BY <1>2, <2>1 DEF CancelOrder, Ledger!Cancel
<1>3. ASSUME NEW o \in Order, NEW new \in OrderStatus, UpdateStatus(o, new)
      PROVE  Ledger!Advance(o)
  BY <1>3 DEF UpdateStatus, Ledger!Advance, Ledger!OrderStatus, OrderStatus,
     Ledger!ALLOWED_STATUS_TRANSITIONS, ALLOWED_STATUS_TRANSITIONS
<1> QED
  BY <1>1, <1>2, <1>3
     DEF vars, Next, CartEdit, Step, AddItem, UpdateItem, PutInCart, RemoveItem,
         BeginCheckout, BeginCancel, LockProduct, RejectCheckout, Abort,
         Ledger!Next

\* Every behaviour of carts, locks, checkouts, cancellations and failures
\* looks, in stock, order status and order items, like the ledger.
THEOREM Refinement == Spec => ImplementsLedger
BY LedgerInit, LedgerStep, Invariance, PTL DEF Spec, ImplementsLedger, Ledger!Spec
=============================================================================
