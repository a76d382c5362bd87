---------------------------- MODULE CatalogProofs ----------------------------
(***************************************************************************)
(* Proofs about Catalog, for every number of users, products, orders,      *)
(* requests and editors.  What CheckoutProofs says of the holder of a row  *)
(* lock is too strong once rows can disappear under a request that has     *)
(* read their lines but not locked them yet: here it says it of the        *)
(* products that are still there and were not inserted again.              *)
(***************************************************************************)
EXTENDS Catalog, CheckoutProofs

\* The rows that what a request read is still true of.
Kept(p) == RowExists(p) /\ p \notin reborn

\* A locked cart is the one its holder read, as far as its products are kept,
\* and the holder read some line.
CartsAsRead ==
  /\ \A u \in User : cartLock[u] # NoRequest =>
       /\ pc[cartLock[u]] = "checkout"
       /\ Lines(want[cartLock[u]]) # {}
       /\ \A p \in Product : Kept(p) => want[cartLock[u]][p] = cart[u][p]
  /\ \A r \in Request : pc[r] = "checkout" => \E u \in User : cartLock[u] = r

\* So is a locked order, which is pending and has one holder.
OrdersAsRead ==
  /\ \A o \in Order : orderLock[o] # NoRequest =>
       /\ pc[orderLock[o]] = "cancel"
       /\ status[o] = "pending"
       /\ \A p \in Product : Kept(p) => want[orderLock[o]][p] = items[o][p]
  /\ \A o, q \in Order : orderLock[o] = orderLock[q] /\ orderLock[o] # NoRequest
                           => o = q
  /\ \A r \in Request : pc[r] = "cancel" => \E o \in Order : orderLock[o] = r

\* A cancellation has locked the kept products of the lines it is done with.
KeptLinesLocked ==
  \A r \in Request, p \in Product :
    pc[r] = "cancel" /\ want[r][p] > 0 /\ Kept(p) => p \in todo[r] \/ productLock[p] = r

\* A product that is gone is locked by nobody, and in no cart and no order.
GoneProducts ==
  \A p \in Product : ~RowExists(p) =>
    /\ productLock[p] = NoRequest
    /\ \A u \in User : cart[u][p] = 0
    /\ \A o \in Order : items[o][p] = 0

\* What the requests rely on.
Agreed ==
  /\ CartsAsRead
  /\ OrdersAsRead
  /\ KeptLinesLocked
  /\ GoneProducts
  /\ ProductLocks
  /\ SeenIsCurrent
  /\ IdleRequests

\* The object of an editor, with all its fields.
EditsTyped ==
  /\ DOMAIN edit = Editor
  /\ \A e \in Editor : edit[e] # NoEdit =>
       DOMAIN edit[e] = {"phase", "product", "entity", "named", "changes"}

\* The inductive invariant.
CatalogInv ==
  /\ CatalogTypeOK
  /\ EditsTyped
  /\ IsFiniteSet(Live)
  /\ Agreed

-----------------------------------------------------------------------------
(* The steps of Checkout under a catalog that is edited.                    *)

\* The step leaves alone what others have locked, and no line of a product
\* that is gone comes back.
RowsUnchanged(r) ==
  /\ HeldUnchanged(r)
  /\ \A u \in User, p \in Product : cart'[u][p] > 0 => cart[u][p] > 0
  /\ \A o \in Order, p \in Product : ~RowExists(p) => items'[o][p] = 0

\* A transaction may end with any change of rows that nobody else has locked.
LEMMA CatalogEnd ==
  ASSUME Agreed, TypeOK, TypeOK', NEW r \in Request, pc[r] # "idle",
         EndTransaction(r), RowsUnchanged(r), reborn' = reborn
  PROVE  Agreed'
<1> USE NoRequestAssumption
<1>1. /\ \A s \in Request : s # r => /\ pc'[s] = pc[s] /\ want'[s] = want[s]
                                     /\ todo'[s] = todo[s] /\ seen'[s] = seen[s]
      /\ pc'[r] = "idle" /\ want'[r] = NoLines
      /\ todo'[r] = {} /\ seen'[r] = NothingSeen
  BY DEF EndTransaction, TypeOK
<1>2. /\ \A u \in User : cartLock'[u] =
           IF cartLock[u] = r THEN NoRequest ELSE cartLock[u]
      /\ \A p \in Product : productLock'[p] =
           IF productLock[p] = r THEN NoRequest ELSE productLock[p]
      /\ \A o \in Order : orderLock'[o] =
           IF orderLock[o] = r THEN NoRequest ELSE orderLock[o]
  BY DEF EndTransaction, Released, TypeOK
<1>3. /\ \A u \in User : cartLock[u] \in Request \cup {NoRequest}
      /\ \A p \in Product : productLock[p] \in Request \cup {NoRequest}
      /\ \A o \in Order : orderLock[o] \in Request \cup {NoRequest}
  BY DEF TypeOK
<1>4. \A p \in Product : (Kept(p)' <=> Kept(p)) /\ (RowExists(p)' <=> RowExists(p))
  BY DEF Kept, RowExists, RowsUnchanged, HeldUnchanged
<1>5. CartsAsRead'

  <2> QED
    BY <1>1, <1>2, <1>3, <1>4 DEF Agreed, CartsAsRead, RowsUnchanged, HeldUnchanged
<1>6. OrdersAsRead'
  BY <1>1, <1>2, <1>3, <1>4 DEF Agreed, OrdersAsRead, RowsUnchanged, HeldUnchanged
<1>7. KeptLinesLocked'
  BY <1>1, <1>2, <1>3, <1>4 DEF Agreed, KeptLinesLocked
<1>8. GoneProducts'
  <2>1. \A u \in User, p \in Product : cart[u][p] \in Nat /\ cart'[u][p] \in Nat
    BY DEF TypeOK
  <2> QED
    BY <1>2, <1>4, <2>1 DEF Agreed, GoneProducts, RowsUnchanged
<1>9. ProductLocks'
  BY <1>1, <1>2, <1>3 DEF Agreed, ProductLocks
<1>10. SeenIsCurrent'
  BY <1>1, <1>2, <1>3
     DEF Agreed, SeenIsCurrent, RowsUnchanged, HeldUnchanged, NothingSeen, Missing
<1>11. IdleRequests'
  BY <1>1 DEF Agreed, IdleRequests
<1> QED
  BY <1>5, <1>6, <1>7, <1>8, <1>9, <1>10, <1>11 DEF Agreed

\* What a checkout may take is listed, locked by it and in stock.
LEMMA AvailableLines ==
  ASSUME TypeOK, SeenIsCurrent, NEW r \in Request, Available(r), NEW p \in Product
  PROVE  \/ want[r][p] = 0
         \/ want[r][p] > 0 /\ productLock[p] = r /\ listing[p] = "active"
<1>1. want[r][p] \in Nat
  BY DEF TypeOK
<1>2. CASE want[r][p] > 0
  <2>1. want[r][p] <= seen[r][p]
    BY <1>2 DEF Available, Lines
  <2>2. seen[r][p] # Missing
    BY <1>1, <1>2, <2>1 DEF Missing
  <2> QED
    BY <1>2, <2>2 DEF SeenIsCurrent
<1> QED
  BY <1>1, <1>2

\* Carts, checkouts, cancellations and status changes keep what the requests
\* rely on.
LEMMA AgreedStep ==
  ASSUME Agreed, TypeOK, TypeOK', Next, reborn' = reborn
  PROVE  Agreed'
<1> USE NoRequestAssumption
<1>c. ASSUME NEW u \in User, NEW p \in Product, CartFree(u), NEW n \in Nat,
             RowExists(p) \/ n = 0, cart' = [cart EXCEPT ![u][p] = n],
             UNCHANGED <<stock, listing, supply, status, items, requestVars, lockVars>>
      PROVE  Agreed'
  <2> USE <1>c DEF requestVars, lockVars
  <2>1. \A q \in Product : (Kept(q)' <=> Kept(q)) /\ (RowExists(q)' <=> RowExists(q))
    BY DEF Kept, RowExists
  <2>2. CartsAsRead'
    BY <2>1 DEF Agreed, CartsAsRead, CartFree, TypeOK
  <2>3. GoneProducts'
    BY <2>1 DEF Agreed, GoneProducts, TypeOK
  <2> QED
    BY <2>1, <2>2, <2>3
       DEF Agreed, OrdersAsRead, KeptLinesLocked, ProductLocks, SeenIsCurrent, IdleRequests
<1>1. ASSUME NEW u \in User, NEW p \in Product, NEW q \in Quantity,
             AddItem(u, p, q) \/ UpdateItem(u, p, q)
      PROVE  Agreed'
  <2>1. q \in Nat /\ cart[u][p] + q \in Nat
    BY QuantityAssumption DEF TypeOK
  <2>2. RowExists(p)
    BY <1>1 DEF AddItem, UpdateItem, PutInCart, RowExists
  <2> QED
    BY <1>1, <1>c, <2>1, <2>2 DEF AddItem, UpdateItem, PutInCart
<1>2. ASSUME NEW u \in User, NEW p \in Product, RemoveItem(u, p)
      PROVE  Agreed'
  BY <1>2, <1>c DEF RemoveItem
<1>k. ASSUME UNCHANGED <<listing, reborn>>
      PROVE  \A q \in Product : (Kept(q)' <=> Kept(q)) /\ (RowExists(q)' <=> RowExists(q))
  BY <1>k DEF Kept, RowExists
<1>3. ASSUME NEW r \in Request, NEW u \in User, BeginCheckout(r, u)
      PROVE  Agreed'
  <2> USE <1>3 DEF BeginCheckout
  <2>1. \A q \in Product : (Kept(q)' <=> Kept(q)) /\ (RowExists(q)' <=> RowExists(q))
    BY <1>k
  <2>2. CartsAsRead'
    <3>1. /\ \A s \in Request : s # r => pc'[s] = pc[s] /\ want'[s] = want[s]
          /\ pc'[r] = "checkout" /\ want'[r] = cart[u]
      BY DEF TypeOK
    <3>2. \A w \in User : cartLock'[w] = IF w = u THEN r ELSE cartLock[w]
      BY DEF TypeOK
    <3>3. \A w \in User : cartLock[w] \in Request \cup {NoRequest} /\ cartLock[w] # r
      BY DEF TypeOK, Agreed, CartsAsRead
    <3> QED
      BY <2>1, <3>1, <3>2, <3>3 DEF Agreed, CartsAsRead, CartFree
  <2>3. OrdersAsRead' /\ KeptLinesLocked'
    BY <2>1 DEF Agreed, OrdersAsRead, KeptLinesLocked, TypeOK
  <2>4. GoneProducts' /\ ProductLocks'
    BY <2>1 DEF Agreed, GoneProducts, ProductLocks, TypeOK
  <2>5. SeenIsCurrent' /\ IdleRequests'
    BY DEF Agreed, SeenIsCurrent, IdleRequests, TypeOK
  <2> QED
    BY <2>2, <2>3, <2>4, <2>5 DEF Agreed
<1>4. ASSUME NEW r \in Request, NEW o \in Order, BeginCancel(r, o)
      PROVE  Agreed'
  <2> USE <1>4 DEF BeginCancel
  <2>1. \A q \in Product : (Kept(q)' <=> Kept(q)) /\ (RowExists(q)' <=> RowExists(q))
    BY <1>k
  <2>2. CartsAsRead'
    <3>1. /\ \A s \in Request : s # r => pc'[s] = pc[s] /\ want'[s] = want[s]
          /\ pc'[r] = "cancel"
      BY DEF TypeOK
    <3>2. \A w \in User : cartLock[w] \in Request \cup {NoRequest} /\ cartLock[w] # r
      BY DEF TypeOK, Agreed, CartsAsRead
    <3> QED
      BY <2>1, <3>1, <3>2 DEF Agreed, CartsAsRead
  <2>3. OrdersAsRead'
    BY <2>1 DEF Agreed, OrdersAsRead, OrderFree, TypeOK
  <2>4. KeptLinesLocked'
    BY <2>1 DEF Agreed, KeptLinesLocked, Lines, TypeOK
  <2>5. GoneProducts' /\ ProductLocks'
    BY <2>1 DEF Agreed, GoneProducts, ProductLocks, TypeOK
  <2>6. SeenIsCurrent' /\ IdleRequests'
    BY DEF Agreed, SeenIsCurrent, IdleRequests, TypeOK
  <2> QED
    BY <2>2, <2>3, <2>4, <2>5, <2>6 DEF Agreed
<1>5. ASSUME NEW r \in Request, NEW p \in Product, LockProduct(r, p)
      PROVE  Agreed'
  <2> USE <1>5 DEF LockProduct
  <2>1. \A q \in Product : (Kept(q)' <=> Kept(q)) /\ (RowExists(q)' <=> RowExists(q))
    BY <1>k
  <2>2. CartsAsRead' /\ OrdersAsRead'
    BY <2>1 DEF Agreed, CartsAsRead, OrdersAsRead
  <2>3. KeptLinesLocked'
    BY <2>1 DEF Agreed, KeptLinesLocked, ProductFree, TypeOK
  <2>4. GoneProducts'
    BY <2>1 DEF Agreed, GoneProducts, TypeOK
  <2>5. ProductLocks'
    BY DEF Agreed, TypeOK, ProductLocks, FirstOf, IdleRequests, Product
  <2>6. SeenIsCurrent'
    <3> SUFFICES ASSUME NEW s \in Request, NEW q \in Product, seen'[s][q] # Missing
                 PROVE  productLock'[q] = s /\ listing[q] = "active"
                          /\ seen'[s][q] = stock[q]
      BY DEF SeenIsCurrent
    <3>1. productLock'[p] = r
      BY DEF TypeOK
    <3>2. CASE s = r /\ q = p /\ seen' # seen
      BY <3>1, <3>2 DEF TypeOK, Selected
    <3>3. CASE seen'[s][q] = seen[s][q]
      BY <3>3 DEF TypeOK, Agreed, SeenIsCurrent, ProductFree
    <3> QED
      BY <3>2, <3>3 DEF TypeOK
  <2>7. IdleRequests'
    BY DEF Agreed, TypeOK, IdleRequests, FirstOf
  <2> QED
    BY <2>2, <2>3, <2>4, <2>5, <2>6, <2>7 DEF Agreed
<1>6. ASSUME NEW r \in Request, NEW o \in Order, PlaceOrder(r, o)
      PROVE  Agreed'
  <2> USE <1>6 DEF PlaceOrder
  <2>1. ASSUME NEW p \in Product, productLock[p] # r
        PROVE  stock'[p] = stock[p]
    <3>1. want[r][p] = 0
      BY <2>1, AvailableLines DEF Agreed
    <3> QED
      BY <3>1 DEF TypeOK
  <2>2. HeldUnchanged(r)
    BY <2>1 DEF HeldUnchanged, Agreed, TypeOK, OrdersAsRead
  <2>3. \A u \in User, p \in Product : cart'[u][p] > 0 => cart[u][p] > 0
    BY DEF NoLines
  <2>4. \A q \in Order, p \in Product : ~RowExists(p) => items'[q][p] = 0
    <3>1. \A p \in Product : ~RowExists(p) => want[r][p] = 0
      BY AvailableLines DEF Agreed, RowExists
    <3> QED
      BY <3>1 DEF Agreed, GoneProducts, TypeOK
  <2> QED
    BY <2>2, <2>3, <2>4, CatalogEnd DEF RowsUnchanged
<1>7. ASSUME NEW r \in Request, RejectCheckout(r) \/ Abort(r) \/ CancelOrder(r)
      PROVE  Agreed'
  <2>1. pc[r] # "idle" /\ EndTransaction(r) /\ HeldUnchanged(r)
    BY <1>7 DEF RejectCheckout, Abort, CancelOrder, Restored, HeldUnchanged
  <2>2. cart' = cart /\ items' = items
    BY <1>7 DEF RejectCheckout, Abort, CancelOrder
  <2> QED
    BY <2>1, <2>2, CatalogEnd DEF RowsUnchanged, Agreed, GoneProducts
<1>8. ASSUME NEW o \in Order, NEW new \in OrderStatus, UpdateStatus(o, new)
      PROVE  Agreed'
  <2> USE <1>8 DEF UpdateStatus, requestVars, lockVars
  <2>1. \A q \in Product : (Kept(q)' <=> Kept(q)) /\ (RowExists(q)' <=> RowExists(q))
    BY <1>k
  <2>2. OrdersAsRead'
    BY <2>1 DEF Agreed, OrdersAsRead, OrderFree, TypeOK
  <2> QED
    BY <2>1, <2>2
       DEF Agreed, CartsAsRead, KeptLinesLocked, GoneProducts, ProductLocks, SeenIsCurrent,
           IdleRequests
<1> QED
  BY <1>1, <1>2, <1>3, <1>4, <1>5, <1>6, <1>7, <1>8 DEF Next, CartEdit, Step

\* So does a request that finds a row gone and passes over it.
LEMMA AgreedSkip ==
  ASSUME Agreed, TypeOK, NEW r \in Request, NEW p \in Product, SkipProduct(r, p)
  PROVE  Agreed' /\ TypeOK'
<1> USE DEF SkipProduct, lockVars
<1>1. TypeOK'
  BY DEF TypeOK
<1>2. \A q \in Product : (Kept(q)' <=> Kept(q)) /\ (RowExists(q)' <=> RowExists(q))
  BY DEF Kept, RowExists
<1>3. /\ \A s \in Request : todo'[s] = IF s = r THEN todo[r] \ {p} ELSE todo[s]
      /\ p \in todo[r] /\ ~ Kept(p)
  BY DEF TypeOK, FirstOf, Kept
<1>4. CartsAsRead' /\ OrdersAsRead' /\ GoneProducts' /\ SeenIsCurrent'
  BY <1>2 DEF Agreed, CartsAsRead, OrdersAsRead, GoneProducts, SeenIsCurrent
<1>5. KeptLinesLocked'
  BY <1>2, <1>3 DEF Agreed, KeptLinesLocked
<1>6. ProductLocks' /\ IdleRequests'
  <2>1. \A q \in Product : productLock[q] \in Request \cup {NoRequest}
    BY DEF TypeOK
  <2> QED
    BY <1>3, <2>1, NoRequestAssumption DEF Agreed, ProductLocks, IdleRequests
<1> QED
  BY <1>1, <1>4, <1>5, <1>6 DEF Agreed

-----------------------------------------------------------------------------
(* The steps of the administrators.                                         *)

\* The step changes the row of p alone, which nobody has locked; a row that is
\* gone is in no cart and no order, and one that was gone is not kept.
RowEdited(p) ==
  /\ ProductFree(p)
  /\ \A q \in Product : q # p => stock'[q] = stock[q] /\ listing'[q] = listing[q]
  /\ \A q \in Product : Kept(q)' => Kept(q)
  /\ \A q \in Product : Kept(q)' =>
       /\ \A u \in User : cart'[u][q] = cart[u][q]
       /\ \A o \in Order : items'[o][q] = items[o][q]
  /\ \A q \in Product : ~RowExists(q)' =>
       /\ productLock[q] = NoRequest
       /\ \A u \in User : cart'[u][q] = 0
       /\ \A o \in Order : items'[o][q] = 0
  /\ UNCHANGED <<status, requestVars, lockVars>>

\* Editing a row that nobody has locked keeps what the requests rely on.
LEMMA AgreedEdit ==
  ASSUME Agreed, TypeOK, NEW p \in Product, RowEdited(p)
  PROVE  Agreed'
<1> USE DEF RowEdited, requestVars, lockVars
<1>1. /\ \A u \in User : cartLock[u] \in Request \cup {NoRequest}
      /\ \A o \in Order : orderLock[o] \in Request \cup {NoRequest}
  BY DEF TypeOK
<1>2. CartsAsRead'
  <2>1. Lines(want)' = Lines(want)
    BY DEF Lines
  <2> QED
    BY <1>1 DEF Agreed, CartsAsRead, Lines
<1>3. OrdersAsRead'
  BY <1>1 DEF Agreed, OrdersAsRead
<1>4. KeptLinesLocked' /\ GoneProducts'
  BY DEF Agreed, KeptLinesLocked, GoneProducts
<1>5. ProductLocks' /\ IdleRequests'
  BY DEF Agreed, ProductLocks, IdleRequests
<1>6. SeenIsCurrent'
  BY NoRequestAssumption DEF Agreed, SeenIsCurrent, ProductFree
<1> QED
  BY <1>2, <1>3, <1>4, <1>5, <1>6 DEF Agreed

\* The object an editor loads, changed by the request, is one of the catalog.
LEMMA BeginType ==
  ASSUME CatalogTypeOK, EditsTyped, NEW e \in Editor, NEW p \in Product, NEW dto \in Dto,
         BeginUpdate(e, p, dto)
  PROVE  CatalogTypeOK' /\ EditsTyped'
<1> DEFINE o == [phase   |-> "loaded",
                 product |-> p,
                 entity  |-> [c \in Column |-> IF dto[c] = Keep THEN Row(p)[c] ELSE dto[c]],
                 named   |-> {c \in Column : dto[c] # Keep},
                 changes |-> {}]
<1>1. o.entity.stock \in Nat /\ o.entity.listing \in {"active", "inactive"}
  <2>1. /\ o.entity["stock"] = IF dto["stock"] = Keep THEN stock[p] ELSE dto["stock"]
        /\ o.entity["listing"] = IF dto["listing"] = Keep THEN listing[p] ELSE dto["listing"]
    BY DEF Column, Row
  <2>2. dto["stock"] \in StockInput \cup {Keep}
        /\ dto["listing"] \in {"active", "inactive", Keep}
    BY DEF Dto
  <2>3. stock[p] \in Nat /\ listing[p] \in {"active", "inactive"}
    BY DEF BeginUpdate, RowExists, CatalogTypeOK, TypeOK
  <2> HIDE DEF o
  <2> QED
    BY <2>1, <2>2, <2>3, StockInputAssumption
<1>2. /\ o.phase = "loaded" /\ o.product = p
      /\ o.named \subseteq Column /\ o.changes \subseteq Column
      /\ DOMAIN o = {"phase", "product", "entity", "named", "changes"}
  OBVIOUS
<1>3. edit' = [edit EXCEPT ![e] = o]
  BY DEF BeginUpdate
<1> HIDE DEF o
<1>4. TypeOK' /\ reborn' = reborn
  BY DEF BeginUpdate, CatalogTypeOK, TypeOK, vars, requestVars, lockVars
<1>5. \A d \in Editor : edit'[d] = IF d = e THEN o ELSE edit[d]
  BY <1>3 DEF EditsTyped
<1>6. CatalogTypeOK'
  BY <1>1, <1>2, <1>4, <1>5 DEF CatalogTypeOK
<1>7. EditsTyped'
  BY <1>2, <1>3, <1>5 DEF EditsTyped
<1> QED
  BY <1>6, <1>7

\* So is the one whose columns were compared.
LEMMA CompareType ==
  ASSUME CatalogTypeOK, EditsTyped, NEW e \in Editor, CompareColumns(e)
  PROVE  CatalogTypeOK' /\ EditsTyped'
<1> DEFINE ph == IF RowExists(edit[e].product) THEN "update" ELSE "insert"
           ch == IF RowExists(edit[e].product)
                 THEN {c \in Column : edit[e].entity[c] # Row(edit[e].product)[c]}
                 ELSE Column
           o  == [edit[e] EXCEPT !.phase = ph, !.changes = ch]
<1>1. edit' = [edit EXCEPT ![e] = o]
  BY DEF CompareColumns
<1>2. DOMAIN edit[e] = {"phase", "product", "entity", "named", "changes"}
  BY DEF CompareColumns, EditsTyped
<1>3. ph \in {"update", "insert"} /\ ch \subseteq Column
  OBVIOUS
<1> HIDE DEF ph, ch
<1>5. /\ o.phase = ph /\ o.product = edit[e].product /\ o.entity = edit[e].entity
      /\ o.named = edit[e].named /\ o.changes = ch
  BY <1>2
<1>6. DOMAIN o = {"phase", "product", "entity", "named", "changes"}
  BY <1>2
<1> HIDE DEF o
<1>7. TypeOK' /\ reborn' = reborn /\ edit[e] # NoEdit
  BY DEF CompareColumns, CatalogTypeOK, TypeOK, vars, requestVars, lockVars
<1>8. \A d \in Editor : edit'[d] = IF d = e THEN o ELSE edit[d]
  BY <1>1 DEF EditsTyped
<1>9. CatalogTypeOK'
  BY <1>3, <1>5, <1>7, <1>8 DEF CatalogTypeOK
<1>10. EditsTyped'
  BY <1>1, <1>6, <1>8 DEF EditsTyped
<1> QED
  BY <1>9, <1>10

\* What an editor writes has the types of the columns.
LEMMA WriteType ==
  ASSUME CatalogTypeOK, IsFiniteSet(Live), NEW e \in Editor, edit[e] # NoEdit,
         WriteColumns(edit[e].product, e)
  PROVE  /\ stock' \in [Product -> Nat] /\ supply' \in [Product -> Nat]
         /\ listing' \in [Product -> {"active", "inactive", "deleted"}]
         /\ edit[e].product \in Product
         /\ \A q \in Product : q # edit[e].product =>
              stock'[q] = stock[q] /\ listing'[q] = listing[q]
         /\ RowExists(edit[e].product) => listing'[edit[e].product] # "deleted"
<1> DEFINE p == edit[e].product
<1>1. /\ p \in Product /\ edit[e].entity.stock \in Nat
      /\ edit[e].entity.listing \in {"active", "inactive"}
  BY DEF CatalogTypeOK
<1>2. /\ stock \in [Product -> Nat] /\ supply \in [Product -> Nat]
      /\ listing \in [Product -> {"active", "inactive", "deleted"}]
      /\ Reserved(p) \in Nat
  BY <1>1, ReservedType DEF CatalogTypeOK, TypeOK
<1> HIDE DEF p
<1> DEFINE n == IF "stock" \in edit[e].changes
                THEN edit[e].entity["stock"] ELSE Row(p)["stock"]
           l == IF "listing" \in edit[e].changes
                THEN edit[e].entity["listing"] ELSE Row(p)["listing"]
<1>3. /\ n \in {edit[e].entity.stock, stock[p]}
      /\ l \in {edit[e].entity.listing, listing[p]}
      /\ stock' = [stock EXCEPT ![p] = n]
      /\ listing' = [listing EXCEPT ![p] = l]
  <2>1. stock' = [stock EXCEPT ![p] = n] /\ listing' = [listing EXCEPT ![p] = l]
    BY DEF WriteColumns, p
  <2>2. Row(p)["stock"] = stock[p] /\ Row(p)["listing"] = listing[p]
    BY DEF Row
  <2>3. n \in {edit[e].entity.stock, stock[p]} /\ l \in {edit[e].entity.listing, listing[p]}
    BY <2>2
  <2> QED
    BY <2>1, <2>3
<1> HIDE DEF n, l
<1>4. supply' = supply \/ supply' = [supply EXCEPT ![p] = edit[e].entity.stock + Reserved(p)]
  BY DEF WriteColumns, p
<1>5. n \in Nat /\ l \in {"active", "inactive", "deleted"}
  BY <1>1, <1>2, <1>3
<1>6. stock' \in [Product -> Nat] /\ supply' \in [Product -> Nat]
  BY <1>1, <1>2, <1>3, <1>4, <1>5
<1>7. /\ listing' \in [Product -> {"active", "inactive", "deleted"}]
      /\ \A q \in Product : q # p => stock'[q] = stock[q] /\ listing'[q] = listing[q]
      /\ RowExists(p) => listing'[p] # "deleted"
  BY <1>1, <1>2, <1>3, <1>5 DEF RowExists
<1> QED
  BY <1>1, <1>6, <1>7 DEF p

\* An update that writes the row, or inserts it again.
LEMMA WriteStep ==
  ASSUME CatalogInv, NEW e \in Editor, UpdateRow(e) \/ InsertRow(e)
  PROVE  CatalogTypeOK' /\ EditsTyped' /\ Agreed'
<1> DEFINE p == edit[e].product
<1>i. CatalogTypeOK /\ TypeOK /\ EditsTyped /\ IsFiniteSet(Live) /\ Agreed
  BY DEF CatalogInv, CatalogTypeOK
<1>1. /\ edit[e] # NoEdit /\ edit' = [edit EXCEPT ![e] = NoEdit]
      /\ UNCHANGED <<cart, status, items, requestVars, lockVars>>
  BY DEF UpdateRow, InsertRow
<1>2. p \in Product
  BY <1>i, <1>1 DEF CatalogTypeOK
<1>3. \A d \in Editor : edit'[d] = IF d = e THEN NoEdit ELSE edit[d]
  BY <1>i, <1>1 DEF EditsTyped
<1>4. EditsTyped'
  BY <1>i, <1>1, <1>3 DEF EditsTyped
<1>5. CASE UNCHANGED <<stock, listing, supply, reborn>>
  <2>1. TypeOK'
    BY <1>i, <1>1, <1>5 DEF TypeOK, requestVars, lockVars
  <2>2. CatalogTypeOK'
    BY <1>i, <1>3, <1>5, <2>1 DEF CatalogTypeOK
  <2>3. Agreed'
    BY <1>i, <1>1, <1>5
       DEF Agreed, requestVars, lockVars, Kept, RowExists, CartsAsRead, OrdersAsRead,
           KeptLinesLocked, GoneProducts, ProductLocks, SeenIsCurrent, IdleRequests
  <2> QED
    BY <1>4, <2>2, <2>3
<1>6. CASE /\ WriteColumns(p, e)
           /\ \/ ProductFree(p) /\ RowExists(p) /\ reborn' = reborn
              \/ ~RowExists(p) /\ reborn' = reborn \cup {p}
  <2>1. /\ stock' \in [Product -> Nat] /\ supply' \in [Product -> Nat]
        /\ listing' \in [Product -> {"active", "inactive", "deleted"}]
        /\ \A q \in Product : q # p => stock'[q] = stock[q] /\ listing'[q] = listing[q]
        /\ RowExists(p) => listing'[p] # "deleted"
    BY <1>i, <1>1, <1>6, WriteType
  <2> HIDE DEF p
  <2>2. TypeOK'
    BY <1>i, <1>1, <2>1 DEF TypeOK, requestVars, lockVars
  <2>3. CatalogTypeOK'
    BY <1>i, <1>2, <1>3, <1>6, <2>2 DEF CatalogTypeOK
  <2>4. ProductFree(p)
    BY <1>i, <1>2, <1>6 DEF Agreed, GoneProducts, ProductFree
  <2>5. /\ \A q \in Product : Kept(q)' => Kept(q)
        /\ \A q \in Product : ~RowExists(q)' => ~RowExists(q)
    BY <1>6, <2>1 DEF Kept, RowExists
  <2>6. RowEdited(p)
    BY <1>i, <1>1, <2>1, <2>4, <2>5 DEF RowEdited, Agreed, GoneProducts
  <2>7. Agreed'
    BY <1>i, <1>2, <2>6, AgreedEdit
  <2> QED
    BY <1>4, <2>3, <2>7
<1> QED
  BY <1>1, <1>5, <1>6 DEF UpdateRow, InsertRow

\* A product is deleted with the lines of the carts; the orders lose it.
LEMMA DeleteStep ==
  ASSUME CatalogInv, NEW p \in Product, DeleteProduct(p)
  PROVE  CatalogTypeOK' /\ EditsTyped' /\ Agreed'
<1> USE DEF DeleteProduct
<1>i. CatalogTypeOK /\ TypeOK /\ EditsTyped /\ Agreed
  BY DEF CatalogInv, CatalogTypeOK
<1>1. TypeOK'
  BY <1>i DEF TypeOK, requestVars, lockVars
<1>2. CatalogTypeOK' /\ EditsTyped'
  BY <1>i, <1>1 DEF CatalogTypeOK, EditsTyped
<1>3. /\ \A q \in Product : q # p => stock'[q] = stock[q] /\ listing'[q] = listing[q]
      /\ listing'[p] = "deleted"
      /\ \A u \in User, q \in Product : cart'[u][q] = IF q = p THEN 0 ELSE cart[u][q]
      /\ \A o \in Order, q \in Product : items'[o][q] = IF q = p THEN 0 ELSE items[o][q]
  BY <1>i DEF TypeOK
<1>4. \A q \in Product : Kept(q)' => Kept(q) /\ q # p
  BY <1>3 DEF Kept, RowExists
<1>5. \A q \in Product : ~RowExists(q)' => q = p \/ ~RowExists(q)
  BY <1>3 DEF RowExists
<1>6. RowEdited(p)
  BY <1>i, <1>3, <1>4, <1>5 DEF RowEdited, Agreed, GoneProducts, ProductFree
<1> QED
  BY <1>i, <1>2, <1>6, AgreedEdit

-----------------------------------------------------------------------------
(* The invariant.                                                           *)

\* No new order and no cancelled one: the same orders hold their lines.
LEMMA LiveStep ==
  ASSUME TypeOK, IsFiniteSet(Live), Next
  PROVE  IsFiniteSet(Live')
<1>1. ASSUME NEW r \in Request, NEW o \in Order, PlaceOrder(r, o)
      PROVE  IsFiniteSet(Live')
  <2>1. want[r] \in [Product -> Nat]
    BY DEF TypeOK
  <2> QED
    BY <1>1, <2>1, PlacedReserved DEF PlaceOrder
<1>2. ASSUME NEW r \in Request, CancelOrder(r)
      PROVE  IsFiniteSet(Live')
  <2>1. Live' \subseteq Live
    BY <1>2 DEF Live, CancelOrder
  <2> QED
    BY <2>1, FS_Subset
<1>3. ASSUME NEW o \in Order, NEW new \in OrderStatus, UpdateStatus(o, new)
      PROVE  IsFiniteSet(Live')
  BY <1>3, StatusKeepsLive
<1>4. ASSUME status' = status
      PROVE  IsFiniteSet(Live')
  BY <1>4 DEF Live
<1> QED
  BY <1>1, <1>2, <1>3, <1>4
     DEF Next, CartEdit, Step, AddItem, UpdateItem, PutInCart, RemoveItem,
         BeginCheckout, BeginCancel, LockProduct, RejectCheckout, Abort

\* The invariant holds at the start.
LEMMA CatalogInvInit == CatalogInit => CatalogInv
<1> SUFFICES ASSUME CatalogInit
             PROVE  CatalogInv
  OBVIOUS
<1>1. Init /\ IInv /\ IsFiniteSet(Live)
  BY InvInit, StockInit DEF CatalogInit, StockInv
<1>2. CatalogTypeOK /\ EditsTyped
  BY <1>1 DEF CatalogInit, CatalogTypeOK, IInv, EditsTyped
<1>3. CartsAsRead /\ OrdersAsRead
  BY <1>1 DEF IInv, CartLocks, OrderLocks, CartsAsRead, OrdersAsRead
<1>4. KeptLinesLocked /\ ProductLocks /\ SeenIsCurrent /\ IdleRequests
  BY <1>1 DEF IInv, CancelLines, KeptLinesLocked
<1>5. GoneProducts
  BY <1>1 DEF Init, GoneProducts, RowExists
<1> QED
  BY <1>1, <1>2, <1>3, <1>4, <1>5 DEF CatalogInv, Agreed

\* Every step keeps it.
LEMMA CatalogInvStep == CatalogInv /\ [CatalogNext]_catalogVars => CatalogInv'
<1> SUFFICES ASSUME CatalogInv, [CatalogNext]_catalogVars
             PROVE  CatalogInv'
  OBVIOUS
<1>i. CatalogTypeOK /\ TypeOK /\ EditsTyped /\ IsFiniteSet(Live) /\ Agreed
  BY DEF CatalogInv, CatalogTypeOK
<1>1. CASE Next /\ UNCHANGED <<edit, reborn>>
  <2>1. TypeOK'
    BY <1>i, <1>1, TypeStep
  <2>2. CatalogTypeOK' /\ EditsTyped'
    BY <1>i, <1>1, <2>1 DEF CatalogTypeOK, EditsTyped
  <2>3. Agreed'
    BY <1>i, <1>1, <2>1, AgreedStep
  <2>4. IsFiniteSet(Live')
    BY <1>i, <1>1, LiveStep
  <2> QED
    BY <2>2, <2>3, <2>4 DEF CatalogInv
<1>2. ASSUME NEW r \in Request, NEW p \in Product, SkipProduct(r, p)
      PROVE  CatalogInv'
  <2>1. Agreed' /\ TypeOK'
    BY <1>i, <1>2, AgreedSkip
  <2> QED
    BY <1>i, <1>2, <2>1 DEF SkipProduct, CatalogInv, CatalogTypeOK, EditsTyped, Live
<1>3. ASSUME NEW e \in Editor, NEW p \in Product, NEW dto \in Dto, BeginUpdate(e, p, dto)
      PROVE  CatalogInv'
  <2>1. CatalogTypeOK' /\ EditsTyped'
    BY <1>i, <1>3, BeginType
  <2>2. UNCHANGED <<vars, reborn>>
    BY <1>3 DEF BeginUpdate
  <2> QED
    BY <1>i, <2>1, <2>2
       DEF CatalogInv, vars, requestVars, lockVars, Live, Agreed, Kept, RowExists, CartsAsRead,
           OrdersAsRead, KeptLinesLocked, GoneProducts, ProductLocks, SeenIsCurrent,
           IdleRequests
<1>4. ASSUME NEW e \in Editor, CompareColumns(e)
      PROVE  CatalogInv'
  <2>1. CatalogTypeOK' /\ EditsTyped'
    BY <1>i, <1>4, CompareType
  <2>2. UNCHANGED <<vars, reborn>>
    BY <1>4 DEF CompareColumns
  <2> QED
    BY <1>i, <2>1, <2>2
       DEF CatalogInv, vars, requestVars, lockVars, Live, Agreed, Kept, RowExists, CartsAsRead,
           OrdersAsRead, KeptLinesLocked, GoneProducts, ProductLocks, SeenIsCurrent,
           IdleRequests
<1>5. ASSUME NEW e \in Editor, UpdateRow(e) \/ InsertRow(e)
      PROVE  CatalogInv'
  <2>1. CatalogTypeOK' /\ EditsTyped' /\ Agreed'
    BY <1>5, WriteStep
  <2> QED
    BY <1>i, <1>5, <2>1 DEF UpdateRow, InsertRow, CatalogInv, Live
<1>6. ASSUME NEW p \in Product, DeleteProduct(p)
      PROVE  CatalogInv'
  <2>1. CatalogTypeOK' /\ EditsTyped' /\ Agreed'
    BY <1>6, DeleteStep
  <2> QED
    BY <1>i, <1>6, <2>1 DEF DeleteProduct, CatalogInv, Live
<1>7. CASE UNCHANGED catalogVars
  BY <1>i, <1>7
     DEF CatalogInv, catalogVars, vars, requestVars, lockVars, Live, Agreed, Kept, RowExists,
         CartsAsRead, OrdersAsRead, KeptLinesLocked, GoneProducts, ProductLocks,
         SeenIsCurrent, IdleRequests, CatalogTypeOK, TypeOK, EditsTyped
<1> QED
  BY <1>1, <1>2, <1>3, <1>4, <1>5, <1>6, <1>7 DEF CatalogNext, Administer

\* Every reachable state satisfies the invariant, whatever administrators do
\* to the catalog.
THEOREM CatalogInvariance == CatalogSpec => []CatalogInv
BY CatalogInvInit, CatalogInvStep, PTL DEF CatalogSpec

\* The variables keep their types under the edits; in particular no edit, sale
\* or cancellation makes the stock of a product negative.
THEOREM CatalogTypeCorrect == CatalogSpec => []CatalogTypeOK
<1>1. CatalogInv => CatalogTypeOK
  BY DEF CatalogInv
<1> QED
  BY <1>1, CatalogInvariance, PTL

\* What a checkout read with the lock stays true, also while the catalog is
\* edited and products are deleted.
THEOREM CatalogSeenCurrent == CatalogSpec => []SeenIsCurrent
<1>1. CatalogInv => SeenIsCurrent
  BY DEF CatalogInv, Agreed
<1> QED
  BY <1>1, CatalogInvariance, PTL

\* Administrators' statements take one row lock each, and rows that disappear
\* are passed over: still no circle of requests waits for product rows.
THEOREM CatalogNoDeadlock == CatalogSpec => []NoWaitCycle
<1>1. CatalogInv => NoWaitCycle
  BY LockOrder DEF CatalogInv, CatalogTypeOK, Agreed
<1> QED
  BY <1>1, CatalogInvariance, PTL

-----------------------------------------------------------------------------
(* What a step does to the orders.                                          *)

\* An order is placed in one step of a checkout alone.
LEMMA NewOrder ==
  ASSUME CatalogInv, [CatalogNext]_catalogVars, NEW o \in Order,
         status[o] = "none", status'[o] # "none"
  PROVE  \E r \in Request : PlaceOrder(r, o)
<1>1. ASSUME NEW r \in Request, CancelOrder(r)
      PROVE  FALSE
  <2>1. orderLock[o] # r
    BY NoRequestAssumption DEF CatalogInv, Agreed, OrdersAsRead
  <2> QED
    BY <1>1, <2>1 DEF CancelOrder, CatalogInv, CatalogTypeOK, TypeOK
<1>2. ASSUME NEW q \in Order, NEW new \in OrderStatus, UpdateStatus(q, new)
      PROVE  FALSE
  BY <1>2 DEF UpdateStatus, OrderStatus, CatalogInv, CatalogTypeOK, TypeOK
<1>3. ASSUME NEW r \in Request, NEW q \in Order, PlaceOrder(r, q)
      PROVE  q = o
  BY <1>3 DEF PlaceOrder, CatalogInv, CatalogTypeOK, TypeOK
<1>4. status' # status
  OBVIOUS
<1>5. CASE Next
  BY <1>1, <1>2, <1>3, <1>4, <1>5
     DEF Next, CartEdit, Step, AddItem, UpdateItem, PutInCart, RemoveItem,
         BeginCheckout, BeginCancel, LockProduct, RejectCheckout, Abort
<1>6. CASE ~Next
  BY <1>4, <1>6
     DEF CatalogNext, catalogVars, vars, SkipProduct, Administer, BeginUpdate, CompareColumns,
         UpdateRow, InsertRow, DeleteProduct
<1> QED
  BY <1>5, <1>6

\* No order is placed with a product that is inactive or deleted at that
\* moment: the checkout holds the lock of every row it takes units of, and saw
\* it active with the lock.
THEOREM ListedSold == CatalogSpec => OnlyListedSold
<1>1. ASSUME CatalogInv, [CatalogNext]_catalogVars, NEW o \in Order,
             status[o] = "none", status'[o] # "none", NEW p \in Lines(items'[o])
      PROVE  listing[p] = "active"
  <2>1. PICK r \in Request : PlaceOrder(r, o)
    BY <1>1, NewOrder
  <2>2. items'[o] = want[r] /\ Available(r)
    BY <1>1, <2>1 DEF PlaceOrder, CatalogInv, CatalogTypeOK, TypeOK
  <2>3. p \in Product /\ want[r][p] > 0
    BY <2>2 DEF Lines
  <2> QED
    BY <1>1, <2>2, <2>3, AvailableLines DEF CatalogInv, CatalogTypeOK, Agreed
<1>2. CatalogInv /\ [CatalogNext]_catalogVars =>
        [\A o \in Order : status[o] = "none" /\ status'[o] # "none" =>
           \A p \in Lines(items'[o]) : listing[p] = "active"]_vars
  BY <1>1
<1> QED
  BY <1>2, CatalogInvariance, PTL DEF CatalogSpec, OnlyListedSold

\* A new order holds what some cart held, and that cart becomes empty in the
\* same step, whatever lines left the cart with a deleted product meanwhile.
THEOREM WholeCartsSold == CatalogSpec => CartsSoldWhole
<1> DEFINE Taken(o) ==
             \E u \in User :
               /\ Lines(cart[u]) # {} \/ reborn # {}
               /\ \A p \in Product \ reborn : items'[o][p] = cart[u][p]
               /\ cart'[u] = NoLines
<1>1. ASSUME CatalogInv, [CatalogNext]_catalogVars, NEW o \in Order,
             status[o] = "none", status'[o] # "none"
      PROVE  Taken(o)
  <2>i. TypeOK /\ CartsAsRead /\ GoneProducts /\ SeenIsCurrent
    BY <1>1 DEF CatalogInv, CatalogTypeOK, Agreed
  <2>1. PICK r \in Request : PlaceOrder(r, o)
    BY <1>1, NewOrder
  <2>2. items'[o] = want[r] /\ Available(r) /\ pc[r] = "checkout"
    BY <2>i, <2>1 DEF PlaceOrder, TypeOK
  <2>3. PICK u \in User : cartLock[u] = r
    BY <2>i, <2>2 DEF CartsAsRead
  <2>4. /\ Lines(want[r]) # {}
        /\ \A p \in Product : Kept(p) => want[r][p] = cart[u][p]
    BY <2>i, <2>3, NoRequestAssumption DEF CartsAsRead
  <2>5. ASSUME NEW p \in Product \ reborn
        PROVE  want[r][p] = cart[u][p]
    <3>1. CASE RowExists(p)
      BY <2>4, <2>5, <3>1 DEF Kept
    <3>2. CASE ~RowExists(p)
      BY <2>i, <2>2, <3>2, AvailableLines DEF GoneProducts, RowExists
    <3> QED
      BY <3>1, <3>2
  <2>6. reborn = {} => Lines(cart[u]) # {}
    BY <2>4, <2>5 DEF Lines
  <2>7. cart'[u] = NoLines
    BY <2>1, <2>3 DEF PlaceOrder
  <2> QED
    BY <2>2, <2>5, <2>6, <2>7
<1>2. CatalogInv /\ [CatalogNext]_catalogVars =>
        [\A o \in Order : status[o] = "none" /\ status'[o] # "none" => Taken(o)]_catalogVars
  BY <1>1
<1> QED
  BY <1>2, CatalogInvariance, PTL DEF CatalogSpec, CartsSoldWhole

\* A cancellation gives back the units of its order, except of products that
\* were inserted again: those that are gone are in no order, and the others it
\* has locked.
LEMMA CancelConserves ==
  ASSUME CatalogInv, NEW r \in Request, CancelOrder(r), NEW p \in Product \ reborn
  PROVE  stock'[p] + Reserved(p)' = stock[p] + Reserved(p)
<1> USE DEF CancelOrder
<1>i. TypeOK /\ OrdersAsRead /\ KeptLinesLocked /\ GoneProducts /\ IsFiniteSet(Live)
  BY DEF CatalogInv, CatalogTypeOK, Agreed
<1>1. PICK o \in Order : orderLock[o] = r
  BY <1>i DEF OrdersAsRead
<1>2. status[o] = "pending" /\ (Kept(p) => want[r][p] = items[o][p])
  BY <1>i, <1>1, NoRequestAssumption DEF OrdersAsRead
<1>3. \A q \in Order : orderLock[q] = r <=> q = o
  BY <1>i, <1>1, NoRequestAssumption DEF OrdersAsRead
<1>4. status' = [status EXCEPT ![o] = "cancelled"] /\ o \in Live
  <2>1. \A q \in Order : status'[q] = IF q = o THEN "cancelled" ELSE status[q]
    BY <1>3
  <2>2. /\ status' = [q \in Order |-> status'[q]]
        /\ [status EXCEPT ![o] = "cancelled"]
             = [q \in Order |-> IF q = o THEN "cancelled" ELSE status[q]]
    BY <1>i DEF TypeOK
  <2>3. status' = [status EXCEPT ![o] = "cancelled"]
    BY <2>1, <2>2
  <2> QED
    BY <1>2, <2>3 DEF Live
<1>5. Reserved(p)' \in Nat /\ Reserved(p) = Reserved(p)' + items[o][p]
  BY <1>i, <1>4, CancelledReserved
<1>6. items[o][p] \in Nat /\ stock[p] \in Nat /\ want[r][p] \in Nat
  BY <1>i DEF TypeOK
<1>7. stock'[p] = stock[p] + items[o][p]
  <2>1. stock'[p] = IF productLock[p] = r THEN stock[p] + want[r][p] ELSE stock[p]
    BY DEF Restored
  <2>2. CASE RowExists(p)
    <3>1. Kept(p)
      BY <2>2 DEF Kept
    <3>2. productLock[p] = r \/ ~ (want[r][p] > 0)
      BY <1>i, <3>1 DEF KeptLinesLocked
    <3> QED
      BY <1>2, <1>6, <2>1, <3>1, <3>2
  <2>3. CASE ~RowExists(p)
    BY <1>i, <1>6, <2>1, <2>3, NoRequestAssumption DEF GoneProducts
  <2> QED
    BY <2>2, <2>3
<1> QED
  BY <1>5, <1>6, <1>7

\* A step other than an administrator's neither makes nor loses units of any
\* product that was not inserted again, whatever was edited or deleted.
THEOREM SalesAreConserved == CatalogSpec => SalesConserve
<1> DEFINE Same(p) == stock'[p] + Reserved(p)' = stock[p] + Reserved(p)
<1>1. ASSUME CatalogInv, [CatalogNext]_catalogVars, edit' = edit, listing' = listing,
             NEW p \in Product \ reborn
      PROVE  Same(p)
  <2>i. TypeOK /\ EditsTyped /\ SeenIsCurrent /\ IsFiniteSet(Live)
    BY <1>1 DEF CatalogInv, CatalogTypeOK, Agreed
  <2>n. stock[p] \in Nat /\ Reserved(p) \in Nat
    BY <2>i, ReservedType DEF TypeOK
  <2>1. ASSUME NEW r \in Request, NEW o \in Order, PlaceOrder(r, o)
        PROVE  Same(p)
    <3>1. want[r] \in [Product -> Nat]
      BY <2>i DEF TypeOK
    <3>2. Reserved(p)' = Reserved(p) + want[r][p]
      BY <2>i, <2>1, <3>1, PlacedReserved DEF PlaceOrder
    <3>3. stock'[p] = stock[p] - want[r][p]
      BY <2>1 DEF PlaceOrder
    <3> QED
      BY <2>n, <3>1, <3>2, <3>3
  <2>2. ASSUME NEW r \in Request, CancelOrder(r)
        PROVE  Same(p)
    BY <1>1, <2>2, CancelConserves
  <2>3. ASSUME NEW o \in Order, NEW new \in OrderStatus, UpdateStatus(o, new)
        PROVE  Same(p)
    BY <2>i, <2>3, StatusKeepsLive, SameReserved
  <2>4. ASSUME UNCHANGED <<stock, status, items>>
        PROVE  Same(p)
    <3>1. Live' = Live
      BY <2>4 DEF Live
    <3> QED
      BY <2>i, <2>4, <3>1, SameReserved
  <2>5. CASE Next
    BY <2>1, <2>2, <2>3, <2>4, <2>5
       DEF Next, CartEdit, Step, AddItem, UpdateItem, PutInCart, RemoveItem,
           BeginCheckout, BeginCancel, LockProduct, RejectCheckout, Abort
  <2>6. CASE \E e \in Editor : UpdateRow(e) \/ InsertRow(e)
    <3>1. PICK e \in Editor : edit[e] # NoEdit /\ edit' = [edit EXCEPT ![e] = NoEdit]
      BY <2>6 DEF UpdateRow, InsertRow
    <3> QED
      BY <1>1, <2>i, <3>1 DEF EditsTyped
  <2>7. CASE \E q \in Product : DeleteProduct(q)
    <3>1. PICK q \in Product : listing[q] # "deleted"
                               /\ listing' = [listing EXCEPT ![q] = "deleted"]
      BY <2>7 DEF DeleteProduct, RowExists
    <3> QED
      BY <1>1, <2>i, <3>1 DEF TypeOK
  <2> QED
    BY <1>1, <2>4, <2>5, <2>6, <2>7
       DEF CatalogNext, catalogVars, vars, SkipProduct, Administer, BeginUpdate,
           CompareColumns
<1>2. CatalogInv /\ [CatalogNext]_catalogVars =>
        [edit' = edit /\ listing' = listing =>
           \A p \in Product \ reborn : Same(p)]_catalogVars
  BY <1>1
<1> QED
  BY <1>2, CatalogInvariance, PTL DEF CatalogSpec, SalesConserve
=============================================================================
