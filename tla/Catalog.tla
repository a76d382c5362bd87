------------------------------- MODULE Catalog -------------------------------
(***************************************************************************)
(* The administrator's product operations (products.service.ts) running    *)
(* against the carts, checkouts and cancellations of Checkout.             *)
(*                                                                         *)
(* update() loads the product, copies the fields of the request over it    *)
(* and calls repository.save, with no transaction or lock around the       *)
(* three.  save is TypeORM's: it reads the row again, compares every       *)
(* column of the object with it, and writes the columns that differ, or    *)
(* inserts the object when the row is gone.  The statement that writes     *)
(* waits for the row lock like any other.  Of the columns only stock and   *)
(* is_active are kept; images and files are left out.                      *)
(***************************************************************************)
EXTENDS Checkout

CONSTANTS
  Editor,      \* administrators' update requests served at the same time
  NoEdit,      \* an editor that is not serving a request
  Keep,        \* a field the request does not name
  StockInput   \* the stock an administrator may enter

ASSUME StockInputAssumption == StockInput \subseteq Nat

VARIABLES
  edit,   \* the object an update() holds, and how far it has come
  reborn  \* history: the products that were inserted again after a deletion

catalogVars == <<vars, edit, reborn>>

Column == {"stock", "listing"}
Dto == [stock : StockInput \cup {Keep}, listing : {"active", "inactive", Keep}]

CatalogInit == Init /\ edit = [e \in Editor |-> NoEdit] /\ reborn = {}

-----------------------------------------------------------------------------
Row(p) == [stock |-> stock[p], listing |-> listing[p]]

\* findOne and Object.assign(product, dto).
BeginUpdate(e, p, dto) ==
  /\ edit[e] = NoEdit
  /\ RowExists(p)
  /\ edit' = [edit EXCEPT ![e] =
       [phase   |-> "loaded",
        product |-> p,
        entity  |-> [c \in Column |-> IF dto[c] = Keep THEN Row(p)[c] ELSE dto[c]],
        named   |-> {c \in Column : dto[c] # Keep},
        changes |-> {}]]
  /\ UNCHANGED <<vars, reborn>>

\* The first half of save: which columns differ from the row as it is now.
CompareColumns(e) ==
  /\ edit[e] # NoEdit
  /\ edit[e].phase = "loaded"
  /\ LET p == edit[e].product
     IN edit' = [edit EXCEPT
          ![e].phase = IF RowExists(p) THEN "update" ELSE "insert",
          ![e].changes = IF RowExists(p)
                         THEN {c \in Column : edit[e].entity[c] # Row(p)[c]}
                         ELSE Column]
  /\ UNCHANGED <<vars, reborn>>

\* The row of p gets the columns of the object.  A stock the request named is
\* a new count of the shelf; one it did not name is no new supply.
WriteColumns(p, e) ==
  LET new(c) == IF c \in edit[e].changes THEN edit[e].entity[c] ELSE Row(p)[c]
  IN /\ stock' = [stock EXCEPT ![p] = new("stock")]
     /\ listing' = [listing EXCEPT ![p] = new("listing")]
     /\ supply' = IF "stock" \in edit[e].named \cap edit[e].changes
                  THEN [supply EXCEPT ![p] = edit[e].entity.stock + Reserved(p)]
                  ELSE supply

\* The second half of save: UPDATE ... WHERE id, waiting for the row lock.
UpdateRow(e) ==
  /\ edit[e] # NoEdit
  /\ edit[e].phase = "update"
  /\ ProductFree(edit[e].product)
  /\ IF RowExists(edit[e].product)
     THEN WriteColumns(edit[e].product, e)
     ELSE UNCHANGED <<stock, listing, supply>>
  /\ edit' = [edit EXCEPT ![e] = NoEdit]
  /\ UNCHANGED <<cart, status, items, requestVars, lockVars, reborn>>

\* The second half of save for a row it did not find: INSERT, which fails
\* when another update() has inserted the same id meanwhile.
InsertRow(e) ==
  /\ edit[e] # NoEdit
  /\ edit[e].phase = "insert"
  /\ IF RowExists(edit[e].product)
     THEN UNCHANGED <<stock, listing, supply, reborn>>
     ELSE WriteColumns(edit[e].product, e) /\ reborn' = reborn \cup {edit[e].product}
  /\ edit' = [edit EXCEPT ![e] = NoEdit]
  /\ UNCHANGED <<cart, status, items, requestVars, lockVars>>

\* remove(): the cart lines go with the row (ON DELETE CASCADE), the order
\* lines stay but lose their product (ON DELETE SET NULL).
DeleteProduct(p) ==
  /\ RowExists(p)
  /\ ProductFree(p)
  /\ listing' = [listing EXCEPT ![p] = "deleted"]
  /\ stock' = [stock EXCEPT ![p] = 0]
  /\ supply' = [supply EXCEPT ![p] = 0]
  /\ cart' = [u \in User |-> [cart[u] EXCEPT ![p] = 0]]
  /\ items' = [o \in Order |-> [items[o] EXCEPT ![p] = 0]]
  /\ UNCHANGED <<status, requestVars, lockVars, edit, reborn>>

\* The row that the statement of r has come to is gone: checkout does not find
\* it, cancellation updates no row.
SkipProduct(r, p) ==
  /\ FirstOf(p, todo[r])
  /\ ~RowExists(p)
  /\ todo' = [todo EXCEPT ![r] = @ \ {p}]
  /\ UNCHANGED <<stock, listing, supply, cart, status, items, pc, want, seen,
                 lockVars, edit, reborn>>

-----------------------------------------------------------------------------
Administer ==
  \/ \E e \in Editor :
       \/ \E p \in Product, dto \in Dto : BeginUpdate(e, p, dto)
       \/ CompareColumns(e)
       \/ UpdateRow(e)
       \/ InsertRow(e)
  \/ \E p \in Product : DeleteProduct(p)

CatalogNext ==
  \/ Next /\ UNCHANGED <<edit, reborn>>
  \/ \E r \in Request, p \in Product : SkipProduct(r, p)
  \/ Administer

CatalogSpec == CatalogInit /\ [][CatalogNext]_catalogVars

CatalogFairSpec ==
  CatalogSpec /\ \A r \in Request :
    SF_vars(Step(r) \/ \E p \in Product : SkipProduct(r, p))

-----------------------------------------------------------------------------
(* Properties.                                                             *)

\* The variables of Checkout keep their types under the edits, and an editor
\* holds nothing or an object of the catalog.
CatalogTypeOK ==
  /\ TypeOK
  /\ \A e \in Editor : edit[e] # NoEdit =>
       /\ edit[e].phase \in {"loaded", "update", "insert"}
       /\ edit[e].product \in Product
       /\ edit[e].entity.stock \in Nat
       /\ edit[e].entity.listing \in {"active", "inactive"}
       /\ edit[e].named \subseteq Column /\ edit[e].changes \subseteq Column
  /\ reborn \subseteq Product

\* No order is placed with a product that is inactive or deleted at that
\* moment, also when it was deactivated or deleted after it was put in the
\* cart, or while the checkout was waiting for its row.
OnlyListedSold ==
  [][\A o \in Order : status[o] = "none" /\ status'[o] # "none" =>
       \A p \in Lines(items'[o]) : listing[p] = "active"]_vars

\* A step other than an administrator's neither makes nor loses units of any
\* product: cancelling an order returns exactly the lines that still have
\* their products, whatever was edited or deleted since it was placed.  A
\* product that was inserted again is exempt: a request that met it before its
\* deletion still counts it.
SalesConserve ==
  [][edit' = edit /\ listing' = listing =>
       \A p \in Product \ reborn :
         stock'[p] + Reserved(p)' = stock[p] + Reserved(p)]_catalogVars

\* A new order holds what some cart held, and that cart becomes empty in the
\* same step, also when lines leave the cart with a deleted product while the
\* checkout waits for its row; products inserted again are exempt.
CartsSoldWhole ==
  [][\A o \in Order : status[o] = "none" /\ status'[o] # "none" =>
       \E u \in User :
         /\ Lines(cart[u]) # {} \/ reborn # {}
         /\ \A p \in Product \ reborn : items'[o][p] = cart[u][p]
         /\ cart'[u] = NoLines]_catalogVars


\* User story US-23: a removed product is no longer available for purchase.
DeletedStaysDeleted ==
  [][\A p \in Product : listing[p] = "deleted" => listing'[p] = "deleted"]_vars
=============================================================================
