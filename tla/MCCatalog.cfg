SPECIFICATION CatalogFairSpec
CONSTANTS
  User = {u1}
  NumProducts = 1
  Order = {o1,o2}
  Request = {r1,r2}
  NoRequest = NoRequest
  Quantity = {1}
  MaxStock = 1
  Editor = {e1}
  NoEdit = NoEdit
  Keep = Keep
  StockInput = {1}
INVARIANTS CatalogTypeOK SeenIsCurrent
PROPERTIES OnlyListedSold SalesConserve CartsSoldWhole TransactionsEnd
CHECK_DEADLOCK FALSE
