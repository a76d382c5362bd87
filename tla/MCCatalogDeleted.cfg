SPECIFICATION CatalogSpec
CONSTANTS
  User = {u1}
  NumProducts = 1
  Order = {o1}
  Request = {r1}
  NoRequest = NoRequest
  Quantity = {1}
  MaxStock = 1
  Editor = {e1}
  NoEdit = NoEdit
  Keep = Keep
  StockInput = {1}
PROPERTIES DeletedStaysDeleted
CHECK_DEADLOCK FALSE
