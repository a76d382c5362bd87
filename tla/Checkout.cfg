SPECIFICATION FairSpec
CONSTANTS
  User = {u1, u2}
  NumProducts = 2
  Order = {o1, o2}
  Request = {r1, r2}
  NoRequest = NoRequest
  Quantity = {2, 3}
  MaxStock = 3
INVARIANTS TypeOK StockConserved NoWaitCycle SeenIsCurrent
PROPERTIES OrdersTakeWholeCart CancelOnlyPending ImplementsLedger TransactionsEnd
CHECK_DEADLOCK FALSE
