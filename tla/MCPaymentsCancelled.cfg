SPECIFICATION FairSpec
CONSTANTS
  Order = {o1}
  Call = {c1}
  Key = {k1}
  NoOrder = NoOrder
  NoKey = NoKey
  Fault = {}
PROPERTIES PaidOrderKeepsStock
CHECK_DEADLOCK FALSE
