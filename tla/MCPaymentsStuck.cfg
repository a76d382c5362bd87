SPECIFICATION FairSpec
CONSTANTS
  Order = {o1}
  Call = {c1,c2}
  Key = {k1,k2}
  NoOrder = NoOrder
  NoKey = NoKey
  Fault = {"crash"}
PROPERTIES InProgressEnds
CHECK_DEADLOCK FALSE
