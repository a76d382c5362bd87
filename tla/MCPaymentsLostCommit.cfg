SPECIFICATION Spec
CONSTANTS
  Order = {o1}
  Call = {c1,c2,c3}
  Key = {k1,k2}
  NoOrder = NoOrder
  NoKey = NoKey
  Fault = {"lostCommit"}
INVARIANTS OneCharge
CHECK_DEADLOCK FALSE
