SPECIFICATION FairSpec
CONSTANTS
  Order = {o1}
  Call = {c1,c2,c3}
  Key = {k1,k2}
  NoOrder = NoOrder
  NoKey = NoKey
  Fault = {"crash", "saveError"}
INVARIANTS TypeOK OneCharge OneIntentionPerKey OneActivePayment
PROPERTIES ImplementsOrderPayment PaidIsRecorded
CHECK_DEADLOCK FALSE
