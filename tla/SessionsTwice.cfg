SPECIFICATION Spec
CONSTANTS
  Device = {d1}
  NumTokens = 3
  Call = {c1,c2}
  NoToken = NoToken
  NoDevice = NoDevice
INVARIANTS ExchangedOnce
CHECK_DEADLOCK FALSE
