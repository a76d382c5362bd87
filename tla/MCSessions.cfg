SPECIFICATION MCSpec
CONSTANTS
  Device = {d1, d2}
  NumTokens = 3
  Call = {c1, c2}
  NoToken = NoToken
  NoDevice = NoDevice
INVARIANTS TypeOK OneGenerationValid SessionsLast
PROPERTIES RevokedIsFinal ExpiredRowsGo
CHECK_DEADLOCK FALSE
