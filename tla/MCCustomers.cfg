SPECIFICATION MCSpec
CONSTANTS
  Call = {c1,c2,c3}
  NumTokens = 2
  OldPassword = OldPassword
  NoPassword = NoPassword
  NoAccount = NoAccount
  NoToken = NoToken
  AddressId = {a1,a2}
  Edit = {e1,e2,e3}
  NoAddress = NoAddress
  Keep = Keep
  MaxRequests = 3
SYMMETRY Symmetric
INVARIANTS CustomerTypeOK UsedMeansDone LinkWorksOnce PasswordIsCurrent OnlyOwnersSignIn
  OneDefaultInTurn DefaultLasts
PROPERTIES AccountKeeps
CHECK_DEADLOCK FALSE
