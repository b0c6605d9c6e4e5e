SPECIFICATION Spec
CONSTANTS
  Credits = {1, 2}
  Documents <- MCDocuments
  Env <- MCEnv
  Text <- MCText
  MaxRows = 3
  MaxLevel = 30
  Malformed = Malformed
  Rejected = Rejected
  Unreadable = Unreadable
  None = None
INVARIANTS
  TypeOK
  Spaced
  NextAllowedHonest
PROPERTIES
  NoFalseSuccess
