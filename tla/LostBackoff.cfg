SPECIFICATION Spec
CONSTANTS
  Credits = {1}
  Documents <- MCDefaults
  Env <- MCEnv
  Text <- MCText
  MaxRows = 1
  MaxLevel = 30
  Malformed = Malformed
  Rejected = Rejected
  Unreadable = Unreadable
  None = None
INVARIANT BackoffNeverLost
