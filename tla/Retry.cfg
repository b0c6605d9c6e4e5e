SPECIFICATION Spec
CONSTANTS
  Accounts = {a1}
  Credits = {1}
  Keys = {k1, k2}
  Engines = {e1}
  MaxVerify = 2
  MaxWindow = 0
  LateRequests = FALSE
  DefaultParticipation = TRUE
  HostStatuses = {"enabled"}
  None = None
PROPERTIES
  RetryStillWanted
