SPECIFICATION LiveSpec
CONSTANTS
  Accounts = {a1}
  Credits = {1}
  Keys = {k1}
  Engines = {e1}
  MaxVerify = 1
  MaxWindow = 0
  LateRequests = FALSE
  DefaultParticipation = TRUE
  HostStatuses = {"enabled", "disabled"}
  None = None
PROPERTIES
  ScanEnds
  AttemptCloses
  ClearCompletes
