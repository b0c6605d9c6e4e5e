SPECIFICATION Spec
CONSTANTS
  Accounts = {a1}
  Credits = {1, 2}
  Keys = {k1, k2}
  Engines = {e1}
  MaxVerify = 2
  MaxWindow = 1
  LateRequests = FALSE
  DefaultParticipation = TRUE
  HostStatuses = {"enabled", "missing"}
  None = None
SYMMETRY KeySymmetry
INVARIANTS
  TypeOK
  WriteAhead
  WireMatchesAttempt
  NoForgottenRedemption
  LocalClearOwed
  ClearExcludesPending
  SendsOnFile
PROPERTIES
  LedgerSpec
