SPECIFICATION Spec
CONSTANTS
  Accounts = {a1}
  Credits = {1}
  Keys = {k1, k2}
  Engines = {e1, e2}
  MaxVerify = 1
  MaxWindow = 0
  LateRequests = FALSE
  DefaultParticipation = TRUE
  HostStatuses = {"enabled"}
  None = None
CONSTRAINT SharedBound
SYMMETRY SharedSymmetry
INVARIANTS
  IInv
PROPERTIES
  AttemptStable
  KeyLedgerSpec
