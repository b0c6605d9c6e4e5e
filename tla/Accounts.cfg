SPECIFICATION Spec
CONSTANTS
  Accounts = {a1, a2}
  Credits = {1}
  Keys = {k1, k2}
  Engines = {e1}
  MaxVerify = 1
  MaxWindow = 0
  LateRequests = TRUE
  DefaultParticipation = TRUE
  HostStatuses = {"enabled"}
  None = None
CONSTRAINT SharedBound
SYMMETRY AccountSymmetry
INVARIANTS
  OneCreditPerKey
PROPERTIES
  NoCallWhileMgmtCooling
  KeyLedgerSpec
