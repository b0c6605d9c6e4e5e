SPECIFICATION FairSpec
CONSTANTS
  Files = {1, 2}
  Accounts = {a1, a2}
  DefaultParticipation = FALSE
  None = None
INVARIANTS
  TypeOK
  BestWins
  SteadySeen
  ChoiceKept
PROPERTIES
  RegistryConverges
