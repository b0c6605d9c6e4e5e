SPECIFICATION FairSpec
CONSTANTS
  Stores = {s1, s2}
  Slots = {g1, g2}
  Changes = {x1, x2}
  None = None
INVARIANTS
  TypeOK
  NeverTorn
  AckedDurable
PROPERTIES
  AtomicSpec
  CallEnds
