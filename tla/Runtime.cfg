SPECIFICATION Spec
CONSTANTS
  Engines = {e1, e2}
  Threads = {t1, t2, t3}
  Dirs = {d1, d2}
  None = None
SYMMETRY RuntimeSymmetry
INVARIANTS
  TypeOK
  QuietAfterStop
  NoLeakedEngine
  ShutdownStops
  ServedMatchesConfig
PROPERTIES
  LeaseSpec
