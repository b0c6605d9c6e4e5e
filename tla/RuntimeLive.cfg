SPECIFICATION FairSpec
CONSTANTS
  Engines = {e1, e2}
  Threads = {t1, t2}
  Dirs = {d1}
  None = None
PROPERTIES
  CallReturns
  LoopEnds
  EngineScans
