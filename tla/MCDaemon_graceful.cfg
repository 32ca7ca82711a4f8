SPECIFICATION FairSpec
CONSTANTS
  d1 = d1
  d2 = d2
  Daemons = {d1, d2}
  MaxId = 3
  BatchLimit = 1
  Work <- MCWork
  Submittable <- BothKinds
  Faults = {"error", "panic", "txfail", "failtx", "cancel"}
PROPERTIES
  EveryJobSettles
  ShutdownCompletes
