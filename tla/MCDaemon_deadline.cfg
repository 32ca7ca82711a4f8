SPECIFICATION Spec
CONSTANTS
  d1 = d1
  d2 = d2
  Daemons = {d1, d2}
  MaxId = 2
  BatchLimit = 2
  Work <- MCWork
  Submittable <- OnlyParse
  Faults = {"deadline"}
INVARIANT
  CleanupSucceeds
