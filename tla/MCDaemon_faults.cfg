SPECIFICATION Spec
CONSTANTS
  d1 = d1
  d2 = d2
  Daemons = {d1, d2}
  MaxId = 3
  BatchLimit = 2
  Work <- MCWork
  Submittable <- BothKinds
  Faults = {"error", "panic", "txfail", "cancel", "deadline", "failtx", "busy", "crash"}
SYMMETRY DaemonSymmetry
INVARIANTS
  TypeOK
  Ownership
  DeadLetterOnce
  AttemptsCounted
  EffectsOnce
  StrandedAreLost
PROPERTY
  ImplementsLifecycle
