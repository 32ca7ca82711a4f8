SPECIFICATION MCSpec
CONSTANTS
  Limits <- MCLimits
  Densities <- MCDensities
  CallSeconds = {0, 1}
  PromptSizes <- MCSizes
  MaxItems = 2
INVARIANTS
  TypeOK
  TransientOutlivesCleanup
  CancelStopsCalls
  OverflowRetries
  CutPromptFits
  ThresholdIsBoundary
  StoredWhenNil
  TrimDropsFewest
  AnswerRead
  HashIsCode
  DepthHidesNothing
CHECK_DEADLOCK FALSE
