SPECIFICATION MCSpec
CONSTANTS
  N = 5
  Trees <- MCTrees
  Unwanted <- MCUnwanted
  Requests = {1}
INVARIANTS
  CommandsTypeOK
  NilMeansComplete
  OnlyWanted
  SplitOnlyByCreator
  CutOnlyInShutdown
  ZeroMeansComplete
PROPERTY
  CommandsEnd
CHECK_DEADLOCK FALSE
