SPECIFICATION FairLoopSpec
CONSTANTS
  NoGroup = NoGroup
  NoName = NoName
  Scenarios <- MCScenarios
  NpuIds <- MCNpuIds
  MaxNumSeqs = 2
INVARIANTS
  RunInOrder
  SessionsInOrder
  DoneMeansDone
PROPERTIES
  RunEnds
CHECK_DEADLOCK FALSE
