SPECIFICATION FairLoopSpec
CONSTANTS
  NoGroup = NoGroup
  NoName = NoName
  Scenarios <- NoToolTime
  NpuIds <- MCNpuIds
  MaxNumSeqs = 2
PROPERTIES
  RunEnds
CHECK_DEADLOCK FALSE
