SPECIFICATION GRSpec
CONSTANTS
  BlockTokens = 2
  KvBytes = 2
  Paradigm = "openonerec"
  Vocab <- MCVocab
  NumLayers = 2
  WeightBytes = 3
  ChunkTokens = 2
  WorkspaceBytes = 20
  Locations <- MCLocations
  Users <- MCUsers
  Scenarios <- MCScenarios
  Durations = {2}
INVARIANTS
  NeverOverfull
  SnapshotIsLatest
PROPERTIES
  AdmitsByRecency
  StagesDoTheWork
CHECK_DEADLOCK FALSE
