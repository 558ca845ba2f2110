SPECIFICATION Spec
CONSTANTS
  NoGroup = NoGroup
  Clusters <- MCClusters
  MaxInstances = 3
  ChunkTokens = 6
INVARIANTS
  UniformTopologyFits
  SharersAreAccepted
CHECK_DEADLOCK FALSE
