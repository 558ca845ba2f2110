SPECIFICATION Spec
CONSTANTS
  BlockSize = 2
  ChunkStart = 2
  KvStart = 2
  KpStart = 2
  KvsStart = 2
  KvsTop = 2
  Ratios <- MCRatios
  NbAbsolute = {1}
  SkewRep <- MCSkewRep
  SkewsMixed <- MCSkews
  SkewsPure <- MCPureSkews
  PivotRatio <- MCHalf
  BalancedRatio <- MCHalf
  CacheTokens <- MCCacheTokens
  MaxModelLen = 7
  NumExperts = 2
  TopK = 1
  KvEdge = 2
  SkewRateEdges <- MCSkewRateEdges
  DefaultAxes <- MCDefaultAxes
  DefaultKpTop = 4
  TPs = {1, 2, 4}
  Sessions <- DenseSliceFirst
  Catalog <- MCCatalog
  ModuleTree <- MCModuleTree
  Kernels <- MCKernels
  SaveEvery = 2
  MaxFailures = 0
  NoFile = NoFile
INVARIANTS
  SessionLeavesNoGap
CHECK_DEADLOCK FALSE
