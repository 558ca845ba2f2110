SPECIFICATION Spec
CONSTANTS
  Dense <- MCDense
  PerSequence <- MCPerSequence
  Attention <- MCAttention
  Moe <- MCMoe
  TpStable = {"layernorm", "final_layernorm", "qk_norm", "sampler"}
  SkewFit <- MCSkewFit
  Experts = 4
  TopK = 2
  Sequence <- MCSequence
  Category <- MCCategory
  Model <- MCModel
  Fp = 2
  KvFp = 1
  NumLayers = 5
  PimChannels = 2
  PimUnit <- MCPimUnit
  PimBase <- MCPimBase
  MaxSeen = 3
  MaxBytes = 90
  Instances = {1, 2}
  Setups <- MCScenarios
INVARIANTS
  GraphIsTheTrace
  StagesPartitionModel
  HalvesRunAsAlone
  WeightsComeFromTheirPlace
  MoreWorkIsNotFaster
PROPERTY PowerIsTheTrace
CHECK_DEADLOCK FALSE
