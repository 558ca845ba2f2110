SPECIFICATION FairPairSpec
CONSTANTS
  NoHash = NoHash
  Hashes <- MCHashes
  Reqs <- MCReqs
  Chain <- MCChain
  BlockSize = 2
  Tiers <- NoTiers
  Prompt <- MCPrompt
  Output <- MCOutput
  MaxNumSeqs = 2
  MaxBatchedTokens = 4
  LongPrefillThreshold = 3
  EnableChunkedPrefill = FALSE
  ReserveFullISL = FALSE
  NumNpus = 1
  PrefillCaching = FALSE
  PrefillBlocks = 3
  PrefillStages = 1
  DecodeCaching = TRUE
  DecodeBlocks = 7
  DecodeStages = 2
INVARIANTS
  ShipsWholePrompt
  BlocksOnOneSide
  PrefillLetsGo
PROPERTIES
  ServedOrRaised
CHECK_DEADLOCK FALSE
