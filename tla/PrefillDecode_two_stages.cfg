SPECIFICATION PairSpec
CONSTANTS
  NoHash = NoHash
  Hashes <- MCHashes
  Reqs <- MCReqs
  Chain <- MCChain
  BlockSize = 2
  Tiers <- NoTiers
  Prompt <- MCPrompt
  Output <- MCOutput
  MaxNumSeqs = 2
  MaxBatchedTokens = 4
  LongPrefillThreshold = 3
  EnableChunkedPrefill = FALSE
  ReserveFullISL = FALSE
  NumNpus = 1
  PrefillCaching = FALSE
  PrefillBlocks = 3
  PrefillStages = 2
  DecodeCaching = FALSE
  DecodeBlocks = 7
  DecodeStages = 2
INVARIANT PrefillLetsGo
CHECK_DEADLOCK FALSE
