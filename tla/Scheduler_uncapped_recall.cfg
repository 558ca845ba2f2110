SPECIFICATION Spec
CONSTANTS
  NoHash = NoHash
  EnableCaching = TRUE
  Hashes <- TierHashes
  Reqs <- TierReqs
  Chain <- TierChain
  BlockSize = 2
  NumBlocks = 4
  Tiers <- HostTier
  Prompt <- AlignedPrompt
  Output <- TierOutput
  MaxNumSeqs = 2
  MaxBatchedTokens = 4
  LongPrefillThreshold = 0
  EnableChunkedPrefill = TRUE
  ReserveFullISL = FALSE
  NumNpus = 1
  PPSize = 1
  PdType = "none"
INVARIANTS
  HitLeavesOneToken
