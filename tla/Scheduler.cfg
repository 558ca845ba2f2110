SPECIFICATION FairSpec
CONSTANTS
  NoHash = NoHash
  EnableCaching = TRUE
  Hashes <- TierHashes
  Reqs <- TierReqs
  Chain <- TierChain
  BlockSize = 2
  NumBlocks = 6
  Tiers <- HostTier
  Prompt <- TierPrompt
  Output <- TierOutput
  MaxNumSeqs = 3
  MaxBatchedTokens = 6
  LongPrefillThreshold = 4
  EnableChunkedPrefill = TRUE
  ReserveFullISL = FALSE
  NumNpus = 2
  PPSize = 2
  PdType = "none"
INVARIANTS
  QueuesMatchStatus
  EachBatchOnce
  NothingLeaked
PROPERTIES
  KeepsManagerContract
  OldestNeverPreempted
  TokenFromInFlight
  EveryRequestFinishes
