SPECIFICATION Spec
CONSTANTS
  NoHash = NoHash
  EnableCaching = TRUE
  Hashes <- MCHashes
  Reqs <- MCReqs
  Chain <- MCChain
  BlockSize = 2
  NumBlocks = 3
  Tiers <- TwoTiers
  Prompt <- MCPrompt
  Output <- MCOutput
INVARIANTS
  NpuPoolOK
  RefCountIsSharers
  TableHoldsOwnPrefix
  TableCoversGrant
  NeverRaises
PROPERTIES
  PinnedKeepsContent
  WrittenDown
