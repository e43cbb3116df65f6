CONSTANTS
  Reqs = {1, 2}
  Prompt <- MCMixed
  MaxTokens <- MCTwo
  Rank <- MCRank
  Policy = "fcfs"
  NumSpec = 2
  MaxScheduled = 6
  MaxBatched = 10
  DraftSlots = 2
  MaxRunning = 2
  MaxModelLen = 7
  PPSize = 3
  MaxBatches = 4
  PadNewReqs = TRUE
  AlignedSplit = TRUE
  KVDelivery = TRUE
  KVBlock = 2
  NumBlocks = 6
  LookaheadSlots = 1
  Hits = {0, 2}
  EarlyStop = TRUE
  Controls = {"abort", "reset", "pause"}
  MaxControls = 1
  BlockSize = 4
  HashBlock = 2
  PartialHits = TRUE
  ChunkLimit = 4
  UseEagle = TRUE
  Lookahead = 1
SPECIFICATION Spec
CHECK_DEADLOCK FALSE
INVARIANT TypeOK
INVARIANT CountersExact
INVARIANT SlotsCovered
INVARIANT StaleExact
INVARIANT StepsFitRanks
INVARIANT DecodesApart
PROPERTY ServedInOrder
PROPERTY ServedAtLast
