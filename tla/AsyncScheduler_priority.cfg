CONSTANTS
  Reqs = {1, 2, 3}
  Prompt <- MCPrompt
  MaxTokens <- MCThree
  Rank <- MCUrgent
  Policy = "priority"
  NumSpec = 1
  MaxScheduled = 5
  MaxBatched = 8
  DraftSlots = 1
  MaxRunning = 3
  MaxModelLen = 6
  PPSize = 2
  MaxBatches = 3
  PadNewReqs = FALSE
  AlignedSplit = FALSE
  KVDelivery = FALSE
  KVBlock = 2
  NumBlocks = 6
  LookaheadSlots = 1
  Hits = {0}
  EarlyStop = FALSE
  Controls = {}
  MaxControls = 0
  BlockSize = 2
  HashBlock = 2
  PartialHits = FALSE
  ChunkLimit = 5
  UseEagle = FALSE
  Lookahead = 1
SPECIFICATION Spec
CHECK_DEADLOCK FALSE
INVARIANT BudgetsExact
INVARIANT NoneOmitted
INVARIANT QueuesExact
PROPERTY ServedInOrder
PROPERTY ServedAtLast
