CONSTANTS
  BlockSize = 4
  HashBlock = 2
  PartialHits = TRUE
  ChunkLimit = 10
  UseEagle = TRUE
  Lookahead = 1
  MaxPrompt = 15
  MaxReplay = 2
SPECIFICATION Spec
CHECK_DEADLOCK FALSE
INVARIANT ChunkEndsAligned
INVARIANT NoBoundaryJumped
PROPERTY PrefillCompletes
