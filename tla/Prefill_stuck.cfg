CONSTANTS
  BlockSize = 4
  HashBlock = 4
  PartialHits = FALSE
  ChunkLimit = 6
  UseEagle = TRUE
  Lookahead = 3
  MaxPrompt = 13
  MaxReplay = 2
SPECIFICATION Spec
CHECK_DEADLOCK FALSE
PROPERTY PrefillCompletes
