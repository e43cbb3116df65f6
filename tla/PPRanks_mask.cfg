CONSTANTS
  r1 = r1
  r2 = r2
  Rows = {r1}
  Depth = 2
  NumSpec = 2
  MaxQuery = 3
  GenMod = 2
  Shapes <- MCOneToken
  Hits <- MCHits
  ExactMirror = FALSE
  Cadence = TRUE
  DropFinishing = TRUE
SPECIFICATION Spec

INVARIANT PositionsAgree
