CONSTANTS
  r1 = r1
  r2 = r2
  Rows = {r1}
  Depth = 3
  NumSpec = 2
  MaxQuery = 3
  GenMod = 3
  Shapes <- MCLong
  Hits <- MCAnyHit
  ExactMirror = TRUE
  Cadence = FALSE
  DropFinishing = FALSE
SPECIFICATION Spec
INVARIANT TypeOK
INVARIANT PositionsAgree
INVARIANT AlignExact
