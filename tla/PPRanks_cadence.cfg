CONSTANTS
  r1 = r1
  r2 = r2
  Rows = {r1, r2}
  Depth = 2
  NumSpec = 1
  MaxQuery = 2
  GenMod = 2
  Shapes <- MCShapes
  Hits <- MCHits
  ExactMirror = FALSE
  Cadence = TRUE
  DropFinishing = FALSE
SPECIFICATION Spec
SYMMETRY RowSymmetry
INVARIANT RanksInv
INVARIANT PositionsAgree
INVARIANT TokensAgree
INVARIANT AcceptedAgree
INVARIANT AlignExact
