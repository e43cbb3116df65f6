CONSTANTS
  NumSpec = 3
  Modes <- MCModes
  RejectUnproposed = TRUE
  MaxPrefill = 2
  MaxKnown = 7
SPECIFICATION Spec
INVARIANT FreshKeys
INVARIANT DraftsOwn
INVARIANT SamplerInv
