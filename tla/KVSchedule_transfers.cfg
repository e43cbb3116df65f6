CONSTANTS
  Reqs = {1, 2}
  Blocks = {1, 2, 3}
  Copies = TRUE
  MaxBatches = 2
  MaxSeq = 8
  Need <- MCNeed
  External <- MCLoaded
  Steps <- MCSteps
  Offer = FALSE
  Policies = {"recompute", "fail"}
  Delivery = TRUE
  ReserveFull = FALSE
  Rank <- MCRank
  Policy = "fcfs"
  MaxFaults = 2
SPECIFICATION OrderSpec
CHECK_DEADLOCK FALSE
INVARIANT FenceInv
INVARIANT PoolUnused
INVARIANT LoadsAlone
INVARIANT ComputedValid
INVARIANT NoneLost
 
PROPERTY BlocksReturn
