CONSTANTS
  Reqs = {1, 2}
  Blocks = {1, 2, 3}
  Copies = FALSE
  MaxBatches = 2
  MaxSeq = 8
  Need <- MCNeed
  External <- MCLoaded
  Steps <- MCSteps
  Offer = TRUE
  Policies = {"recompute"}
  Delivery = TRUE
  ReserveFull = FALSE
  Rank <- MCRank
  Policy = "fcfs"
  MaxFaults = 2
SPECIFICATION OrderSpec
CHECK_DEADLOCK FALSE
PROPERTY LoadsResolve
