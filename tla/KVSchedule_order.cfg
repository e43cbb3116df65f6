CONSTANTS
  Reqs = {1, 2}
  Blocks = {1, 2, 3}
  Copies = FALSE
  MaxBatches = 2
  MaxSeq = 8
  Need <- MCNeed
  External <- MCLoaded
  Steps <- MCSteps
  Offer = FALSE
  Policies = {"recompute"}
  Delivery = TRUE
  ReserveFull = FALSE
  Rank <- MCUrgent
  Policy = "priority"
  MaxFaults = 0
SPECIFICATION OrderSpec
CHECK_DEADLOCK FALSE
PROPERTY LoadsResolve
