CONSTANTS
  Depth = 2
  NumSpec = 2
  Relay = TRUE
  Modes = {FALSE, TRUE}
  Ple = TRUE
  Pool = 3
  MaxBatches = 3
  MaxStep = 4
SPECIFICATION Spec
CHECK_DEADLOCK FALSE
INVARIANT Paired
INVARIANT ReadsArrived
INVARIANT TablesOwn
INVARIANT StagedOwn
INVARIANT QueueRoom
PROPERTY StepsProcessed
