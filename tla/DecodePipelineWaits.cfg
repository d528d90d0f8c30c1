SPECIFICATION FairSpec
CONSTANTS
  BatchSize = 4
  Faults = FALSE
INVARIANT WaitsForAllTasks
