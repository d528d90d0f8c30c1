SPECIFICATION FairSpec
CONSTANTS
  BatchSize = 4
  Faults = TRUE
INVARIANTS
  TypeOK
  NeverOvercounts
  CountReleasesLoop
PROPERTIES
  SubmittedOnce
  FinishedIsDelivered
  StopReachesIdle
