SPECIFICATION FairSpec
CONSTANTS
  Iterations = 2
  Faults = TRUE
INVARIANTS
  TypeOK
  OwnCompletion
  OverallPassIsReal
  HealthyCasesPass
PROPERTY VerdictReached
