SPECIFICATION FairSpec
CONSTANTS
  BatchSize = 4
  Modulus = 8
  Faults = TRUE
INVARIANTS
  TypeOK
  CountExact
PROPERTY WaitEnds
