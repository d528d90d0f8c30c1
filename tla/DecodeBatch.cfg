SPECIFICATION FairSpec
CONSTANTS
  BatchSize = 4
  Faults = TRUE
INVARIANTS
  TypeOK
  LedgerExact
PROPERTY ImplementsOffload
