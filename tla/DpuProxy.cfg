SPECIFICATION FairSpec
CONSTANTS
  Paths = {"ecBatch", "hash", "ecOne"}
  BatchSize = 4
  Modulus = 8
  Faults = TRUE
INVARIANTS
  TypeOK
  LedgerExact
  ResultIsReal
PROPERTY ImplementsOffload
