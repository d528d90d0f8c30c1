SPECIFICATION FairCallSpec
CONSTANTS
  Kinds = {"deflate", "lz4", "frame"}
  NumTasks = 3
  Modulus = 6
  Faults = TRUE
INVARIANTS
  SuccessIsReal
  DestroyFreesOnce
PROPERTY CallReturns
