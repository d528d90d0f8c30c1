SPECIFICATION FairSpec
CONSTANTS
  N = 3
  Expected <- MCExpected
  Osds = {o1, o2}
  MaxFaults = 2
INVARIANTS
  TypeOK
  RowsAreMeasured
  VerdictHonest
  ExitRestores
PROPERTY Completes
