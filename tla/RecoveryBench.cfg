SPECIFICATION Spec
CONSTANTS
  Configs = 2
  MaxFaults = 2
INVARIANTS
  TypeOK
  DurationCovers
  OsdsBackIn
  ReportsAreRecoveries
