SPECIFICATION Spec
CONSTANTS
  Versions = {1, 2}
  ObjectUnits = 2
  MaxUnits = 3
  Rounds = 1
INVARIANTS
  TypeOK
  ManifestCovered
  RawPassIsComplete
  SummaryIsFair
