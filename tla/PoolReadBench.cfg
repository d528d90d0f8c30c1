SPECIFICATION PoolSpec
CONSTANTS
  Files = 2
  MaxSize = 3
  ChunkUnits = 2
  ReadRounds = 2
  MaxRuns = 2
  MaxFaults = 2
INVARIANTS
  PoolTypeOK
  ReadsEveryFile
  RaisesForAReason
