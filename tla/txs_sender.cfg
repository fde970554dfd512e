SPECIFICATION Spec
CONSTANTS
  a = a
  b = b
  NoFile = NoFile
  Bad = Bad
  Shard <- MCShard
  Account <- MCAccount
  PemDirs <- MCPemDirs
  Inputs <- MCInputs
  WaitTime = 1
  MaxRuns = 2
  MaxSends = 2
  MaxForeign = 1
CHECK_DEADLOCK FALSE
INVARIANTS
  SentAreExecuted
  SentInTurn
  CreatedOnSuccess
PROPERTY
  SenderEnds
