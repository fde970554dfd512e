SPECIFICATION Spec
CONSTANTS
  a = a
  b = b
  t = t
  u = u
  v = v
  f = f
  System = System
  Token <- MCToken
  Account <- MCAccount
  Shard <- MCShard
  ShardOf <- MCShardOf
  HasNonce <- MCHasNonce
  Worlds <- MCWorlds
  BulkSize = 2
  MaxRetrials = 2
  PageSize = 2
  MaxMoves = 2
  MaxFiles = 3
CHECK_DEADLOCK FALSE
INVARIANTS
  ExportedInNoAccount
  HeldTokensNotExported
  AllTokensAsked
  SanityMeansDoubleFile
PROPERTY
  CheckEnds
