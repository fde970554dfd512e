SPECIFICATION Spec
CONSTANTS
  s0 = s0
  s1 = s1
  meta = meta
  root = root
  root2 = root2
  a = a
  b = b
  code = code
  t = t
  u = u
  v = v
  k = k
  Flat = Flat
  Lost = Lost
  V1 = V1
  Garbage = Garbage
  NoByte = NoByte
  AnyShard = AnyShard
  Db <- MCDb
  Node <- MCNode
  Databases <- MCDatabases
  MaxDirs = 3
  Cap = 1
  Account <- MCAccount
  Item <- MCItem
  Shard = s0
  MainRoot = root
  Main <- MCMain
  Data <- MCData
  Esdt <- MCEsdt
  TokenName <- MCTokenName
  Meta = meta
  RootOf <- MCRootOf
  Esdts <- MCEsdts
  Type <- MCType
  Fungible = "fungible"
  Declared <- MCDeclared
  Byte <- MCByte
  TypeOfByte <- MCTypeOfByte
  Stored <- MCStored
  Chain = s0
  Epoch = 1
  Root <- MCRoot
  LeavesOf <- MCLeavesOf
  User <- MCAccount
  Contract = {a}
  Zero <- MCZero
  Projected <- MCProjected
  Block <- MCBlock
  Options <- MCOptions
  MaxExports = 1
CHECK_DEADLOCK FALSE
INVARIANTS
  SuccessIsComplete
  MissingIsNowhere
  TypesAreCompared
  BestBlockIsExported
  MetadataMatchesBalances
PROPERTY
  ToolEnds
