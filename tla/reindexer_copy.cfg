SPECIFICATION Spec
CONSTANTS
  a1 = a1
  t1 = t1
  t2 = t2
  EmptyName = ""
  IndicesNoTimestamp <- MCNoTimestamp
  IndicesWithTimestamp <- MCWithTimestamp
  Enabled = TRUE
  NumParallelWrites = 2
  BlockchainStartTime = 1
  Flags <- MCSkipOnly
  Doc <- MCDoc
  IndexOf <- MCIndexOf
  PageSize = 1
  Gated = {"accounts"}
  Mutable = {a1, t1}
  SourceStates <- MCSourceWithoutT2
  DestinationStates <- MCPrepared
  LaunchTime = 3
  MaxVersion = 3
  MaxTime = 4
  MaxFaults = 1
  MaxLate = 1
  MaxRuns = 2
CHECK_DEADLOCK FALSE
PROPERTY
  ImplementsCopyService
  NoStaleOverwrite
INVARIANTS
  JobCopiesItsShare
  CompleteOnSuccess
