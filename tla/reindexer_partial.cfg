SPECIFICATION Spec
CONSTANTS
  a1 = a1
  t1 = t1
  t2 = t2
  EmptyName = ""
  IndicesNoTimestamp <- MCNoTimestamp
  IndicesWithTimestamp <- MCWithTimestamp
  Enabled = TRUE
  NumParallelWrites = 2
  BlockchainStartTime = 1
  Flags <- MCSkipMappings
  Doc <- MCDoc
  IndexOf <- MCIndexOf
  PageSize = 1
  Gated = {"accounts", "tokens"}
  Mutable = {}
  SourceStates <- MCSource
  DestinationStates <- MCPrepared
  LaunchTime = 3
  MaxVersion = 3
  MaxTime = 4
  MaxFaults = 1
  MaxLate = 0
  MaxRuns = 1
CHECK_DEADLOCK FALSE
INVARIANT
  PartialAnswersNoticed
