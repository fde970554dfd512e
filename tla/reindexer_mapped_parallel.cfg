SPECIFICATION Spec
CONSTANTS
  a1 = a1
  t1 = t1
  t2 = t2
  EmptyName = ""
  IndicesNoTimestamp <- MCNoTimestamp
  IndicesWithTimestamp <- MCWithTimestamp
  Enabled = TRUE
  NumParallelWrites = 2
  BlockchainStartTime = 1
  Flags <- MCPlain
  Doc <- MCDoc
  IndexOf <- MCIndexOf
  PageSize = 1
  Gated = {"accounts", "tokens"}
  Mutable = {}
  SourceStates <- MCSource
  DestinationStates <- MCEmpty
  LaunchTime = 3
  MaxVersion = 2
  MaxTime = 3
  MaxFaults = 0
  MaxLate = 0
  MaxRuns = 1
CHECK_DEADLOCK FALSE
INVARIANT
  MappedRunCopiesAll
