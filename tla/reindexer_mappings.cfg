SPECIFICATION FairSpec
CONSTANTS
  a1 = a1
  t1 = t1
  t2 = t2
  EmptyName = ""
  IndicesNoTimestamp <- MCNoTimestamp
  IndicesWithTimestamp <- MCWithTimestamp
  Enabled = TRUE
  NumParallelWrites = 2
  BlockchainStartTime = 1
  Flags <- MCCopyMappings
  Doc <- MCDoc
  IndexOf <- MCIndexOf
  PageSize = 1
  Gated = {"accounts", "tokens"}
  Mutable = {}
  SourceStates <- MCSourceWithoutT2
  DestinationStates <- MCAnyDestination
  LaunchTime = 3
  MaxVersion = 2
  MaxTime = 3
  MaxFaults = 2
  MaxLate = 1
  MaxRuns = 2
CHECK_DEADLOCK FALSE
INVARIANTS
  NoOverwriteWithoutConsent
  CopiesBehindAlias
PROPERTY
  RunEnds
