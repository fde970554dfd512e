SPECIFICATION Spec
CONSTANTS
  i1 = i1
  i2 = i2
  Index <- MCIndex
  Enabled <- MCIndex
  WithPolicy <- MCIndex
  Policies = TRUE
  FoundNames <- MCNothing
  MaxFaults = 1
  MaxRuns = 2
INVARIANT
  QuietRunSucceeds
