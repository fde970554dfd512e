SPECIFICATION Spec
CONSTANTS
  p1 = p1
  p2 = p2
  p3 = p3
  Path <- MCPath
  Key = {k1, k2}
  Value <- MCValue
  NoValue = NoValue
  Contents <- MCContents
  MinSources = 2
  MaxSources = 3
  MaxRuns = 1
INVARIANT
  ReadErrorsReported
