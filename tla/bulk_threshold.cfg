SPECIFICATION Spec
CONSTANTS
  d1 = d1
  d2 = d2
  d3 = d3
  Id <- MCId
  MetaLen <- MCMetaLen
  SourceLens <- MCSourceLens
  Threshold = 8
  MaxHits = 2
CHECK_DEADLOCK FALSE
INVARIANT
  RequestsWithinThreshold
