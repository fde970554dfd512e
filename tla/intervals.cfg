SPECIFICATION LoopSpec
CONSTANTS
  MaxEnd = 12
  MaxWrites = 5
CHECK_DEADLOCK FALSE
INVARIANTS
  SpanIsShared
  OverlapIsABoundary
  LoopComputesIntervals
