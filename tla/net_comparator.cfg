SPECIFICATION Spec
CONSTANTS
  t1 = t1
  t2 = t2
  t3 = t3
  v1 = v1
  v2 = v2
  Absent = Absent
  Blank = Blank
  Tx <- MCTx
  Value <- MCValue
  Networks <- MCNetworks
  Numbers = {1, 2, 3, 4}
  Maximum = 3
  Low = 2
  Medium = 3
  MinRetries = 1
  MediumRetries = 2
  MaxRetries = 3
CHECK_DEADLOCK FALSE
INVARIANTS
  ReportIsTrue
PROPERTY
  ComparatorEnds
