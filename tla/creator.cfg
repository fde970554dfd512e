SPECIFICATION Spec
CONSTANTS
  i1 = i1
  i2 = i2
  Index <- MCIndex
  Enabled <- MCIndex
  WithPolicy <- MCIndex
  Policies = TRUE
  FoundNames <- NameStates
  MaxFaults = 2
  MaxRuns = 2
INVARIANTS
  PreparedOnSuccess
  PoliciesOnSuccess
  CreatedUnderTemplate
