SPECIFICATION BulksSpec
CONSTANTS
  TokenID <- MCTokenID
  Form <- MCForm
  MaxNonce = 4
  TokenLists <- MCInputs
  BulkSizes <- MCBulkSizes
CHECK_DEADLOCK FALSE
INVARIANTS
  ListedAreDeleted
  OnlyListedOnce
  BulksAreFull
PROPERTY
  PackingEnds
