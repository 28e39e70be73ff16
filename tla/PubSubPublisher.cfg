SPECIFICATION FairSpec
CONSTANTS
  Calls = {c1, c2}
  MaxRetries <- MCMaxRetries
  MaxEventIds = 4
INVARIANTS
  DeduplicableByEventId
  AttemptsAreSpent
PROPERTIES
  RefinesPublication
  CallsEnd
CHECK_DEADLOCK FALSE
