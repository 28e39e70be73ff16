SPECIFICATION FairSpec
CONSTANTS
  Requests = {r1, r2}
  Questions = {q1, q2, q3}
  NULL = NULL
INVARIANTS
  SomebodyWins
  WaitsEndInACycle
PROPERTIES
  TransactionsEnd
  StepsOfTheReview
CHECK_DEADLOCK FALSE
