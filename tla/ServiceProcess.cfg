SPECIFICATION FairSpec
CONSTANTS
  RestCalls = {r1, r2}
  GrpcCalls = {g1, g2}
  Lifespan = lifespan
  MaxSize = 2
  MaxBoots = 2
  MaxKey = 2
INVARIANTS
  StatementsHaveThePool
PROPERTIES
  RefusalsNeedARotation
  ShutdownEnds
CHECK_DEADLOCK FALSE
