SPECIFICATION Spec
CONSTANTS
  RestStarts = {r1, r2}
  GrpcStarts = {}
  AgentStatuses <- MCAgentStatuses
  NULL = NULL
INVARIANTS
  SecondStartIsRefused
CHECK_DEADLOCK FALSE
