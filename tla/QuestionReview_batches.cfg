SPECIFICATION Spec
CONSTANTS
  Workflows = {w1, w2}
  QuestionSets = {s1}
  Questions = {q1, q2}
  Requests = {r1, r2}
  AgentStatuses <- MCAgentStatuses
  Times = {1, 2}
  NULL = NULL
SYMMETRY Symmetry
INVARIANTS
  RemovedNeverApproved
  PaperInOrder
PROPERTIES
  NoneLeftUndecided
  LateApprovalsLeaveTheStatus
