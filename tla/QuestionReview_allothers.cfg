SPECIFICATION Spec
CONSTANTS
  Workflows = {w1}
  QuestionSets = {s1}
  Questions = {q1, q2}
  Requests = {r1}
  AgentStatuses <- MCAgentStatuses
  Times = {1}
  NULL = NULL
PROPERTIES
  OthersAutomaticallyApproved
