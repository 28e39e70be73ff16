SPECIFICATION Spec
CONSTANTS
  Workflows = {w1, w2}
  QuestionSets = {s1, s2}
  Questions = {q1, q2}
  Requests = {r1, r2}
  AgentStatuses <- MCAgentStatuses
  Times = {1, 2}
  NULL = NULL
SYMMETRY Symmetry
INVARIANTS
  OneConsistentApproval
  AnnouncedToTheReviewedWorkflow
  OnlyAFailureIsSilent
PROPERTIES
  VerdictsAreFinal
  RefinesReviewDecision
