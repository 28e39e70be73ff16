SPECIFICATION Spec
CONSTANTS
  Participants = {p1, p2}
  Questions = {q1, q2}
  Contents = {c1}
  Invites = {i1}
  Accesses = {a1}
  Submits = {s1, s2}
  AgentStatuses <- MCAgentStatuses
  Deadline = 0
  MaxTime = 1
  NULL = NULL
SYMMETRY ParticipationSymmetry
INVARIANTS
  InvitationsAreComplete
  AcceptedHasSubmission
  AnswersAndStatusTogether
  CompletionFollowsAnswers
PROPERTIES
  SubmittedIsForGood
  RefinesSubmissionLifecycle
