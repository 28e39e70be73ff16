SPECIFICATION Spec
CONSTANTS
  Workflows = {w1}
  Participants = {p1}
  Questions = {q1, q2}
  Scores = {low}
  Attempts = {a1}
  GroupWrites = {}
  Reporters = {r1}
  NULL = NULL
INVARIANTS
  RepliesListTheDetails
