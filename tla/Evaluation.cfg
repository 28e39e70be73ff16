SPECIFICATION Spec
CONSTANTS
  Workflows = {w1, w2}
  Participants = {p1, p2}
  Questions = {q1, q2}
  Scores = {low, high}
  Attempts = {a1, a2}
  GroupWrites = {g1, g2}
  Reporters = {r1}
  NULL = NULL
SYMMETRY EvaluationSymmetry
INVARIANTS
  CompletedIsWhole
  MembersHaveTheGroupScore
  ListedScoresAreCurrent
PROPERTIES
  RefinesMarking
