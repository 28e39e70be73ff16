---------------------------- MODULE MCEvaluation ----------------------------
(* The instances of Evaluation that TLC checks.                            *)
EXTENDS Evaluation, TLC

EvaluationSymmetry ==
  Permutations(Workflows) \cup Permutations(Participants) \cup Permutations(Questions)
    \cup Permutations(Scores) \cup Permutations(Attempts)
    \cup Permutations(GroupWrites) \cup Permutations(Reporters)
=============================================================================
