-------------------------- MODULE MCQuestionReview --------------------------
(* The instances of QuestionReview that TLC checks.                        *)
EXTENDS QuestionReview, TLC

MCAgentStatuses == {"question_generation"}

Symmetry == Permutations(Workflows) \cup Permutations(QuestionSets)
              \cup Permutations(Questions) \cup Permutations(Requests)
=============================================================================
