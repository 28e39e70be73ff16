-------------------------- MODULE MCParticipation --------------------------
(* The instances of Participation that TLC checks.                         *)
EXTENDS Participation, TLC

MCAgentStatuses == {"evaluating"}

ParticipationSymmetry ==
  Permutations(Participants) \cup Permutations(Questions)
    \cup Permutations(Invites) \cup Permutations(Accesses) \cup Permutations(Submits)
=============================================================================
