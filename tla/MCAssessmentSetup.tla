-------------------------- MODULE MCAssessmentSetup --------------------------
(* The instance of AssessmentSetup that TLC checks.                        *)
EXTENDS AssessmentSetup

MCAgentStatuses == {"processing"}

(* Two members of one group, the second of whom is no participant.         *)
MCMemberships == {<<"team", "ann">>, <<"team", "bob">>}
MCGroups == {"team"}
MCEmails == {"ann"}
=============================================================================
