-------------------------- MODULE MCWorkflowStart --------------------------
(* The instances of WorkflowStart that TLC checks.                         *)
EXTENDS WorkflowStart

MCAgentStatuses == {"processing", "insufficient"}
=============================================================================
