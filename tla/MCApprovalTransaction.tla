----------------------- MODULE MCApprovalTransaction -----------------------
(* The instance of ApprovalTransaction that TLC checks.                    *)
EXTENDS ApprovalTransaction
=============================================================================
