-------------------------- MODULE MCServiceProcess --------------------------
(* The instance of ServiceProcess that TLC checks.                         *)
EXTENDS ServiceProcess
=============================================================================
