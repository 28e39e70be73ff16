----------------------------- MODULE MCMaterials -----------------------------
(* The instance of Materials that TLC checks.                              *)
EXTENDS Materials
=============================================================================
