------------------------------ MODULE MCZones ------------------------------
(***************************************************************************)
(* Two zones of one failure domain; a control plane machine in the first   *)
(***************************************************************************)
EXTENDS DeploymentZones

InFirst == [m1 |-> "z1"]
=============================================================================
