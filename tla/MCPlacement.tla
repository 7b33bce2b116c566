---------------------------- MODULE MCPlacement ----------------------------
(* Two MachineDeployments: d1 with a machine and its successor, d2 with    *)
(* one machine.                                                            *)
EXTENDS Placement, TLC

CONSTANTS d1, d2, m1, m2, m3

MCMDOf == (m1 :> d1) @@ (m2 :> d1) @@ (m3 :> d2)
=============================================================================
