-------------------------- MODULE MCClusterModules --------------------------
(***************************************************************************)
(* A control plane, a MachineDeployment and one without cluster modules    *)
(***************************************************************************)
EXTENDS ClusterModules

Distinct == [kcp |-> "a", md |-> "b", other |-> "c"]

VMOwner == [v1 |-> "kcp", v2 |-> "md"]

\* MaxModules is no limit: a UUID is always left
ModulesSuffice == \A m \in modules \cup api.mods : m.id < MaxModules
=============================================================================
