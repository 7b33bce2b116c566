----------------------------- MODULE MCMachines -----------------------------
(***************************************************************************)
(* Instances of Machines: two layouts of the devices, the second of which  *)
(* drops a pool of the first, and a failure domain with one more network.  *)
(***************************************************************************)
EXTENDS Machines

Once(F)  == [f \in FaultKinds |-> IF f \in F THEN 1 ELSE 0]

Layouts  == {<<2>>, <<1>>}
Networks == <<0, 1>>

Mixed == { Once({"lag", "patch"}), Once({"lag", "claim"}), Once({"edit", "lag"}),
           Once({"override", "patch"}), Once({"crash"}) }
=============================================================================
