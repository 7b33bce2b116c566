---------------------------- MODULE MCVSphereVM ----------------------------
(***************************************************************************)
(* Instances of VSphereVM: a run picks the faults that may strike.         *)
(***************************************************************************)
EXTENDS VSphereVMSafety

Once(F)  == [f \in FaultKinds |-> IF f \in F THEN 1 ELSE 0]

Ordinary   == {Once({"taskError"}), Once({"rpc"}), Once({"purge"})}
Disturbed  == {Once({"patch", "vanish"})}
Delayed    == {Once({"taskError"}), Once({"lookup"}), Once({"crash"})}

\* MaxTasks is no limit: a task number is always left
TasksSuffice == \E t \in Task : tasks[t].st = "none"
=============================================================================
