--------------------------- MODULE ManagedMachine ---------------------------
(***************************************************************************)
(* What CAPV promises about a virtual machine and the VSphereVM object     *)
(* that stands for it.                                                     *)
(*                                                                         *)
(* The object is taken into care (its finalizer) before anything is done   *)
(* in vCenter.  From then on there is at most one operation in flight; the *)
(* machine comes into being by a clone, once, and goes by a destroy, which *)
(* is started only after a deletion was requested.  The object goes when   *)
(* the machine is gone, or never came, and nothing is in flight.           *)
(***************************************************************************)

CONSTANT Kinds      \* kinds of operations, "clone" and "destroy" among them

VARIABLES
    object,         \* "free" of the finalizer, "held" by it, or "gone"
    doomed,         \* the deletion of the object was requested
    machine,        \* "none" yet, "there", or "destroyed"
    task            \* the operation in flight, or "none"

vars == <<object, doomed, machine, task>>

Init == object = "free" /\ doomed = FALSE /\ machine = "none" /\ task = "none"

Hold ==
    /\ object = "free"
    /\ object' = "held"
    /\ UNCHANGED <<doomed, machine, task>>

\* An object nobody holds goes at once
Delete ==
    /\ object # "gone" /\ ~doomed
    /\ doomed' = TRUE
    /\ object' = IF object = "held" THEN "held" ELSE "gone"
    /\ UNCHANGED <<machine, task>>

Start(kind) ==
    /\ object = "held" /\ task = "none"
    /\ machine = IF kind = "clone" THEN "none" ELSE "there"
    /\ kind = "destroy" => doomed
    /\ task' = kind
    /\ UNCHANGED <<object, doomed, machine>>

Succeed ==
    /\ task # "none"
    /\ machine' = CASE task = "clone"   -> "there"
                    [] task = "destroy" -> "destroyed"
                    [] OTHER            -> machine
    /\ task' = "none"
    /\ UNCHANGED <<object, doomed>>

Fail ==
    /\ task # "none"
    /\ task' = "none"
    /\ UNCHANGED <<object, doomed, machine>>

Release ==
    /\ object = "held" /\ doomed /\ machine # "there" /\ task = "none"
    /\ object' = "gone"
    /\ UNCHANGED <<doomed, machine, task>>

Next == Hold \/ Delete \/ Succeed \/ Fail \/ Release \/ \E kind \in Kinds : Start(kind)

Spec == Init /\ [][Next]_vars
=============================================================================
