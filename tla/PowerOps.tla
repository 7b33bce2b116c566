------------------------------ MODULE PowerOps ------------------------------
(***************************************************************************)
(* The decision of pkg/services/govmomi/power.go: how the controller turns *)
(* a running virtual machine off before it destroys it.                    *)
(***************************************************************************)

\* Spec.PowerOffMode; the empty value means hard
PowerOpModes == {"hard", "soft", "trySoft"}

\* The GuestSoftPowerOffSucceeded condition: not set, False because the guest
\* was asked to shut down, the same once the timeout has passed, False because
\* the guest cannot be asked, True
SoftPowerOffConditions == {"none", "inProgress", "overdue", "failed", "succeeded"}

\* triggerSoftPowerOff: whether to wait for the guest, the condition it leaves
\* and whether the guest is asked to shut down now.  "tools" holds when VMware
\* Tools run and the guest supports a state change; "exceeded" is the result of
\* isSoftPowerOffTimeoutExceeded.
TriggerSoftPowerOff(mode, cond, exceeded, tools) ==
    CASE mode = "hard" ->
           [pending |-> FALSE, cond |-> cond, shutdown |-> FALSE]
      [] mode # "hard" /\ cond # "none" ->
           [pending |-> mode = "soft" \/ ~exceeded, cond |-> cond, shutdown |-> FALSE]
      [] mode = "trySoft" /\ cond = "none" /\ ~tools ->
           [pending |-> FALSE, cond |-> cond, shutdown |-> FALSE]
      [] mode = "soft" /\ cond = "none" /\ ~tools ->
           [pending |-> TRUE, cond |-> "failed", shutdown |-> FALSE]
      [] mode # "hard" /\ cond = "none" /\ tools ->
           [pending |-> TRUE, cond |-> "inProgress", shutdown |-> TRUE]
=============================================================================
