------------------------------ MODULE PowerOff ------------------------------
(***************************************************************************)
(* The power off part of VMService.DestroyVM with clock time: a reconcile  *)
(* of a VSphereVM that is being deleted turns a running machine off, hard  *)
(* or by asking the guest, and waits as Spec.PowerOffMode and              *)
(* Spec.GuestSoftPowerOffTimeoutSeconds say.                               *)
(*                                                                         *)
(* The clock shows only as the age of the condition, in seconds, up to     *)
(* MaxAge.  A Go time.Duration is a pair of seconds and nanoseconds,       *)
(* because the two ways the code computes the timeout differ in exactly    *)
(* that.  A suspended machine is treated like one that is off.             *)
(***************************************************************************)
EXTENDS Naturals, PowerOps

CONSTANTS
    Modes,      \* values of Spec.PowerOffMode to consider
    Timeouts,   \* values of Spec.GuestSoftPowerOffTimeoutSeconds, 0: omitted
    Tick,       \* seconds between two readings of the clock
    MaxAge      \* the age beyond which a condition no longer ages

ASSUME PowerOffAssumption ==
    /\ Modes \subseteq PowerOpModes
    /\ Timeouts \subseteq Nat
    /\ Tick \in Nat \ {0} /\ MaxAge \in Nat

VARIABLES
    mode,       \* Spec.PowerOffMode
    timeout,    \* Spec.GuestSoftPowerOffTimeoutSeconds
    cond,       \* the GuestSoftPowerOffSucceeded condition
    age,        \* seconds since its LastTransitionTime
    power       \* the machine: "on", "off", or "cut" by a hard power off

vars == <<mode, timeout, cond, age, power>>

TypeOK ==
    /\ mode \in Modes /\ timeout \in Timeouts
    /\ cond \in SoftPowerOffConditions /\ age \in 0 .. MaxAge
    /\ power \in {"on", "off", "cut"}

Init ==
    /\ mode \in Modes /\ timeout \in Timeouts
    /\ cond = "none" /\ age = 0
    /\ power = "on"

\* api/govmomi/v1beta2/vspherevm_types.go
GuestSoftPowerOffDefaultTimeoutSeconds == 5 * 60

\* A Go duration of so many seconds and nanoseconds
Duration(s, ns) == [s |-> s, ns |-> ns]
AtLeast(d, e)   == d.s > e.s \/ (d.s = e.s /\ d.ns >= e.ns)

\* Faulty variant of Timeout: the configured seconds are taken for nanoseconds
TimeoutWithoutUnit == Duration(0, timeout)

\* The default is assigned to the duration without a unit, an explicit value
\* is multiplied with time.Second.
Timeout == IF timeout # 0
           THEN Duration(timeout, 0)
           ELSE Duration(0, GuestSoftPowerOffDefaultTimeoutSeconds)

\* Faulty variant of Exceeded: the timeout is applied to the wrong mode
ExceededInSoftMode ==
    /\ cond # "none" /\ mode = "soft"
    /\ AtLeast(Duration(age, 0), Timeout)

Exceeded ==
    /\ cond # "none" /\ mode # "soft"
    /\ Timeout # Duration(0, 0)
    /\ AtLeast(Duration(age, 0), Timeout)

\* One reconcile: triggerSoftPowerOff, then PowerOff unless it is pending;
\* a machine that is off has its condition set to True.
Destroy ==
    /\ \/ /\ power = "on"
          /\ \E tools \in BOOLEAN :
               LET r == TriggerSoftPowerOff(mode, cond, Exceeded, tools)
               IN  cond' = r.cond /\ power' = IF r.pending THEN "on" ELSE "cut"
       \/ /\ power # "on" /\ cond # "none"
          /\ cond' = "succeeded" /\ UNCHANGED power
    /\ age' = IF cond' # cond THEN 0 ELSE age
    /\ UNCHANGED <<mode, timeout>>

\* The guest that was asked shuts down
GuestHalts ==
    /\ power = "on" /\ cond = "inProgress"
    /\ power' = "off"
    /\ UNCHANGED <<mode, timeout, cond, age>>

ClockTicks ==
    /\ cond # "none" /\ age + Tick <= MaxAge
    /\ age' = age + Tick
    /\ UNCHANGED <<mode, timeout, cond, power>>

Next == Destroy \/ GuestHalts \/ ClockTicks

Spec == Init /\ [][Next]_vars

\* The object is requeued every 20 seconds and the clock goes on; whether the
\* guest complies is up to the guest
FairSpec == Spec /\ WF_vars(Destroy) /\ WF_vars(ClockTicks)

-----------------------------------------------------------------------------
\* vspherevm_types.go:214: the guest that was asked to shut down has the
\* configured time, five minutes if none is configured, before the power is cut
DocumentedTimeout == IF timeout # 0 THEN timeout ELSE 5 * 60

GuestGetsItsTime ==
    [][ power = "on" /\ power' = "cut" /\ cond = "inProgress"
          => age >= DocumentedTimeout ]_vars

\* power.go:59: in soft mode the power is never cut, however long it takes
SoftNeverCuts == mode = "soft" => power # "cut"

\* service.go:261: in every mode but soft, which waits for ever, the machine is off
\* in the end, whether or not the guest and its tools respond
TurnsOff == mode # "soft" ~> power # "on"
=============================================================================
