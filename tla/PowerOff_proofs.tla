--------------------------- MODULE PowerOff_proofs ---------------------------
(***************************************************************************)
(* Theorems about PowerOff for every set of modes and timeouts.            *)
(***************************************************************************)
EXTENDS PowerOff, TLAPS

\* In hard mode the guest is never asked
PowerInv == /\ TypeOK /\ SoftNeverCuts
            /\ mode = "hard" => cond = "none"

\* What triggerSoftPowerOff answers in each mode
LEMMA Trigger ==
    ASSUME NEW m \in PowerOpModes, NEW c \in SoftPowerOffConditions,
           NEW exceeded \in BOOLEAN, NEW tools \in BOOLEAN
    PROVE  LET r == TriggerSoftPowerOff(m, c, exceeded, tools)
           IN  /\ r.cond \in SoftPowerOffConditions
               /\ m = "soft" => r.pending
               /\ m = "hard" => r.cond = c
               /\ m = "trySoft" /\ c # "none" /\ ~exceeded => r.pending
  <1>1. CASE m = "hard"
    BY <1>1 DEF TriggerSoftPowerOff
  <1>2. CASE m # "hard" /\ c # "none"
    BY <1>2 DEF TriggerSoftPowerOff
  <1>3. CASE m = "trySoft" /\ c = "none" /\ ~tools
    BY <1>3 DEF TriggerSoftPowerOff
  <1>4. CASE m = "soft" /\ c = "none" /\ ~tools
    BY <1>4 DEF TriggerSoftPowerOff, SoftPowerOffConditions
  <1>5. CASE m # "hard" /\ c = "none" /\ tools
    BY <1>5 DEF TriggerSoftPowerOff, SoftPowerOffConditions
  <1> QED BY <1>1, <1>2, <1>3, <1>4, <1>5 DEF PowerOpModes

\* The invariant of the power off holds at first
LEMMA PowerInit == Init => PowerInv
  BY PowerOffAssumption
  DEF PowerOffAssumption, Init, PowerInv, TypeOK, SoftNeverCuts, SoftPowerOffConditions

\* and after every step
LEMMA PowerStep == PowerInv /\ [Next]_vars => PowerInv'
  <1> SUFFICES ASSUME PowerInv, [Next]_vars PROVE PowerInv'
    OBVIOUS
  <1> USE DEF PowerInv, TypeOK, SoftNeverCuts
  <1>m. mode \in PowerOpModes
    BY PowerOffAssumption DEF PowerOffAssumption
  <1>e. Exceeded \in BOOLEAN
    BY DEF Exceeded
  <1>1. ASSUME power = "on", NEW tools \in BOOLEAN, Destroy,
               LET r == TriggerSoftPowerOff(mode, cond, Exceeded, tools)
               IN  cond' = r.cond /\ power' = IF r.pending THEN "on" ELSE "cut"
        PROVE  PowerInv'
    <2>1. age' \in 0 .. MaxAge /\ UNCHANGED <<mode, timeout>>
      BY <1>1, PowerOffAssumption DEF PowerOffAssumption, Destroy
    <2> DEFINE r == TriggerSoftPowerOff(mode, cond, Exceeded, tools)
    <2>2. /\ r.cond \in SoftPowerOffConditions
          /\ mode = "soft" => r.pending
          /\ mode = "hard" => r.cond = cond
      BY <1>m, <1>e, Trigger
    <2>3. cond' = r.cond /\ power' = IF r.pending THEN "on" ELSE "cut"
      BY <1>1
    <2> HIDE DEF r
    <2> QED BY <2>1, <2>2, <2>3
  <1>2. CASE Destroy /\ power = "on"
    BY <1>1, <1>2 DEF Destroy
  <1>3. CASE Destroy /\ power # "on"
    BY <1>3, PowerOffAssumption DEF PowerOffAssumption, Destroy, SoftPowerOffConditions
  <1>4. CASE GuestHalts
    BY <1>4 DEF GuestHalts
  <1>5. CASE ClockTicks
    BY <1>5, PowerOffAssumption DEF PowerOffAssumption, ClockTicks
  <1>6. CASE UNCHANGED vars
    BY <1>6 DEF vars
  <1> QED BY <1>2, <1>3, <1>4, <1>5, <1>6 DEF Next

\* In soft mode DestroyVM never cuts the power, for any timeout and whether or
\* not the guest can be asked to shut down.
THEOREM SoftWaits == Spec => []SoftNeverCuts
  <1>1. Init => PowerInv
    BY PowerInit
  <1>2. PowerInv /\ [Next]_vars => PowerInv'
    BY PowerStep
  <1>3. PowerInv => SoftNeverCuts
    BY DEF PowerInv
  <1> QED BY <1>1, <1>2, <1>3, PTL DEF Spec

\* A guest that was asked to shut down has the configured time before the
\* power is cut, for every timeout that is configured explicitly.
THEOREM ConfiguredTimeoutKept == 0 \notin Timeouts => (Spec => GuestGetsItsTime)
  <1> SUFFICES ASSUME 0 \notin Timeouts PROVE Spec => GuestGetsItsTime
    OBVIOUS
  <1>1. Init => PowerInv
    BY PowerInit
  <1>2. PowerInv /\ [Next]_vars => PowerInv'
    BY PowerStep
  <1>3. ASSUME PowerInv, Next, power = "on", power' = "cut", cond = "inProgress"
        PROVE  age >= DocumentedTimeout
    <2>1. PICK tools \in BOOLEAN : ~TriggerSoftPowerOff(mode, cond, Exceeded, tools).pending
      BY <1>3 DEF Next, Destroy, GuestHalts, ClockTicks
    <2>2. mode \in PowerOpModes /\ cond \in SoftPowerOffConditions /\ Exceeded \in BOOLEAN
      BY <1>3, PowerOffAssumption DEF PowerOffAssumption, PowerInv, TypeOK, Exceeded
    <2>3. mode # "hard" /\ cond # "none"
      BY <1>3 DEF PowerInv
    <2>4. Exceeded
      BY <2>1, <2>2, <2>3, Trigger DEF PowerOpModes
    <2>5. timeout # 0 /\ timeout \in Nat /\ age \in Nat
      BY <1>3, PowerOffAssumption DEF PowerOffAssumption, PowerInv, TypeOK
    <2>6. Timeout = [s |-> timeout, ns |-> 0]
      BY <2>5 DEF Timeout, Duration
    <2> QED BY <2>4, <2>5, <2>6 DEF Exceeded, AtLeast, Duration, DocumentedTimeout
  <1>4. PowerInv /\ [Next]_vars
          => [power = "on" /\ power' = "cut" /\ cond = "inProgress"
                => age >= DocumentedTimeout]_vars
    BY <1>3
  <1> QED BY <1>1, <1>2, <1>4, PTL DEF Spec, GuestGetsItsTime
=============================================================================
