-------------------------- MODULE VSphereVM_proofs --------------------------
(***************************************************************************)
(* Theorems about VSphereVM for every number of tasks, every configuration *)
(* of the machine and every number of faults.                              *)
(***************************************************************************)
EXTENDS VSphereVMSafety, TLAPS

TypeInv == TypeOK /\ InvRefs

\* A deadline that passes changes only RetryAfter and the power off condition
LEMMA AgedObject ==
    ASSUME NEW o \in VSphereVMType
    PROVE  /\ Aged(o) \in VSphereVMType
           /\ Aged(o).task = o.task /\ Aged(o).bios = o.bios
           /\ Aged(o).exists = o.exists /\ Aged(o).fin = o.fin /\ Aged(o).del = o.del
  BY DEF VSphereVMType, Aged, SoftPowerOffConditions

\* A new object and no object are objects
LEMMA Objects == NewObject \in VSphereVMType /\ NoObject \in VSphereVMType
  <1>1. 0 \in TaskId
    BY ConstantsAssumption DEF ConstantsAssumption, TaskId
  <1>2. "none" \in SoftPowerOffConditions
    BY DEF SoftPowerOffConditions
  <1>3. NewObject \in VSphereVMType
    BY <1>1, <1>2 DEF VSphereVMType, NewObject
  <1>4. NoObject \in VSphereVMType
    BY <1>1, <1>2 DEF VSphereVMType, NewObject, NoObject
  <1> QED BY <1>3, <1>4

\* What a patch leaves in the API server: each field is the server's or the
\* reconcile's, or there is no object any more
LEMMA PatchedObject ==
    ASSUME NEW s \in VSphereVMType, NEW b \in VSphereVMType, NEW a \in VSphereVMType
    PROVE  /\ Patched(s, b, a) \in VSphereVMType
           /\ Patched(s, b, a).task \in {0, s.task, a.task}
           /\ Patched(s, b, a).bios \in {0, s.bios, a.bios}
  <1>1. CASE s.del /\ ~Merge(s.fin, b.fin, a.fin)
    <2>1. Patched(s, b, a) = NoObject
      BY <1>1 DEF Patched
    <2> QED BY <2>1, Objects DEF NoObject, NewObject
  <1>2. CASE ~(s.del /\ ~Merge(s.fin, b.fin, a.fin))
    <2>1. Patched(s, b, a) =
            [ exists |-> s.exists, fin |-> Merge(s.fin, b.fin, a.fin), del |-> s.del,
              bios |-> Merge(s.bios, b.bios, a.bios), task |-> Merge(s.task, b.task, a.task),
              retry |-> Merge(s.retry, b.retry, a.retry), soft |-> Merge(s.soft, b.soft, a.soft),
              ready |-> Merge(s.ready, b.ready, a.ready) ]
      BY <1>2 DEF Patched
    <2> QED BY <2>1 DEF VSphereVMType, Merge
  <1> QED BY <1>1, <1>2

\* Types and references hold at first
LEMMA TypeInit == Init => TypeInv
  <1> SUFFICES ASSUME Init PROVE TypeInv
    OBVIOUS
  <1>1. /\ api \in VSphereVMType /\ cache \in VSphereVMType
        /\ obj \in VSphereVMType /\ base \in VSphereVMType
    BY Objects DEF Init
  <1>2. vm \in [ power : {"absent", "off", "on"}, id : TaskId,
                todo : SUBSET ConfigItems, ip : BOOLEAN, halting : BOOLEAN ]
    BY ConstantsAssumption DEF ConstantsAssumption, Init, NoVM, TaskId
  <1>3. tasks \in [Task -> [kind : TaskKinds, st : TaskStates]]
    BY DEF Init, NoTask, TaskKinds, TaskStates
  <1>4. faults \in [FaultKinds -> Nat]
    BY ConstantsAssumption DEF ConstantsAssumption, Init
  <1>5. InvRefs
    BY DEF Init, InvRefs, NoObject, NewObject
  <1> QED BY <1>1, <1>2, <1>3, <1>4, <1>5 DEF Init, TypeInv, TypeOK

\* Steps outside the reconcile
LEMMA TypeEnvironment ==
    ASSUME TypeInv,
           \/ StartFails \/ Crash \/ Delete \/ CacheSync \/ Resync \/ TimePasses
           \/ GuestReportsIP \/ GuestHalts \/ VMVanishes
    PROVE  TypeInv'
  <1> USE DEF TypeInv, TypeOK
  <1>f. ASSUME NEW f \in FaultKinds, Strike(f) PROVE faults' \in [FaultKinds -> Nat]
    BY <1>f DEF Strike
  <1>k. {"rpc", "crash", "vanish"} \subseteq FaultKinds
    BY DEF FaultKinds
  <1>1. CASE StartFails
    BY <1>1, <1>f, <1>k DEF StartFails, apiVars, recVars, vcVars, InvRefs
  <1>2. CASE Crash
    <2>1. faults' \in [FaultKinds -> Nat]
      BY <1>2, <1>f, <1>k DEF Crash
    <2>2. InvRefs'
      BY <1>2 DEF Crash, vcVars, InvRefs, NoObject, NewObject
    <2>3. queued' \in BOOLEAN
      BY <1>2 DEF Crash, VSphereVMType
    <2> QED BY <1>2, <2>1, <2>2, <2>3, Objects DEF Crash, vcVars
  <1>3. CASE Delete
    <2>1. api' \in VSphereVMType /\ api'.task \in {0, api.task}
      BY <1>3, Objects DEF Delete, VSphereVMType, NoObject, NewObject
    <2>2. InvRefs'
      BY <1>3, <2>1 DEF Delete, recVars, vcVars, InvRefs
    <2> QED BY <1>3, <2>1, <2>2 DEF Delete, recVars, vcVars
  <1>4. CASE CacheSync
    BY <1>4 DEF CacheSync, recVars, vcVars, InvRefs
  <1>5. CASE Resync
    BY <1>5 DEF Resync, apiVars, recVars, vcVars, InvRefs
  <1>6. CASE TimePasses
    <2>1. InvRefs'
      BY <1>6, AgedObject DEF TimePasses, vcVars, InvRefs
    <2> QED BY <1>6, <2>1, AgedObject DEF TimePasses, vcVars
  <1>7. CASE GuestReportsIP
    BY <1>7 DEF GuestReportsIP, apiVars, recVars, InvRefs
  <1>8. CASE GuestHalts
    BY <1>8 DEF GuestHalts, apiVars, recVars, InvRefs
  <1>9. CASE VMVanishes
    <2>1. faults' \in [FaultKinds -> Nat]
      BY <1>9, <1>f, <1>k DEF VMVanishes
    <2> QED BY <1>9, <2>1, ConstantsAssumption
            DEF VMVanishes, NoVM, TaskId, ConstantsAssumption, apiVars, recVars, InvRefs
  <1> QED BY <1>1, <1>2, <1>3, <1>4, <1>5, <1>6, <1>7, <1>8, <1>9

\* Steps of vCenter's tasks and of the goroutines that wait for them
LEMMA TypeTasks ==
    ASSUME TypeInv, NEW t \in Task,
           VCenter(t) \/ TaskPurged(t) \/ WatcherFires(t) \/ WatcherFails(t)
    PROVE  TypeInv'
  <1> USE DEF TypeInv, TypeOK
  <1>f. ASSUME NEW f \in FaultKinds, Strike(f) PROVE faults' \in [FaultKinds -> Nat]
    BY <1>f DEF Strike
  <1>k. {"taskError", "purge", "lookup"} \subseteq FaultKinds
    BY DEF FaultKinds
  <1>t. t \in TaskId
    BY ConstantsAssumption DEF ConstantsAssumption, Task, TaskId
  <1>1. CASE TaskSucceeds(t)
    <2>1. tasks' \in [Task -> [kind : TaskKinds, st : TaskStates]] /\ InvRefs'
      BY <1>1 DEF TaskSucceeds, TaskStates, InvRefs, apiVars, recVars
    <2>2. vm' \in [ power : {"absent", "off", "on"}, id : TaskId,
                    todo : SUBSET ConfigItems, ip : BOOLEAN, halting : BOOLEAN ]
      <3>1. NoVM \in [ power : {"absent", "off", "on"}, id : TaskId,
                       todo : SUBSET ConfigItems, ip : BOOLEAN, halting : BOOLEAN ]
        BY ConstantsAssumption DEF ConstantsAssumption, NoVM, TaskId
      <3>2. CASE tasks[t].kind = "clone"
        BY <1>1, <3>1, <3>2, <1>t, ConstantsAssumption
        DEF TaskSucceeds, Effect, ConstantsAssumption
      <3>3. CASE tasks[t].kind \in ConfigItems
        BY <1>1, <3>3 DEF TaskSucceeds, Effect, ConfigItems
      <3>4. CASE tasks[t].kind \notin ConfigItems /\ tasks[t].kind # "clone"
        BY <1>1, <3>1, <3>4 DEF TaskSucceeds, Effect
      <3> QED BY <3>2, <3>3, <3>4
    <2> QED BY <1>1, <2>1, <2>2 DEF TaskSucceeds, apiVars, recVars
  <1>2. CASE TaskFails(t)
    <2>1. tasks' \in [Task -> [kind : TaskKinds, st : TaskStates]] /\ InvRefs'
      BY <1>2 DEF TaskFails, TaskStates, InvRefs, apiVars, recVars
    <2>2. faults' \in [FaultKinds -> Nat]
      BY <1>2, <1>f, <1>k DEF TaskFails
    <2> QED BY <1>2, <2>1, <2>2 DEF TaskFails, apiVars, recVars
  <1>3. CASE TaskPurged(t)
    <2>1. tasks' \in [Task -> [kind : TaskKinds, st : TaskStates]] /\ InvRefs'
      BY <1>3 DEF TaskPurged, TaskStates, InvRefs, apiVars, recVars
    <2>2. faults' \in [FaultKinds -> Nat]
      BY <1>3, <1>f, <1>k DEF TaskPurged
    <2> QED BY <1>3, <2>1, <2>2 DEF TaskPurged, apiVars, recVars
  <1>4. CASE WatcherFires(t)
    BY <1>4 DEF WatcherFires, apiVars, recVars, vcVars, InvRefs
  <1>5. CASE WatcherFails(t)
    BY <1>5, <1>f, <1>k DEF WatcherFails, apiVars, recVars, vcVars, InvRefs
  <1> QED BY <1>1, <1>2, <1>3, <1>4, <1>5 DEF VCenter

\* Starting a task keeps the tasks' type and the references to older tasks
LEMMA SubmitTask ==
    ASSUME TypeInv, NEW t \in Task, NEW kind \in TaskKinds, Submit(t, kind)
    PROVE  /\ tasks' \in [Task -> [kind : TaskKinds, st : TaskStates]]
           /\ tasks'[t].st = "running"
           /\ \A u \in Task : tasks[u].st # "none" => tasks'[u].st # "none"
           /\ t \in TaskId /\ t # 0
  BY ConstantsAssumption
  DEF TypeInv, TypeOK, Submit, TaskStates, Task, TaskId, ConstantsAssumption

\* Leaving ReconcileVM or DestroyVM with an object of the right type
LEMMA LeaveType ==
    ASSUME TypeInv, NEW o \in VSphereVMType, NEW next \in {"early", "final"},
           Leave(next, o)
    PROVE  /\ obj' \in VSphereVMType /\ obj' = o
           /\ pc' \in {"idle", "inflight", "act", "early", "final", "wait"}
           /\ watchers' \subseteq Task
  <1>1. o.task \in TaskId
    BY DEF VSphereVMType
  <1>2. o.task # 0 => o.task \in Task
    BY <1>1, ConstantsAssumption DEF TaskId, Task, ConstantsAssumption
  <1> QED BY <1>2 DEF TypeInv, TypeOK, Leave

\* The answer of checkAndRetryTask for a task that was started
LEMMA CheckAndRetryTaskType ==
    ASSUME NEW o \in VSphereVMType, NEW found \in BOOLEAN, NEW st \in TaskStates,
           found => st \notin {"none", "purged"}
    PROVE  LET r == CheckAndRetryTask(o, found, st)
           IN  /\ r.task \in {0, o.task}
               /\ r.retry \in {"zero", "waiting", "expired"}
               /\ r.verdict \in {"go", "error", "inFlight"}
  BY DEF CheckAndRetryTask, VSphereVMType, TaskStates

\* The steps of a reconcile up to the point where it acts
LEMMA TypeCheck ==
    ASSUME TypeInv, Start \/ CheckTask
    PROVE  TypeInv'
  <1> USE DEF TypeInv, TypeOK
  <1>1. CASE Start
    <2>1. api' \in VSphereVMType /\ api'.task = api.task
      BY <1>1 DEF Start, VSphereVMType
    <2>2. InvRefs'
      BY <1>1, <2>1 DEF Start, vcVars, InvRefs
    <2> QED BY <1>1, <2>1, <2>2 DEF Start, vcVars
  <1>2. CASE CheckTask
    <2>1. PICK found \in BOOLEAN :
            /\ TaskFound(found)
            /\ LET r == CheckAndRetryTask(obj, found, IF found THEN tasks[obj.task].st ELSE "none")
               IN  /\ obj' = [obj EXCEPT !.task = r.task, !.retry = r.retry]
                   /\ pc' = IF r.verdict = "go" THEN "act" ELSE "final"
                   /\ requeue' = \/ r.verdict = "error"
                                 \/ r.verdict = "inFlight" /\ ~obj.del /\ r.retry = "waiting"
      BY <1>2 DEF CheckTask
    <2> DEFINE st == IF found THEN tasks[obj.task].st ELSE "none"
               r  == CheckAndRetryTask(obj, found, st)
    <2>2. obj.task \in TaskId /\ (obj.task # 0 => obj.task \in Task)
      BY ConstantsAssumption DEF ConstantsAssumption, VSphereVMType, Task, TaskId
    <2>3. found => obj.task # 0 /\ tasks[obj.task].st # "purged"
      BY <2>1 DEF TaskFound
    <2>4. st \in TaskStates /\ (found => st \notin {"none", "purged"})
      BY <2>2, <2>3 DEF InvRefs, TaskStates
    <2>5. /\ r.task \in {0, obj.task}
          /\ r.retry \in {"zero", "waiting", "expired"}
      BY <2>4, CheckAndRetryTaskType
    <2>6. faults' \in [FaultKinds -> Nat]
      BY <2>1 DEF TaskFound, Strike, FaultKinds
    <2>7. obj' = [obj EXCEPT !.task = r.task, !.retry = r.retry]
      BY <2>1
    <2> HIDE DEF r
    <2>8. obj' \in VSphereVMType /\ obj'.task \in {0, obj.task}
      BY <2>2, <2>5, <2>7, Objects DEF VSphereVMType, NoObject, NewObject
    <2>9. InvRefs'
      BY <1>2, <2>8 DEF CheckTask, apiVars, vcVars, InvRefs
    <2>10. pc' \in {"act", "final"} /\ requeue' \in BOOLEAN
      BY <2>1
    <2> QED BY <1>2, <2>6, <2>8, <2>9, <2>10 DEF CheckTask, apiVars, vcVars
  <1> QED BY <1>1, <1>2

\* The steps that patch the object and wait for the cache
LEMMA TypePatch ==
    ASSUME TypeInv, EarlyPatch \/ FinalPatch \/ CacheWait \/ CacheWaitTimeout
    PROVE  TypeInv'
  <1> USE DEF TypeInv, TypeOK
  <1>f. ASSUME NEW f \in FaultKinds, Strike(f) PROVE faults' \in [FaultKinds -> Nat]
    BY <1>f DEF Strike
  <1>k. {"patch", "lag"} \subseteq FaultKinds
    BY DEF FaultKinds
  <1>p. /\ Patched(api, base, obj) \in VSphereVMType
        /\ Patched(api, base, obj).task \in {0, api.task, obj.task}
    BY PatchedObject
  <1>1. CASE EarlyPatch
    <2>1. api' \in VSphereVMType /\ api'.task \in {0, api.task, obj.task}
      BY <1>1, <1>p DEF EarlyPatch
    <2>2. faults' \in [FaultKinds -> Nat]
      BY <1>1, <1>f, <1>k DEF EarlyPatch, PatchFails
    <2>3. InvRefs'
      BY <1>1, <2>1 DEF EarlyPatch, InvRefs, vcVars
    <2> QED BY <1>1, <2>1, <2>2, <2>3 DEF EarlyPatch, vcVars
  <1>2. CASE FinalPatch
    <2>1. PICK ok \in BOOLEAN :
            /\ IF ok
               THEN api.exists /\ api' = Patched(api, base, obj) /\ UNCHANGED faults
               ELSE PatchFails /\ UNCHANGED api
            /\ IF obj.task # base.task
               THEN /\ pc' = "wait" /\ requeue' = (requeue \/ ~ok)
                    /\ UNCHANGED <<queued, obj, base, overlap>>
               ELSE Return(requeue \/ ~ok)
      BY <1>2 DEF FinalPatch
    <2>2. api' \in VSphereVMType /\ api'.task \in {0, api.task, obj.task}
      BY <2>1, <1>p
    <2>3. faults' \in [FaultKinds -> Nat]
      BY <2>1, <1>f, <1>k DEF PatchFails
    <2>4. CASE obj.task # base.task
      <3>1. InvRefs'
        BY <1>2, <2>1, <2>2, <2>4 DEF FinalPatch, InvRefs, vcVars
      <3> QED BY <1>2, <2>1, <2>2, <2>3, <2>4, <3>1 DEF FinalPatch, vcVars
    <2>5. CASE obj.task = base.task
      <3>1. InvRefs'
        BY <1>2, <2>1, <2>2, <2>5 DEF FinalPatch, InvRefs, vcVars, Return, NoObject, NewObject
      <3> QED BY <1>2, <2>1, <2>2, <2>3, <2>5, <3>1, Objects DEF FinalPatch, vcVars, Return
    <2> QED BY <2>4, <2>5
  <1>3. CASE CacheWait
    <2>1. InvRefs'
      BY <1>3 DEF CacheWait, InvRefs, apiVars, vcVars, Return, NoObject, NewObject
    <2> QED BY <1>3, <2>1, Objects DEF CacheWait, apiVars, vcVars, Return
  <1>4. CASE CacheWaitTimeout
    <2>1. InvRefs'
      BY <1>4 DEF CacheWaitTimeout, InvRefs, apiVars, vcVars, Return, NoObject, NewObject
    <2>2. faults' \in [FaultKinds -> Nat]
      BY <1>4, <1>f, <1>k DEF CacheWaitTimeout
    <2> QED BY <1>4, <2>1, <2>2, Objects DEF CacheWaitTimeout, apiVars, vcVars, Return
  <1> QED BY <1>1, <1>2, <1>3, <1>4

\* The decision of power.go is well formed
LEMMA TriggerSoftPowerOffType ==
    ASSUME NEW mode \in PowerOpModes, NEW cond \in SoftPowerOffConditions,
           NEW exceeded \in BOOLEAN, NEW tools \in BOOLEAN
    PROVE  LET r == TriggerSoftPowerOff(mode, cond, exceeded, tools)
           IN  /\ r.cond \in SoftPowerOffConditions
               /\ r.shutdown \in BOOLEAN /\ r.pending \in BOOLEAN
  <1>1. CASE mode = "hard"
    BY <1>1 DEF TriggerSoftPowerOff
  <1>2. CASE mode # "hard" /\ cond # "none"
    BY <1>2 DEF TriggerSoftPowerOff
  <1>3. CASE mode = "trySoft" /\ cond = "none" /\ ~tools
    BY <1>3 DEF TriggerSoftPowerOff
  <1>4. CASE mode = "soft" /\ cond = "none" /\ ~tools
    BY <1>4 DEF TriggerSoftPowerOff, SoftPowerOffConditions
  <1>5. CASE mode # "hard" /\ cond = "none" /\ tools
    BY <1>5 DEF TriggerSoftPowerOff, SoftPowerOffConditions
  <1> QED BY <1>1, <1>2, <1>3, <1>4, <1>5 DEF PowerOpModes

\* The steps in which ReconcileVM and DestroyVM act on the machine
LEMMA TypeAct ==
    ASSUME TypeInv, Act
    PROVE  TypeInv'
  <1> USE DEF TypeInv, TypeOK
  <1>a. api' = api /\ cache' = cache /\ queued' = queued /\ base' = base
    BY DEF Act, CallFails, ReconcileNotFound, ReconcileClone,
           ReconcileHardwareVersion, ReconcileMetadata, ReconcileStoragePolicy,
           ReconcileVMGroupInfo, ReconcileItem, Due,
           ReconcilePowerOn, ReconcileReady, DestroyNotFound, DestroyPowerOff,
           DestroyVM, apiVars
  <1>t. ASSUME NEW t \in TaskId PROVE [obj EXCEPT !.task = t] \in VSphereVMType
    BY <1>t DEF VSphereVMType
  <1>o. PoweredOff(obj) \in VSphereVMType /\ PoweredOff(obj).task = obj.task
    BY DEF PoweredOff, VSphereVMType, SoftPowerOffConditions
  <1>s. ASSUME NEW t \in Task, NEW kind \in TaskKinds, Submit(t, kind),
               obj'.task = t
        PROVE  InvRefs'
    <2>1. \A o \in {api, cache, base} : o.task # 0 => o.task \in Task
      BY ConstantsAssumption DEF ConstantsAssumption, VSphereVMType, Task, TaskId
    <2>2. \A u \in Task : tasks[u].st # "none" => tasks'[u].st # "none"
      BY <1>s, SubmitTask
    <2>3. tasks'[t].st # "none"
      BY <1>s, SubmitTask
    <2> QED BY <1>a, <1>s, <2>1, <2>2, <2>3 DEF InvRefs
  <1>k. /\ ConfigItems \subseteq TaskKinds
        /\ {"clone", "powerOn", "powerOff", "destroy"} \subseteq TaskKinds
    BY DEF TaskKinds
  <1>r. RetryPending \in BOOLEAN
    BY DEF RetryPending
  <1>1. CASE CallFails
    <2>1. faults' \in [FaultKinds -> Nat]
      BY <1>1 DEF CallFails, Strike, FaultKinds
    <2>2. PICK o \in {obj, PoweredOff(obj)} : Leave("final", o)
      BY <1>1 DEF CallFails
    <2>3. o \in VSphereVMType /\ o.task = obj.task
      BY <1>o, <2>2
    <2>4. /\ obj' \in VSphereVMType /\ obj' = o
          /\ pc' \in {"idle", "inflight", "act", "early", "final", "wait"}
          /\ watchers' \subseteq Task
      BY <2>2, <2>3, LeaveType
    <2>5. InvRefs'
      BY <1>1, <1>a, <2>3, <2>4 DEF CallFails, vcVars, InvRefs
    <2> QED BY <1>1, <1>a, <2>1, <2>4, <2>5 DEF CallFails, vcVars
  <1>2. CASE ReconcileNotFound
    <2>1. /\ obj' \in VSphereVMType /\ obj' = obj
          /\ pc' \in {"idle", "inflight", "act", "early", "final", "wait"}
          /\ watchers' \subseteq Task
      BY <1>2, LeaveType DEF ReconcileNotFound
    <2> QED BY <1>2, <1>a, <2>1 DEF ReconcileNotFound, vcVars, InvRefs
  <1>3. CASE ReconcileClone
    <2>1. PICK t \in Task : Submit(t, "clone") /\ Leave("early", [obj EXCEPT !.task = t])
      BY <1>3 DEF ReconcileClone, Clone
    <2>2. tasks' \in [Task -> [kind : TaskKinds, st : TaskStates]] /\ t \in TaskId
      BY <2>1, <1>k, SubmitTask
    <2>3. /\ obj' \in VSphereVMType /\ obj' = [obj EXCEPT !.task = t]
          /\ pc' \in {"idle", "inflight", "act", "early", "final", "wait"}
          /\ watchers' \subseteq Task
      BY <2>1, <2>2, <1>t, LeaveType
    <2>4. InvRefs'
      BY <2>1, <2>3, <1>k, <1>s DEF VSphereVMType
    <2> QED BY <1>3, <1>a, <1>r, <2>2, <2>3, <2>4 DEF ReconcileClone
  <1>4. ASSUME NEW item \in ConfigItems, ReconcileItem(item) PROVE TypeInv'
    <2>1. PICK t \in Task : Submit(t, item) /\ Leave("final", [obj EXCEPT !.task = t])
      BY <1>4 DEF ReconcileItem
    <2>2. tasks' \in [Task -> [kind : TaskKinds, st : TaskStates]] /\ t \in TaskId
      BY <2>1, <1>k, SubmitTask
    <2>3. /\ obj' \in VSphereVMType /\ obj' = [obj EXCEPT !.task = t]
          /\ pc' \in {"idle", "inflight", "act", "early", "final", "wait"}
          /\ watchers' \subseteq Task
      BY <2>1, <2>2, <1>t, LeaveType
    <2>4. InvRefs'
      BY <2>1, <2>3, <1>k, <1>s DEF VSphereVMType
    <2> QED BY <1>4, <1>a, <1>r, <2>2, <2>3, <2>4 DEF ReconcileItem
  <1>10. CASE ReconcileStoragePolicy
    <2>1. PICK t \in Task : Submit(t, "policy") /\ obj' = [obj EXCEPT !.task = t]
      BY <1>10 DEF ReconcileStoragePolicy
    <2>2. tasks' \in [Task -> [kind : TaskKinds, st : TaskStates]] /\ t \in TaskId
      BY <2>1, <1>k, SubmitTask DEF ConfigItems
    <2>3. obj' \in VSphereVMType /\ obj'.task = t
      BY <2>1, <2>2, <1>t DEF VSphereVMType
    <2>4. InvRefs'
      BY <2>1, <2>3, <1>k, <1>s DEF ConfigItems
    <2> QED BY <1>10, <1>a, <2>2, <2>3, <2>4 DEF ReconcileStoragePolicy
  <1>5. CASE ReconcilePowerOn
    <2>1. PICK t \in Task : Submit(t, "powerOn") /\ Leave("early", [obj EXCEPT !.task = t])
      BY <1>5 DEF ReconcilePowerOn
    <2>2. tasks' \in [Task -> [kind : TaskKinds, st : TaskStates]] /\ t \in TaskId
      BY <2>1, <1>k, SubmitTask
    <2>3. /\ obj' \in VSphereVMType /\ obj' = [obj EXCEPT !.task = t]
          /\ pc' \in {"idle", "inflight", "act", "early", "final", "wait"}
          /\ watchers' \subseteq Task
      BY <2>1, <2>2, <1>t, LeaveType
    <2>4. InvRefs'
      BY <2>1, <2>3, <1>k, <1>s DEF VSphereVMType
    <2> QED BY <1>5, <1>a, <1>r, <2>2, <2>3, <2>4 DEF ReconcilePowerOn
  <1>6. CASE ReconcileReady
    <2> DEFINE o == [obj EXCEPT !.bios = vm.id, !.ready = @ \/ vm.ip]
    <2>1. o \in VSphereVMType /\ o.task = obj.task
      BY DEF VSphereVMType
    <2>2. /\ obj' \in VSphereVMType /\ obj' = o
          /\ pc' \in {"idle", "inflight", "act", "early", "final", "wait"}
          /\ watchers' \subseteq Task
      BY <1>6, <2>1, LeaveType DEF ReconcileReady
    <2>3. InvRefs'
      BY <1>6, <1>a, <2>1, <2>2 DEF ReconcileReady, vcVars, InvRefs
    <2> QED BY <1>6, <1>a, <2>2, <2>3 DEF ReconcileReady, vcVars
  <1>7. CASE DestroyNotFound
    <2> DEFINE o == [obj EXCEPT !.fin = FALSE]
    <2>1. o \in VSphereVMType /\ o.task = obj.task
      BY DEF VSphereVMType
    <2>2. /\ obj' \in VSphereVMType /\ obj' = o
          /\ pc' \in {"idle", "inflight", "act", "early", "final", "wait"}
          /\ watchers' \subseteq Task
      BY <1>7, <2>1, LeaveType DEF DestroyNotFound
    <2>3. InvRefs'
      BY <1>7, <1>a, <2>1, <2>2 DEF DestroyNotFound, vcVars, InvRefs
    <2> QED BY <1>7, <1>a, <2>2, <2>3 DEF DestroyNotFound, vcVars
  <1>8. CASE DestroyPowerOff
    <2>1. PICK tools \in BOOLEAN :
            LET r == TriggerSoftPowerOff(PowerOffMode, obj.soft, obj.soft = "overdue", tools)
            IN  IF r.pending
                THEN /\ Leave("final", [obj EXCEPT !.soft = r.cond])
                     /\ requeue' = TRUE
                     /\ vm' = [vm EXCEPT !.halting = @ \/ r.shutdown]
                     /\ UNCHANGED tasks
                ELSE \E t \in Task :
                       /\ Submit(t, "powerOff")
                       /\ Leave("early", [obj EXCEPT !.task = t])
                       /\ UNCHANGED <<requeue, vm>>
      BY <1>8 DEF DestroyPowerOff
    <2> DEFINE r == TriggerSoftPowerOff(PowerOffMode, obj.soft, obj.soft = "overdue", tools)
    <2>2. r.cond \in SoftPowerOffConditions /\ r.shutdown \in BOOLEAN /\ r.pending \in BOOLEAN
      BY ConstantsAssumption, TriggerSoftPowerOffType DEF ConstantsAssumption, VSphereVMType
    <2>3. CASE r.pending
      <3> DEFINE o == [obj EXCEPT !.soft = r.cond]
      <3>1. /\ Leave("final", o)
            /\ requeue' = TRUE
            /\ vm' = [vm EXCEPT !.halting = @ \/ r.shutdown]
            /\ UNCHANGED tasks
        BY <2>1, <2>3
      <3> HIDE DEF r
      <3>2. o \in VSphereVMType /\ o.task = obj.task
        BY <2>2 DEF VSphereVMType
      <3>3. /\ obj' \in VSphereVMType /\ obj' = o
            /\ pc' \in {"idle", "inflight", "act", "early", "final", "wait"}
            /\ watchers' \subseteq Task
        BY <3>1, <3>2, LeaveType
      <3>4. InvRefs'
        BY <1>a, <3>1, <3>2, <3>3 DEF InvRefs
      <3> QED BY <1>8, <1>a, <2>2, <3>1, <3>3, <3>4 DEF DestroyPowerOff
    <2>4. CASE ~r.pending
      <3>1. PICK t \in Task :
              /\ Submit(t, "powerOff")
              /\ Leave("early", [obj EXCEPT !.task = t])
              /\ UNCHANGED <<requeue, vm>>
        BY <2>1, <2>4
      <3>2. tasks' \in [Task -> [kind : TaskKinds, st : TaskStates]] /\ t \in TaskId
        BY <3>1, <1>k, SubmitTask
      <3>3. /\ obj' \in VSphereVMType /\ obj' = [obj EXCEPT !.task = t]
            /\ pc' \in {"idle", "inflight", "act", "early", "final", "wait"}
            /\ watchers' \subseteq Task
        BY <3>1, <3>2, <1>t, LeaveType
      <3>4. InvRefs'
        BY <3>1, <3>3, <1>k, <1>s DEF VSphereVMType
      <3> QED BY <1>8, <1>a, <3>1, <3>2, <3>3, <3>4 DEF DestroyPowerOff
    <2> QED BY <2>2, <2>3, <2>4
  <1>9. CASE DestroyVM
    <2>1. PICK t \in Task :
            Submit(t, "destroy") /\ Leave("final", [PoweredOff(obj) EXCEPT !.task = t])
      BY <1>9 DEF DestroyVM
    <2>2. tasks' \in [Task -> [kind : TaskKinds, st : TaskStates]] /\ t \in TaskId
      BY <2>1, <1>k, SubmitTask
    <2> DEFINE o == [PoweredOff(obj) EXCEPT !.task = t]
    <2>3. o \in VSphereVMType /\ o.task = t
      BY <2>2, <1>o DEF VSphereVMType
    <2>4. /\ obj' \in VSphereVMType /\ obj' = o
          /\ pc' \in {"idle", "inflight", "act", "early", "final", "wait"}
          /\ watchers' \subseteq Task
      BY <2>1, <2>3, LeaveType
    <2>5. InvRefs'
      BY <2>1, <2>3, <2>4, <1>k, <1>s
    <2> QED BY <1>9, <1>a, <2>2, <2>4, <2>5 DEF DestroyVM
  <1> QED BY <1>1, <1>2, <1>3, <1>4, <1>5, <1>6, <1>7, <1>8, <1>9, <1>10
          DEF Act, ReconcileHardwareVersion, ReconcileMetadata, ReconcileVMGroupInfo, ConfigItems

\* and after every step, whatever fails
LEMMA TypeStep == TypeInv /\ [Next]_vars => TypeInv'
  <1> SUFFICES ASSUME TypeInv, [Next]_vars PROVE TypeInv'
    OBVIOUS
  <1>1. CASE UNCHANGED vars
    BY <1>1 DEF vars, apiVars, recVars, vcVars, TypeInv, TypeOK, InvRefs
  <1>2. CASE Reconcile
    BY <1>2, TypeCheck, TypeAct, TypePatch DEF Reconcile
  <1>3. CASE \E t \in Task : VCenter(t) \/ TaskPurged(t) \/ WatcherFires(t) \/ WatcherFails(t)
    BY <1>3, TypeTasks
  <1> QED BY <1>1, <1>2, <1>3, TypeEnvironment DEF Next

\* Every variable keeps its type and every task reference, in the API server,
\* in the cache or in a running reconcile, names a task that was started.
THEOREM TypeCorrect == Spec => [](TypeOK /\ InvRefs)
  <1>1. Init => TypeInv
    BY TypeInit
  <1>2. TypeInv /\ [Next]_vars => TypeInv'
    BY TypeStep
  <1> QED BY <1>1, <1>2, PTL DEF Spec, TypeInv

-----------------------------------------------------------------------------
(* The life of the object, whatever fails.                                 *)

LifeInv == InvLife /\ InvPass

\* A step of ReconcileVM or DestroyVM either starts one task and refers to it, or
\* starts none and ends the pass
Begins(t, kind) ==
    /\ Submit(t, kind)
    /\ UNCHANGED <<vm, faults>>
    /\ obj'.task = t /\ obj'.bios = obj.bios /\ obj'.retry = obj.retry
    /\ obj'.fin = obj.fin /\ obj'.del = obj.del
    /\ pc' \in {"act", "early", "final"}
    /\ IF kind = "clone" THEN ~obj.del /\ ~FoundVM /\ obj.bios = 0 /\ pc' = "early"
                         ELSE FoundVM
    /\ kind # "none"
    /\ kind \in {"powerOff", "destroy"} => obj.del
    /\ kind = "powerOn" => vm.power = "off" /\ vm.todo \subseteq {"policy"} /\ pc' = "early"
    /\ kind \in ConfigItems => kind \in vm.todo /\ (vm.power = "on" => kind # "policy")
    /\ IF kind = "policy" THEN kind \in vm.todo ELSE overlap' = overlap /\ pc' # "act"

BeginsNone ==
    /\ pc' = "final" /\ UNCHANGED tasks
    /\ Strike("rpc") \/ UNCHANGED faults
    /\ (Exists' <=> Exists) /\ vm'.id = vm.id /\ vm'.todo = vm.todo
    /\ vm'.power = vm.power /\ overlap' = overlap
    /\ obj'.task = obj.task /\ obj'.retry = obj.retry /\ obj'.del = obj.del
    /\ obj'.bios # obj.bios => ~obj.del /\ vm.power = "on" /\ FoundVM
    /\ Strike("rpc") \/ obj.del \/ ~FoundVM \/ obj'.bios = vm.id
    /\ (Exists /\ obj'.bios = vm.id) \/ obj'.bios = obj.bios
    /\ obj'.fin = obj.fin \/ (obj.del /\ ~FoundVM)

\* Every step of ReconcileVM and DestroyVM is one or the other
LEMMA ActStep ==
    ASSUME TypeInv, Act
    PROVE  /\ pc = "act" /\ UNCHANGED <<api, cache, base>>
           /\ BeginsNone \/ \E t \in Task, kind \in TaskKinds : Begins(t, kind)
  <1> USE DEF TypeInv
  <1>a. pc = "act" /\ UNCHANGED <<api, cache, base>>
    BY DEF Act, CallFails, ReconcileNotFound, ReconcileClone,
           ReconcileHardwareVersion, ReconcileMetadata, ReconcileStoragePolicy,
           ReconcileVMGroupInfo, ReconcileItem, Due,
           ReconcilePowerOn, ReconcileReady, DestroyNotFound, DestroyPowerOff,
           DestroyVM, Reconciling, Destroying, apiVars
  <1>k. ConfigItems \cup {"clone", "powerOn", "powerOff", "destroy"} \subseteq TaskKinds
    BY DEF TaskKinds
  <1>o. /\ PoweredOff(obj) \in VSphereVMType /\ PoweredOff(obj).task = obj.task
        /\ PoweredOff(obj).bios = obj.bios /\ PoweredOff(obj).retry = obj.retry
        /\ PoweredOff(obj).fin = obj.fin /\ PoweredOff(obj).del = obj.del
    BY DEF PoweredOff, TypeOK, VSphereVMType, SoftPowerOffConditions
  <1>t. ASSUME NEW t \in Task, NEW o \in {obj, PoweredOff(obj)}, obj' = [o EXCEPT !.task = t]
        PROVE  /\ obj'.task = t /\ obj'.bios = obj.bios /\ obj'.retry = obj.retry
               /\ obj'.fin = obj.fin /\ obj'.del = obj.del
    BY <1>t, <1>o DEF TypeOK, VSphereVMType
  <1>1. CASE CallFails
    <2>1. PICK o \in {obj, PoweredOff(obj)} : Leave("final", o)
      BY <1>1 DEF CallFails
    <2>2. /\ pc' = "final" /\ obj'.task = obj.task /\ obj'.bios = obj.bios /\ obj'.retry = obj.retry
          /\ obj'.fin = obj.fin /\ obj'.del = obj.del
      BY <2>1, <1>o DEF Leave
    <2> QED BY <1>1, <1>a, <2>2 DEF CallFails, vcVars, Exists, BeginsNone
  <1>2. CASE ReconcileNotFound
    BY <1>2, <1>a DEF ReconcileNotFound, Leave, vcVars, Exists, BeginsNone
  <1>3. CASE ReconcileClone
    <2>1. PICK t \in Task : Submit(t, "clone") /\ Leave("early", [obj EXCEPT !.task = t])
      BY <1>3 DEF ReconcileClone, Clone
    <2>2. Begins(t, "clone")
      BY <1>3, <2>1, <1>t DEF ReconcileClone, Reconciling, Leave, Begins, ConfigItems
    <2> QED BY <1>a, <1>k, <2>2
  <1>4. ASSUME NEW item \in ConfigItems, ReconcileItem(item)
        PROVE  \E t \in Task, kind \in TaskKinds : Begins(t, kind)
    <2>1. PICK t \in Task : Submit(t, item) /\ Leave("final", [obj EXCEPT !.task = t])
      BY <1>4 DEF ReconcileItem
    <2>2. Begins(t, item)
      BY <1>4, <2>1, <1>t DEF ReconcileItem, Due, Pending, Leave, Begins, ConfigItems
    <2> QED BY <1>k, <2>2
  <1>5. CASE ReconcileStoragePolicy
    <2>1. PICK t \in Task : Submit(t, "policy") /\ obj' = [obj EXCEPT !.task = t]
      BY <1>5 DEF ReconcileStoragePolicy
    <2>2. Begins(t, "policy")
      BY <1>5, <1>a, <2>1, <1>t DEF ReconcileStoragePolicy, Due, Pending, Begins, ConfigItems
    <2> QED BY <1>a, <1>k, <2>2 DEF ConfigItems
  <1>6. CASE ReconcilePowerOn
    <2>1. PICK t \in Task : Submit(t, "powerOn") /\ Leave("early", [obj EXCEPT !.task = t])
      BY <1>6 DEF ReconcilePowerOn
    <2>2. Begins(t, "powerOn")
      BY <1>6, <2>1, <1>t DEF ReconcilePowerOn, Pending, Leave, Begins, ConfigItems
    <2> QED BY <1>a, <1>k, <2>2
  <1>7. CASE ReconcileReady
    <2>1. /\ pc' = "final" /\ obj'.task = obj.task /\ obj'.bios = vm.id /\ obj'.retry = obj.retry
          /\ obj'.fin = obj.fin /\ obj'.del = obj.del
      BY <1>7 DEF ReconcileReady, Leave, TypeOK, VSphereVMType
    <2> QED BY <1>7, <1>a, <2>1 DEF ReconcileReady, Reconciling, vcVars, Exists, FoundVM, BeginsNone
  <1>8. CASE DestroyNotFound
    <2>1. /\ pc' = "final" /\ obj'.task = obj.task /\ obj'.bios = obj.bios /\ obj'.retry = obj.retry
          /\ obj'.del = obj.del
      BY <1>8 DEF DestroyNotFound, Leave, TypeOK, VSphereVMType
    <2> QED BY <1>8, <1>a, <2>1 DEF DestroyNotFound, Destroying, vcVars, Exists, BeginsNone
  <1>9. CASE DestroyPowerOff
    <2>1. PICK tools \in BOOLEAN :
            LET r == TriggerSoftPowerOff(PowerOffMode, obj.soft, obj.soft = "overdue", tools)
            IN  IF r.pending
                THEN /\ Leave("final", [obj EXCEPT !.soft = r.cond])
                     /\ requeue' = TRUE
                     /\ vm' = [vm EXCEPT !.halting = @ \/ r.shutdown]
                     /\ UNCHANGED tasks
                ELSE \E t \in Task :
                       /\ Submit(t, "powerOff")
                       /\ Leave("early", [obj EXCEPT !.task = t])
                       /\ UNCHANGED <<requeue, vm>>
      BY <1>9 DEF DestroyPowerOff
    <2> DEFINE r == TriggerSoftPowerOff(PowerOffMode, obj.soft, obj.soft = "overdue", tools)
    <2>2. CASE r.pending
      <3>1. /\ Leave("final", [obj EXCEPT !.soft = r.cond])
            /\ vm' = [vm EXCEPT !.halting = @ \/ r.shutdown]
            /\ UNCHANGED tasks
        BY <2>1, <2>2
      <3> HIDE DEF r
      <3>2. /\ pc' = "final" /\ obj'.task = obj.task /\ obj'.bios = obj.bios /\ obj'.retry = obj.retry
            /\ obj'.fin = obj.fin /\ obj'.del = obj.del
        BY <3>1 DEF Leave, TypeOK, VSphereVMType
      <3>3. (Exists' <=> Exists) /\ vm'.id = vm.id
        BY <3>1 DEF Exists, TypeOK
      <3> QED BY <1>9, <1>a, <3>1, <3>2, <3>3 DEF DestroyPowerOff, Destroying, TypeOK, BeginsNone
    <2>3. CASE ~r.pending
      <3>1. PICK t \in Task :
              /\ Submit(t, "powerOff")
              /\ Leave("early", [obj EXCEPT !.task = t])
              /\ UNCHANGED <<requeue, vm>>
        BY <2>1, <2>3
      <3>2. Begins(t, "powerOff")
        BY <1>9, <3>1, <1>t DEF DestroyPowerOff, Destroying, Leave, Begins, ConfigItems
      <3> QED BY <1>a, <1>k, <3>2
    <2> QED BY <2>2, <2>3
  <1>10. CASE DestroyVM
    <2>1. PICK t \in Task : Submit(t, "destroy") /\ Leave("final", [PoweredOff(obj) EXCEPT !.task = t])
      BY <1>10 DEF DestroyVM
    <2>2. Begins(t, "destroy")
      BY <1>10, <2>1, <1>t DEF DestroyVM, Destroying, Leave, Begins, ConfigItems
    <2> QED BY <1>a, <1>k, <2>2
  <1> QED BY <1>a, <1>1, <1>2, <1>3, <1>4, <1>5, <1>6, <1>7, <1>8, <1>9, <1>10
          DEF Act, ReconcileHardwareVersion, ReconcileMetadata, ReconcileVMGroupInfo, ConfigItems

\* A patch of a reconcile is refused, keeps the object, or removes it with its
\* finalizer
PatchRefused == api' = api /\ (api.exists => Strike("patch"))

PatchKeeps ==
    /\ Owned /\ obj.fin /\ api'.exists /\ api'.fin /\ api'.del = api.del
    /\ api'.task = IF obj.task = base.task THEN api.task ELSE obj.task
    /\ api'.bios \in {api.bios, obj.bios}
    /\ obj.bios # base.bios => api'.bios = obj.bios
    /\ api'.retry = IF obj.retry = base.retry THEN api.retry ELSE obj.retry
    /\ UNCHANGED faults

PatchRemoves == /\ Owned /\ ~obj.fin /\ obj.del /\ api' = NoObject
                /\ UNCHANGED faults

\* and the reconcile goes on, or waits for the cache when it changed the task
\* reference
LEMMA PatchStep ==
    ASSUME TypeInv, LifeInv, EarlyPatch \/ FinalPatch
    PROVE  /\ UNCHANGED <<cache, vcVars>>
           /\ PatchRefused \/ PatchKeeps \/ PatchRemoves
           /\ PatchRefused => faults' = faults \/ Strike("patch")
           /\ EarlyPatch => /\ pc = "early" /\ pc' = "final" /\ UNCHANGED <<obj, base>>
           /\ FinalPatch => /\ pc = "final"
                            /\ \/ /\ obj.task # base.task /\ pc' = "wait"
                                  /\ UNCHANGED <<obj, base>>
                               \/ /\ obj.task = base.task /\ pc' = "idle"
                                  /\ obj' = NoObject /\ base' = NoObject
  <1> USE DEF TypeInv, LifeInv
  <1>1. /\ UNCHANGED <<cache, vcVars>>
        /\ EarlyPatch => /\ pc = "early" /\ pc' = "final" /\ UNCHANGED <<obj, base>>
        /\ FinalPatch => /\ pc = "final"
                         /\ \/ /\ obj.task # base.task /\ pc' = "wait"
                               /\ UNCHANGED <<obj, base>>
                            \/ /\ obj.task = base.task /\ pc' = "idle"
                               /\ obj' = NoObject /\ base' = NoObject
    BY DEF EarlyPatch, FinalPatch, Return
  <1>2. \/ api.exists /\ api' = Patched(api, base, obj) /\ UNCHANGED faults
        \/ PatchFails /\ api' = api
    BY DEF EarlyPatch, FinalPatch
  <1>3. CASE PatchFails /\ api' = api
    BY <1>1, <1>3 DEF PatchFails, PatchRefused
  <1>4. CASE api.exists /\ api' = Patched(api, base, obj) /\ UNCHANGED faults
    <2>1. pc # "idle" /\ Owned /\ base.fin /\ api.fin
      BY <1>1, <1>4 DEF InvPass, Owned
    <2>2. CASE obj.fin
      <3>1. ~(api.del /\ ~Merge(api.fin, base.fin, obj.fin)) /\ Merge(api.fin, base.fin, obj.fin) = api.fin
        BY <2>1, <2>2 DEF Merge, TypeOK, VSphereVMType
      <3>2. PatchKeeps
        BY <1>4, <2>1, <2>2, <3>1 DEF Patched, Merge, PatchKeeps
      <3>3. PatchRefused => faults' = faults
        BY <1>4
      <3> QED BY <1>1, <3>2, <3>3
    <2>3. CASE ~obj.fin
      <3>1. api.del /\ obj.del
        BY <1>4, <2>1, <2>3 DEF InvPass
      <3>2. Merge(api.fin, base.fin, obj.fin) = obj.fin
        BY <2>1, <2>3 DEF Merge, TypeOK, VSphereVMType
      <3>3. api' = NoObject
        BY <1>4, <2>3, <3>1, <3>2 DEF Patched
      <3> QED BY <1>1, <1>4, <2>1, <2>3, <3>1, <3>3 DEF PatchRemoves
    <2> QED BY <2>2, <2>3
  <1> QED BY <1>2, <1>3, <1>4

\* Neither the copies of the object nor the point the reconcile has reached
ObjectVars == <<api, cache, pc, obj, base>>

\* The steps that leave all of them alone
LEMMA Bystanders ==
    ASSUME \/ UNCHANGED vars \/ StartFails \/ Resync
           \/ GuestReportsIP \/ GuestHalts \/ VMVanishes
           \/ \E t \in Task : VCenter(t) \/ TaskPurged(t) \/ WatcherFires(t) \/ WatcherFails(t)
    PROVE  UNCHANGED ObjectVars
  BY DEF vars, apiVars, recVars, ObjectVars, StartFails, Resync, GuestReportsIP, GuestHalts,
         VMVanishes, VCenter, TaskSucceeds, TaskFails, TaskPurged, WatcherFires, WatcherFails

\* The life of the object and the knowledge of the reconcile are kept by every
\* step, whatever fails
LEMMA LifeStep ==
    ASSUME TypeInv, LifeInv, [Next]_vars
    PROVE  LifeInv'
  <1> USE DEF TypeInv, LifeInv
  <1>c. /\ NoObject.task = 0 /\ NoObject.bios = 0 /\ ~NoObject.exists /\ ~NoObject.fin /\ ~NoObject.del
        /\ NewObject.task = 0 /\ NewObject.bios = 0 /\ NewObject.exists /\ ~NewObject.fin /\ ~NewObject.del
    BY DEF NoObject, NewObject
  <1>1. CASE UNCHANGED ObjectVars
    BY <1>1 DEF ObjectVars, InvLife, InvPass, Owned
  <1>2. CASE Delete
    <2>a. UNCHANGED <<cache, pc, obj, base>> /\ api.exists /\ ~api.del
      BY <1>2 DEF Delete, recVars
    <2>b. \/ /\ Owned /\ Owned' /\ api'.exists /\ api'.del /\ api'.fin
          \/ /\ ~Owned /\ ~Owned' /\ api' = NoObject
      BY <1>2 DEF Delete, TypeOK, VSphereVMType, Owned, NoObject, NewObject
    <2>1. InvLife'
      BY <1>c, <2>a, <2>b DEF InvLife, Owned
    <2>2. InvPass'
      BY <1>c, <2>a, <2>b DEF InvPass, Owned
    <2> QED BY <2>1, <2>2
  <1>3. CASE CacheSync
    <2>a. UNCHANGED <<api, pc, obj, base>> /\ cache' = api
      BY <1>3 DEF CacheSync, recVars
    <2>1. InvLife'
      BY <1>c, <2>a DEF InvLife, Owned
    <2>2. InvPass'
      BY <1>c, <2>a DEF InvPass, InvLife, Owned
    <2> QED BY <2>1, <2>2
  <1>4. CASE TimePasses
    <2>a. /\ UNCHANGED pc
          /\ api' = Aged(api) /\ cache' = Aged(cache) /\ obj' = Aged(obj) /\ base' = Aged(base)
      BY <1>4 DEF TimePasses
    <2>b. \A o \in {api, cache, obj, base} :
            Aged(o).exists = o.exists /\ Aged(o).fin = o.fin /\ Aged(o).del = o.del
      BY AgedObject DEF TypeOK
    <2>c. Aged(NoObject) = NoObject /\ Aged(NewObject) = NewObject
      BY DEF Aged, NoObject, NewObject
    <2>1. InvLife'
      BY <2>a, <2>b, <2>c DEF InvLife, Owned
    <2>2. InvPass'
      BY <2>a, <2>b, <2>c DEF InvPass, Owned
    <2> QED BY <2>1, <2>2
  <1>5. CASE Crash
    <2>a. pc' = "idle" /\ obj' = NoObject /\ base' = NoObject /\ cache' = api /\ api' = api
      BY <1>5 DEF Crash
    <2>1. InvLife'
      BY <1>c, <2>a DEF InvLife, Owned
    <2>2. InvPass'
      BY <1>c, <2>a DEF InvPass
    <2> QED BY <2>1, <2>2
  <1>6. CASE Start
    <2>a. /\ UNCHANGED cache /\ pc = "idle"
          /\ \/ pc' = "inflight" /\ obj' = cache /\ base' = cache /\ cache.exists
                /\ (cache.fin \/ cache.del)
             \/ UNCHANGED <<pc, obj, base>>
      BY <1>6 DEF Start
    <2>b. \/ api' = api
          \/ /\ cache.exists /\ ~cache.fin /\ ~cache.del /\ api.exists
             /\ api' = [api EXCEPT !.fin = TRUE]
             /\ UNCHANGED <<pc, obj, base>>
      BY <1>6 DEF Start
    <2>d. /\ api'.exists = api.exists /\ api'.del = api.del /\ (Owned => Owned')
          /\ api.fin => api'.fin
      BY <2>b DEF TypeOK, VSphereVMType, Owned
    <2>1. InvLife'
      BY <2>a, <2>b, <2>d, <1>c DEF InvLife, Owned, TypeOK, VSphereVMType
    <2>2. InvPass'
      BY <2>a, <2>b, <2>d, <1>c DEF InvLife, InvPass, Owned
    <2> QED BY <2>1, <2>2
  <1>7. CASE CheckTask
    <2>1. /\ UNCHANGED <<api, cache, base>> /\ pc = "inflight" /\ pc' \in {"act", "final"}
          /\ obj'.fin = obj.fin /\ obj'.del = obj.del
      BY <1>7 DEF CheckTask, apiVars, TypeOK, VSphereVMType
    <2>2. InvLife'
      BY <2>1 DEF InvLife, Owned
    <2>3. InvPass'
      BY <2>1 DEF InvPass, Owned
    <2> QED BY <2>2, <2>3
  <1>8. CASE Act
    <2>1. /\ pc = "act" /\ pc' \in {"act", "early", "final"} /\ UNCHANGED <<api, cache, base>>
          /\ obj'.del = obj.del
          /\ obj'.fin = obj.fin \/ (obj.del /\ pc' = "final")
      BY <1>8, ActStep DEF BeginsNone, Begins
    <2>2. InvLife'
      BY <2>1 DEF InvLife, Owned
    <2>3. InvPass'
      BY <2>1 DEF InvPass, Owned
    <2> QED BY <2>2, <2>3
  <1>9. CASE EarlyPatch \/ FinalPatch
    <2>a. UNCHANGED cache /\ pc # "idle"
      BY <1>9, PatchStep
    <2>b. \/ /\ pc' # "idle" /\ UNCHANGED <<obj, base>>
             /\ pc' \in {"final", "wait"}
          \/ pc' = "idle" /\ obj' = NoObject /\ base' = NoObject
      BY <1>9, PatchStep
    <2>c. \/ api' = api
          \/ Owned /\ Owned' /\ api'.exists /\ api'.fin /\ api'.del = api.del
          \/ Owned /\ obj.del /\ api' = NoObject
      BY <1>9, PatchStep DEF PatchRefused, PatchKeeps, PatchRemoves, Owned
    <2>1. InvLife'
      BY <2>a, <2>c, <1>c DEF InvLife, InvPass, Owned
    <2>2. InvPass'
      BY <2>a, <2>b, <2>c, <1>c DEF InvPass, Owned
    <2> QED BY <2>1, <2>2
  <1>10. CASE CacheWait \/ CacheWaitTimeout
    <2>a. UNCHANGED <<api, cache>> /\ pc' = "idle" /\ obj' = NoObject /\ base' = NoObject
      BY <1>10 DEF CacheWait, CacheWaitTimeout, Return, apiVars
    <2>1. InvLife'
      BY <2>a DEF InvLife, Owned
    <2>2. InvPass'
      BY <2>a DEF InvPass
    <2> QED BY <2>1, <2>2
  <1> QED BY <1>1, <1>2, <1>3, <1>4, <1>5, <1>6, <1>7, <1>8, <1>9, <1>10, Bystanders
          DEF Next, Reconcile

\* At first the object is new and no reconcile runs
LEMMA LifeInit == Init => LifeInv
  BY DEF Init, LifeInv, InvLife, InvPass, Owned, NewObject, NoObject

-----------------------------------------------------------------------------
(* Clones are kept apart in a watched environment.                         *)

CInv == TypeOK /\ CloneInv

\* What is kept by the steps of the reconcile and what lies before and after it
Kept == /\ CloneEnvironment' /\ CloneGuarded' /\ CloneReferenced'
        /\ Untouched => InvMachine'

\* No clone runs at first
LEMMA CloneInit == Watched /\ Init => CInv
  <1> SUFFICES ASSUME Watched, Init PROVE CInv
    OBVIOUS
  <1>1. TypeOK /\ InvRefs /\ InvLife /\ InvPass
    BY TypeInit, LifeInit DEF TypeInv, LifeInv
  <1>2. NoClone /\ ~Exists /\ NoBios /\ \A t \in Task : ~Running(t)
    BY DEF Init, NoClone, Cloning, Running, NoTask, Exists, NoVM, NoBios, NewObject, NoObject
  <1>3. CloneEnvironment
    BY DEF Init, CloneEnvironment, Watched, Untouched
  <1>4. CloneGuarded /\ CloneReferenced
    BY <1>2 DEF Init, CloneGuarded, CloneReferenced, NoClone, CloneOnly
  <1>5. InvMachine
    BY <1>2 DEF InvMachine
  <1> QED BY <1>1, <1>3, <1>4, <1>5 DEF CInv, CloneInv

\* The invariant leaves room for one clone
LEMMA OneClone == CInv => NoConcurrentClones
  <1> SUFFICES ASSUME CInv PROVE NoConcurrentClones
    OBVIOUS
  <1>1. CASE ~Owned
    BY <1>1 DEF CInv, CloneInv, CloneGuarded, NoClone, Cloning, NoConcurrentClones
  <1>2. CASE Owned
    <2>1. NoClone \/ \E r \in {api.task, obj.task} : CloneOnly(r)
      BY <1>2 DEF CInv, TypeOK, CloneInv, CloneReferenced
    <2> QED BY <2>1 DEF NoClone, CloneOnly, Cloning, NoConcurrentClones
  <1> QED BY <1>1, <1>2

\* The faults that a watched environment excludes do not strike
LEMMA CloneNoStrike ==
    ASSUME CInv
    PROVE  /\ \A f \in {"lookup", "lag", "crash"} : ~Strike(f)
           /\ Untouched => ~Strike("vanish")
  BY DEF CInv, TypeOK, CloneInv, CloneEnvironment, Strike, FaultKinds

\* The others leave its limits as they are
LEMMA CloneStrike ==
    ASSUME CInv,
           \/ Strike("rpc") \/ Strike("purge") \/ Strike("taskError") \/ Strike("patch")
           \/ Strike("vanish") \/ UNCHANGED faults
    PROVE  /\ CloneEnvironment'
           /\ faults["patch"] = 0 => faults'["patch"] = 0
           /\ Strike("patch") => faults'["patch"] = 0
  <1>1. /\ faults \in [FaultKinds -> Nat]
        /\ \A f \in {"lookup", "lag", "crash"} : faults[f] = 0
        /\ faults["patch"] <= 1
        /\ Untouched => faults["vanish"] = 0
    BY DEF CInv, TypeOK, CloneInv, CloneEnvironment
  <1>k. {"rpc", "purge", "taskError", "patch", "vanish", "lookup", "lag", "crash"} \subseteq FaultKinds
    BY DEF FaultKinds
  <1>2. \A f \in FaultKinds : faults'[f] \in Nat /\ faults'[f] <= faults[f]
    BY <1>1, <1>k DEF Strike
  <1>3. Strike("patch") => faults'["patch"] = 0
    BY <1>1, <1>k DEF Strike
  <1>4. CloneEnvironment'
    BY <1>1, <1>2, <1>k DEF CloneEnvironment, Untouched
  <1>5. faults["patch"] = 0 => faults'["patch"] = 0
    BY <1>2, <1>k
  <1> QED BY <1>3, <1>4, <1>5

\* Steps that change neither the objects nor the reconcile, start no task and
\* keep the machine
LEMMA CloneQuietStep ==
    ASSUME CInv, UNCHANGED ObjectVars,
           CloneEnvironment', faults["patch"] = 0 => faults'["patch"] = 0,
           Untouched => (Exists' <=> Exists) /\ vm'.id = vm.id,
           \A t \in Task : tasks'[t].kind = tasks[t].kind /\ (Running(t)' => Running(t))
    PROVE  Kept
  <1> USE DEF CInv, CloneInv, ObjectVars
  <1>q. /\ NoClone => NoClone'
        /\ \A r \in {api.task, obj.task} : CloneOnly(r) => CloneOnly(r)'
        /\ (Owned' <=> Owned) /\ (NoBios' <=> NoBios) /\ (Deleting' <=> Deleting)
    BY DEF NoClone, CloneOnly, Cloning, Owned, NoBios, Deleting
  <1>1. CloneGuarded'
    BY <1>q DEF CloneGuarded, Untouched
  <1>2. CloneReferenced'
    BY <1>q DEF CloneReferenced, CloneOnly
  <1>3. Untouched => InvMachine'
    BY <1>q DEF InvMachine
  <1> QED BY <1>1, <1>2, <1>3 DEF Kept

\* vCenter's tasks and the goroutines that wait for them
LEMMA CloneTasks ==
    ASSUME CInv, NEW t \in Task,
           VCenter(t) \/ TaskPurged(t) \/ WatcherFires(t) \/ WatcherFails(t)
    PROVE  Kept
  <1>o. UNCHANGED ObjectVars
    BY Bystanders
  <1>1. CASE TaskSucceeds(t)
    <2> DEFINE kind == tasks[t].kind
    <2>a. UNCHANGED faults /\ Running(t) /\ Feasible(kind) /\ vm' = Effect(t)
      BY <1>1 DEF TaskSucceeds
    <2>b. \A u \in Task : /\ tasks'[u].kind = tasks[u].kind
                          /\ Running(u)' <=> Running(u) /\ u # t
      BY <1>1 DEF TaskSucceeds, CInv, TypeOK, Running
    <2>c. CloneEnvironment' /\ (faults["patch"] = 0 => faults'["patch"] = 0)
      BY <2>a, CloneStrike
    <2>d. kind # "none"
      BY <2>a DEF Feasible, ConfigItems
    <2>1. CASE kind \in {"powerOn", "powerOff"} \cup ConfigItems
      <3>1. (Exists' <=> Exists) /\ vm'.id = vm.id
        BY <2>a, <2>1 DEF Effect, Feasible, ConfigItems, Exists, CInv, TypeOK
      <3> QED BY <1>o, <2>b, <2>c, <3>1, CloneQuietStep
    <2>2. CASE ~Untouched
      BY <1>o, <2>b, <2>c, <2>2, CloneQuietStep
    <2>3. CASE kind = "clone" /\ Untouched
      <3>1. /\ Exists' /\ vm'.id = t /\ ~Exists /\ NoBios
        BY <2>a, <2>3 DEF Effect, Feasible, ConfigItems, Exists, NoVM, CInv, CloneInv, InvMachine
      <3>2. ~NoClone
        BY <2>a, <2>3 DEF NoClone, Cloning
      <3>3. CloneGuarded'
        BY <1>o, <3>2 DEF CInv, CloneInv, CloneGuarded, ObjectVars, Owned
      <3>4. \A u \in Task : ~Cloning(u)'
        BY <2>a, <2>b, <2>3, OneClone DEF NoConcurrentClones, Cloning
      <3>5. CloneReferenced'
        BY <1>o, <3>4 DEF CInv, CloneInv, CloneReferenced, CloneOnly, NoClone, ObjectVars, Owned
      <3>6. InvMachine'
        BY <1>o, <2>b, <2>3, <3>1, <3>4
        DEF CInv, CloneInv, InvMachine, Cloning, NoBios, Deleting, ObjectVars
      <3> QED BY <2>c, <3>3, <3>5, <3>6 DEF Kept
    <2>4. CASE kind = "destroy" /\ Untouched
      <3>1. ~Exists' /\ Deleting /\ Deleting'
        BY <1>o, <2>a, <2>4 DEF Effect, ConfigItems, Exists, NoVM, CInv, CloneInv, InvMachine,
                                Deleting, ObjectVars
      <3>2. CloneGuarded'
        BY <1>o, <2>b, <3>1
        DEF CInv, CloneInv, CloneGuarded, NoClone, Cloning, ObjectVars, Owned
      <3>3. CloneReferenced'
        BY <1>o, <2>b, <2>c
        DEF CInv, CloneInv, CloneReferenced, CloneOnly, NoClone, Cloning, ObjectVars, Owned
      <3>4. InvMachine'
        BY <1>o, <2>b, <2>4, <3>1 DEF CInv, CloneInv, InvMachine, NoBios, ObjectVars
      <3> QED BY <2>c, <3>2, <3>3, <3>4 DEF Kept
    <2> QED BY <2>d, <2>1, <2>2, <2>3, <2>4 DEF CInv, TypeOK, TaskKinds
  <1>2. CASE TaskFails(t) \/ TaskPurged(t)
    <2>1. \A u \in Task : tasks'[u].kind = tasks[u].kind /\ (Running(u)' => Running(u))
      BY <1>2 DEF TaskFails, TaskPurged, CInv, TypeOK, Running
    <2>2. CloneEnvironment' /\ (faults["patch"] = 0 => faults'["patch"] = 0)
      BY <1>2, CloneStrike DEF TaskFails, TaskPurged
    <2> QED BY <1>o, <1>2, <2>1, <2>2, CloneQuietStep DEF TaskFails, TaskPurged, Exists
  <1>3. CASE WatcherFires(t)
    <2>1. CloneEnvironment' /\ (faults["patch"] = 0 => faults'["patch"] = 0)
      BY <1>3, CloneStrike DEF WatcherFires
    <2> QED BY <1>o, <1>3, <2>1, CloneQuietStep DEF WatcherFires, vcVars, Exists, Running
  <1>4. CASE WatcherFails(t)
    BY <1>4, CloneNoStrike DEF WatcherFails
  <1> QED BY <1>1, <1>2, <1>3, <1>4 DEF VCenter

\* The API server, the cache, the queue, the clock and the guest
LEMMA CloneOthers ==
    ASSUME CInv,
           \/ StartFails \/ Crash \/ Delete \/ CacheSync \/ Resync \/ TimePasses
           \/ GuestReportsIP \/ GuestHalts \/ VMVanishes
    PROVE  Kept
  <1> USE DEF CInv, CloneInv
  <1>c. /\ NoObject.task = 0 /\ NoObject.bios = 0 /\ ~NoObject.exists /\ ~NoObject.fin /\ ~NoObject.del
        /\ NewObject.task = 0 /\ NewObject.bios = 0 /\ NewObject.exists /\ ~NewObject.fin /\ ~NewObject.del
    BY DEF NoObject, NewObject
  <1>1. CASE StartFails \/ Resync
    <2>1. CloneEnvironment' /\ (faults["patch"] = 0 => faults'["patch"] = 0)
      BY <1>1, CloneStrike DEF StartFails, Resync
    <2> QED BY <1>1, <2>1, Bystanders, CloneQuietStep DEF StartFails, Resync, vcVars, Exists, Running
  <1>2. CASE Crash
    BY <1>2, CloneNoStrike DEF Crash
  <1>3. CASE VMVanishes
    <2>1. CloneEnvironment' /\ (faults["patch"] = 0 => faults'["patch"] = 0)
      BY <1>3, CloneStrike DEF VMVanishes
    <2>2. ~Untouched
      BY <1>3, CloneNoStrike DEF VMVanishes
    <2> QED BY <1>3, <2>1, <2>2, Bystanders, CloneQuietStep DEF VMVanishes, Running
  <1>4. CASE GuestReportsIP \/ GuestHalts
    <2>1. CloneEnvironment' /\ (faults["patch"] = 0 => faults'["patch"] = 0)
      BY <1>4, CloneStrike DEF GuestReportsIP, GuestHalts
    <2>2. (Exists' <=> Exists) /\ vm'.id = vm.id
      BY <1>4 DEF GuestReportsIP, GuestHalts, Exists, TypeOK
    <2> QED BY <1>4, <2>1, <2>2, Bystanders, CloneQuietStep DEF GuestReportsIP, GuestHalts, Running
  <1>5. CASE Delete
    <2>a. UNCHANGED <<cache, pc, obj, base, vm, tasks, faults>> /\ api.exists /\ ~api.del
      BY <1>5 DEF Delete, recVars, vcVars
    <2>b. /\ api.fin => /\ Owned /\ Owned' /\ api'.exists /\ api'.del /\ api'.fin
                        /\ api'.task = api.task /\ api'.bios = api.bios
          /\ ~api.fin => ~Owned /\ ~Owned' /\ api' = NoObject
      BY <1>5 DEF Delete, TypeOK, VSphereVMType, Owned, NoObject, NewObject
    <2>q. /\ (NoClone' <=> NoClone) /\ (Exists' <=> Exists)
          /\ (Deleting' <=> Deleting) /\ (NoBios => NoBios')
      BY <2>a, <2>b, <1>c DEF NoClone, Cloning, Exists, Running, Deleting, NoBios
    <2>1. CloneEnvironment'
      BY <2>a, CloneStrike
    <2>2. CloneGuarded'
      BY <2>a, <2>b, <2>q DEF CloneGuarded
    <2>3. CloneReferenced'
      BY <2>a, <2>b, <2>q DEF CloneReferenced, CloneOnly, Cloning, Running
    <2>4. Untouched => InvMachine'
      BY <2>a, <2>b, <2>q, <1>c DEF InvMachine, Running
    <2> QED BY <2>1, <2>2, <2>3, <2>4 DEF Kept
  <1>6. CASE CacheSync
    <2>a. UNCHANGED <<api, pc, obj, base, vm, tasks, faults>> /\ cache' = api
      BY <1>6 DEF CacheSync, recVars, vcVars
    <2>q. /\ (NoClone' <=> NoClone) /\ (Exists' <=> Exists) /\ (Owned' <=> Owned)
          /\ (Deleting => Deleting') /\ (NoBios => NoBios')
      BY <2>a, <1>c DEF NoClone, Cloning, Exists, Running, Deleting, NoBios, Owned, InvLife
    <2>1. CloneEnvironment'
      BY <2>a, CloneStrike
    <2>2. CloneGuarded'
      BY <2>a, <2>q DEF CloneGuarded
    <2>3. CloneReferenced'
      BY <2>a, <2>q DEF CloneReferenced, CloneOnly, Cloning, Running
    <2>4. Untouched => InvMachine'
      BY <2>a, <2>q DEF InvMachine, Running
    <2> QED BY <2>1, <2>2, <2>3, <2>4 DEF Kept
  <1>7. CASE TimePasses
    <2>a. /\ UNCHANGED <<pc, vm, tasks, faults>>
          /\ api' = Aged(api) /\ cache' = Aged(cache) /\ obj' = Aged(obj) /\ base' = Aged(base)
      BY <1>7 DEF TimePasses, vcVars
    <2>b. \A o \in {api, cache, obj, base} :
            /\ Aged(o).task = o.task /\ Aged(o).bios = o.bios
            /\ Aged(o).exists = o.exists /\ Aged(o).fin = o.fin /\ Aged(o).del = o.del
      BY AgedObject DEF TypeOK
    <2>q. /\ (NoClone' <=> NoClone) /\ (Exists' <=> Exists) /\ (Owned' <=> Owned)
          /\ (Deleting' <=> Deleting) /\ (NoBios' <=> NoBios)
      BY <2>a, <2>b DEF NoClone, Cloning, Exists, Running, Deleting, NoBios, Owned
    <2>1. CloneEnvironment'
      BY <2>a, CloneStrike
    <2>2. CloneGuarded'
      BY <2>a, <2>b, <2>q DEF CloneGuarded
    <2>3. CloneReferenced'
      BY <2>a, <2>b, <2>q DEF CloneReferenced, CloneOnly, Cloning, Running
    <2>4. Untouched => InvMachine'
      BY <2>a, <2>b, <2>q DEF InvMachine, Running
    <2> QED BY <2>1, <2>2, <2>3, <2>4 DEF Kept
  <1> QED BY <1>1, <1>2, <1>3, <1>4, <1>5, <1>6, <1>7

\* The steps of a reconcile up to the point where it acts
LEMMA CloneCheck ==
    ASSUME CInv, Start \/ CheckTask
    PROVE  Kept
  <1> USE DEF CInv, CloneInv
  <1>c. /\ NoObject.task = 0 /\ NoObject.bios = 0 /\ ~NoObject.exists /\ ~NoObject.fin /\ ~NoObject.del
        /\ NewObject.task = 0 /\ NewObject.bios = 0 /\ NewObject.exists /\ ~NewObject.fin /\ ~NewObject.del
    BY DEF NoObject, NewObject
  <1>1. CASE Start
    <2>a. /\ UNCHANGED <<cache, vm, tasks, faults>> /\ pc = "idle"
          /\ \/ pc' = "inflight" /\ obj' = cache /\ base' = cache /\ cache.exists
                /\ (cache.fin \/ cache.del)
             \/ UNCHANGED <<pc, obj, base>>
      BY <1>1 DEF Start, vcVars
    <2>b. \/ api' = api
          \/ /\ cache.exists /\ ~cache.fin /\ ~cache.del /\ api.exists
             /\ api' = [api EXCEPT !.fin = TRUE]
             /\ UNCHANGED <<pc, obj, base>>
      BY <1>1 DEF Start
    <2>d. /\ api'.exists = api.exists /\ api'.del = api.del
          /\ api'.task = api.task /\ api'.bios = api.bios /\ (Owned => Owned')
          /\ api.fin => api'.fin
      BY <2>b DEF TypeOK, VSphereVMType, Owned
    <2>q. /\ (NoClone' <=> NoClone) /\ (Exists' <=> Exists)
          /\ (Deleting => Deleting') /\ (NoBios => NoBios')
      BY <2>a, <2>d DEF NoClone, Cloning, Exists, Running, Deleting, NoBios
    <2>1. CloneEnvironment'
      BY <2>a, CloneStrike
    <2>2. CloneGuarded'
      BY <2>a, <2>d, <2>q DEF CloneGuarded
    <2>3. CloneReferenced'
      <3>1. CASE Owned
        BY <2>a, <2>d, <3>1 DEF CloneReferenced, CloneOnly, Cloning, Running
      <3>2. CASE ~Owned /\ Owned'
        <4>1. api.task = 0 /\ cache.task = 0 /\ pc' = "idle" /\ NoClone'
          BY <2>a, <2>b, <2>q, <3>2, <1>c DEF InvLife, CloneGuarded, Owned
        <4> QED BY <2>a, <2>d, <4>1 DEF CloneReferenced, CloneOnly, NoClone
      <3>3. CASE ~Owned'
        BY <3>3 DEF CloneReferenced
      <3> QED BY <3>1, <3>2, <3>3
    <2>4. Untouched => InvMachine'
      BY <2>a, <2>d, <2>q DEF InvMachine, Running
    <2> QED BY <2>1, <2>2, <2>3, <2>4 DEF Kept
  <1>2. CASE CheckTask
    <2>1. PICK found \in BOOLEAN :
            /\ TaskFound(found)
            /\ LET r == CheckAndRetryTask(obj, found, IF found THEN tasks[obj.task].st ELSE "none")
               IN  /\ obj' = [obj EXCEPT !.task = r.task, !.retry = r.retry]
                   /\ pc' = IF r.verdict = "go" THEN "act" ELSE "final"
      BY <1>2 DEF CheckTask
    <2> DEFINE st == IF found THEN tasks[obj.task].st ELSE "none"
               r  == CheckAndRetryTask(obj, found, st)
    <2>a. UNCHANGED <<api, cache, base, vm, tasks>> /\ pc = "inflight"
      BY <1>2 DEF CheckTask, apiVars, vcVars
    <2>t. obj.task \in TaskId /\ (obj.task # 0 => obj.task \in Task)
      BY ConstantsAssumption DEF ConstantsAssumption, TypeOK, VSphereVMType, Task, TaskId
    <2>f. /\ UNCHANGED faults
          /\ found <=> obj.task # 0 /\ tasks[obj.task].st # "purged"
      BY <2>1, CloneNoStrike DEF TaskFound
    <2>2. st \in TaskStates /\ (found => st \notin {"none", "purged"})
      BY <2>t, <2>f DEF InvRefs, TypeOK, TaskStates
    \* a task that runs is found and keeps its reference
    <2>3. /\ r.task \in {0, obj.task} /\ r.verdict \in {"go", "error", "inFlight"}
          /\ found /\ st = "running" => r.task = obj.task /\ r.verdict # "go"
      BY <2>2 DEF CheckAndRetryTask, TypeOK, VSphereVMType, TaskStates
    <2>4. /\ obj' = [obj EXCEPT !.task = r.task, !.retry = r.retry]
          /\ pc' = IF r.verdict = "go" THEN "act" ELSE "final"
      BY <2>1
    <2>5. found /\ st = "running" <=> obj.task # 0 /\ Running(obj.task)
      BY <2>f DEF Running
    <2> HIDE DEF r, st
    <2>6. /\ obj'.task = r.task /\ obj'.bios = obj.bios
          /\ obj'.fin = obj.fin /\ obj'.del = obj.del
      BY <2>4 DEF TypeOK, VSphereVMType
    <2>7. obj.task # 0 /\ Running(obj.task) => obj'.task = obj.task /\ pc' = "final"
      BY <2>3, <2>4, <2>5, <2>6
    <2>8. pc' \in {"act", "final"} /\ obj'.task \in {0, obj.task}
      BY <2>3, <2>4, <2>6
    <2>q. /\ (NoClone' <=> NoClone) /\ (Exists' <=> Exists) /\ (Owned' <=> Owned)
          /\ (Deleting' <=> Deleting) /\ (NoBios' <=> NoBios)
      BY <2>a, <2>6, <2>8 DEF NoClone, Cloning, Exists, Running, Deleting, NoBios, Owned
    <2>9. CloneEnvironment'
      BY <2>f, CloneStrike
    <2>10. CloneGuarded'
      BY <2>a, <2>6, <2>q DEF CloneGuarded, InvPass
    <2>11. CloneReferenced'
      <3>1. CASE NoClone
        BY <2>a, <2>8, <2>q, <3>1 DEF CloneReferenced, CloneOnly, NoClone
      <3>2. CASE ~NoClone /\ Owned
        <4>1. PICK t \in Task : Cloning(t)
          BY <3>2 DEF NoClone
        <4>2. t = obj.task /\ t # 0 /\ Running(obj.task)
          BY <2>a, <3>2, <4>1, ConstantsAssumption
          DEF CloneReferenced, CloneOnly, Cloning, Task, ConstantsAssumption
        <4> QED BY <2>a, <2>7, <2>q, <3>2, <4>2 DEF CloneReferenced, CloneOnly, Cloning, Running
      <3>3. CASE ~Owned
        BY <2>q, <3>3 DEF CloneReferenced
      <3> QED BY <3>1, <3>2, <3>3
    <2>12. Untouched => InvMachine'
      BY <2>a, <2>6, <2>q DEF InvMachine, Running
    <2> QED BY <2>9, <2>10, <2>11, <2>12 DEF Kept
  <1> QED BY <1>1, <1>2

\* The steps in which ReconcileVM and DestroyVM act on the machine
LEMMA CloneAct ==
    ASSUME CInv, Act
    PROVE  Kept
  <1> USE DEF CInv, CloneInv, TypeInv
  <1>a. pc = "act" /\ UNCHANGED <<api, cache, base>>
    BY ActStep
  <1>1. /\ NoClone /\ obj.fin /\ (Owned' <=> Owned)
        /\ ~obj.del => Owned
        /\ obj.del => Deleting
    BY <1>a DEF CloneReferenced, CloneGuarded, InvPass, Owned, Deleting
  <1>2. Untouched => /\ FoundVM <=> Exists
                     /\ ~Exists /\ ~obj.del => NoBios
    BY <1>a DEF FoundVM, InvMachine, Deleting
  <1>3. ASSUME NEW t \in Task, NEW kind \in TaskKinds, Begins(t, kind)
        PROVE  Kept
    <2>a. /\ UNCHANGED <<vm, faults>>
          /\ obj'.task = t /\ obj'.bios = obj.bios /\ obj'.fin = obj.fin /\ obj'.del = obj.del
          /\ pc' \in {"act", "early", "final"}
          /\ kind = "clone" => ~obj.del /\ ~FoundVM /\ pc' = "early"
          /\ kind = "destroy" => obj.del
      BY <1>3 DEF Begins
    <2>b. /\ \A u \in Task : u # t => tasks'[u] = tasks[u]
          /\ tasks'[t].kind = kind /\ tasks[t].st = "none"
      BY <1>3 DEF Begins, Submit, TypeOK
    <2>c. \A u \in Task : Cloning(u)' => u = t /\ kind = "clone"
      BY <1>1, <2>b DEF NoClone, Cloning, Running
    <2>d. base.task # t
      <3>1. base.task # 0 => tasks[base.task].st # "none"
        BY DEF InvRefs
      <3> QED BY <2>b, <3>1, ConstantsAssumption DEF Task, ConstantsAssumption
    <2>q. (NoBios' <=> NoBios) /\ (Deleting => Deleting') /\ (Exists' <=> Exists)
      BY <1>a, <2>a DEF NoBios, Deleting, Exists
    <2>1. CloneEnvironment'
      BY <2>a, CloneStrike
    <2>2. CloneGuarded'
      BY <1>1, <2>a, <2>c, <2>q, <1>a DEF CloneGuarded, NoClone
    <2>3. CloneReferenced'
      BY <1>a, <1>1, <2>a, <2>c, <2>d DEF CloneReferenced, CloneOnly, NoClone
    <2>4. ASSUME Untouched PROVE InvMachine'
      <3>1. \A u \in Task : Running(u)' /\ tasks'[u].kind = "clone" => ~Exists' /\ NoBios'
        BY <1>2, <2>a, <2>c, <2>q, <2>4 DEF Cloning
      <3>2. \A u \in Task : Running(u)' /\ tasks'[u].kind = "destroy" => Deleting'
        BY <1>1, <2>a, <2>b, <2>q, <2>4 DEF InvMachine, Running
      <3>3. Exists' => \A o \in {api', cache', obj', base'} : o.bios \in {0, vm'.id}
        BY <1>a, <2>a, <2>q, <2>4 DEF InvMachine
      <3>4. ~Exists' => NoBios' \/ Deleting'
        BY <2>q, <2>4 DEF InvMachine
      <3> QED BY <3>1, <3>2, <3>3, <3>4 DEF InvMachine
    <2> QED BY <2>1, <2>2, <2>3, <2>4 DEF Kept
  <1>4. CASE BeginsNone
    <2>a. /\ pc' = "final" /\ UNCHANGED tasks
          /\ Strike("rpc") \/ UNCHANGED faults
          /\ (Exists' <=> Exists) /\ vm'.id = vm.id
          /\ obj'.task = obj.task /\ obj'.del = obj.del
          /\ (Exists /\ obj'.bios = vm.id) \/ obj'.bios = obj.bios
          /\ obj'.fin = obj.fin \/ (obj.del /\ ~FoundVM)
      BY <1>4 DEF BeginsNone
    <2>q. /\ NoClone' /\ (Deleting => Deleting')
          /\ ~Exists /\ NoBios => NoBios'
      BY <1>a, <1>1, <2>a DEF NoClone, Cloning, Running, Deleting, NoBios
    <2>1. CloneEnvironment'
      BY <2>a, CloneStrike
    <2>2. CloneGuarded'
      BY <1>1, <1>2, <2>a, <2>q DEF CloneGuarded
    <2>3. CloneReferenced'
      BY <1>a, <1>1, <2>a, <2>q DEF CloneReferenced, CloneOnly, NoClone
    <2>4. ASSUME Untouched PROVE InvMachine'
      <3>1. \A u \in Task : Running(u)' /\ tasks'[u].kind = "clone" => ~Exists' /\ NoBios'
        BY <2>q DEF NoClone, Cloning
      <3>2. \A u \in Task : Running(u)' /\ tasks'[u].kind = "destroy" => Deleting'
        BY <2>a, <2>q, <2>4 DEF InvMachine, Running
      <3>3. Exists' => \A o \in {api', cache', obj', base'} : o.bios \in {0, vm'.id}
        BY <1>a, <2>a, <2>4 DEF InvMachine
      <3>4. ~Exists' => NoBios' \/ Deleting'
        BY <2>a, <2>q, <2>4 DEF InvMachine
      <3> QED BY <3>1, <3>2, <3>3, <3>4 DEF InvMachine
    <2> QED BY <2>1, <2>2, <2>3, <2>4 DEF Kept
  <1> QED BY <1>3, <1>4, ActStep

\* The steps that patch the object and wait for the cache
LEMMA ClonePatch ==
    ASSUME CInv, EarlyPatch \/ FinalPatch \/ CacheWait \/ CacheWaitTimeout
    PROVE  Kept
  <1> USE DEF CInv, CloneInv, TypeInv, LifeInv
  <1>c. NoObject.task = 0 /\ NoObject.bios = 0 /\ ~NoObject.exists /\ ~NoObject.fin /\ ~NoObject.del
    BY DEF NoObject, NewObject
  <1>1. CASE EarlyPatch \/ FinalPatch
    <2>a. UNCHANGED <<cache, vm, tasks>> /\ (PatchRefused \/ PatchKeeps \/ PatchRemoves)
      BY <1>1, PatchStep DEF vcVars
    <2>b. \/ pc = "early" /\ pc' = "final" /\ UNCHANGED <<obj, base>>
          \/ pc = "final" /\ obj.task # base.task /\ pc' = "wait" /\ UNCHANGED <<obj, base>>
          \/ /\ pc = "final" /\ obj.task = base.task /\ pc' = "idle"
             /\ obj' = NoObject /\ base' = NoObject
      BY <1>1, PatchStep
    <2>c. faults' = faults \/ Strike("patch")
      BY <1>1, PatchStep DEF PatchKeeps, PatchRemoves
    <2>1. CloneEnvironment' /\ (faults["patch"] = 0 => faults'["patch"] = 0)
      BY <2>c, CloneStrike
    <2>d. /\ api'.bios \in {0, api.bios, obj.bios}
          /\ Owned' => Owned /\ (PatchRefused \/ PatchKeeps)
          /\ Owned /\ ~Owned' => pc = "final" /\ ~obj.fin
      BY <2>a, <2>b, <1>c DEF PatchRefused, PatchKeeps, PatchRemoves, Owned, InvPass
    <2>q. /\ (NoClone' <=> NoClone) /\ (Exists' <=> Exists)
          /\ (Deleting => Deleting') /\ (NoBios => NoBios')
      BY <2>a, <2>b, <2>d, <1>c DEF NoClone, Cloning, Exists, Running, Deleting, NoBios
    <2>2. CloneGuarded'
      BY <2>b, <2>d, <2>q DEF CloneGuarded, InvPass
    <2>o. \A x : CloneOnly(x)' <=> CloneOnly(x)
      BY <2>a DEF CloneOnly, Cloning, Running
    <2>3. ASSUME Owned' PROVE CloneReferenced'
      <3>1. Owned /\ (PatchRefused \/ PatchKeeps)
        BY <2>d, <2>3
      <3>2. CASE PatchRefused
        <4>1. api' = api /\ faults'["patch"] = 0 /\ faults["patch"] # 0
          BY <3>1, <3>2, CloneStrike DEF PatchRefused, Owned, Strike
        <4> QED BY <2>a, <2>b, <2>q, <2>o, <3>1, <4>1 DEF CloneReferenced
      <3>3. CASE PatchKeeps
        <4>1. api'.task = IF obj.task = base.task THEN api.task ELSE obj.task
          BY <3>3 DEF PatchKeeps
        <4> QED BY <2>a, <2>b, <2>q, <2>o, <3>1, <4>1 DEF CloneReferenced
      <3> QED BY <3>1, <3>2, <3>3
    <2>4. ~Owned' => CloneReferenced'
      BY DEF CloneReferenced
    <2>5. Untouched => InvMachine'
      BY <2>a, <2>b, <2>d, <2>q, <1>c DEF InvMachine, Running
    <2> QED BY <2>1, <2>2, <2>3, <2>4, <2>5 DEF Kept
  <1>2. CASE CacheWait \/ CacheWaitTimeout
    <2>a. /\ UNCHANGED <<api, cache, vm, tasks>> /\ pc = "wait" /\ pc' = "idle"
          /\ obj' = NoObject /\ base' = NoObject /\ UNCHANGED faults
          /\ cache.exists => cache.task # base.task \/ cache = api
      BY <1>2, CloneNoStrike DEF CacheWait, CacheWaitTimeout, Return, apiVars, vcVars
    <2>q. /\ (NoClone' <=> NoClone) /\ (Exists' <=> Exists) /\ (Owned' <=> Owned)
          /\ (Deleting => Deleting') /\ (NoBios => NoBios')
      BY <2>a, <1>c DEF NoClone, Cloning, Exists, Running, Deleting, NoBios, Owned
    <2>1. CloneEnvironment'
      BY <2>a, CloneStrike
    <2>2. CloneGuarded'
      BY <2>a, <2>q DEF CloneGuarded
    <2>3. CloneReferenced'
      BY <2>a, <2>q DEF CloneReferenced, CloneOnly, NoClone, Cloning, Running, InvLife, Owned
    <2>4. Untouched => InvMachine'
      BY <2>a, <2>q, <1>c DEF InvMachine, Running
    <2> QED BY <2>1, <2>2, <2>3, <2>4 DEF Kept
  <1> QED BY <1>1, <1>2

\* The invariant is kept by every step
LEMMA CloneStep == CInv /\ [Next]_vars => CInv'
  <1> SUFFICES ASSUME CInv, [Next]_vars PROVE CInv'
    OBVIOUS
  <1>1. TypeOK' /\ InvRefs' /\ InvLife' /\ InvPass'
    BY TypeStep, LifeStep DEF CInv, CloneInv, TypeInv, LifeInv
  <1>2. Kept
    <2>1. CASE UNCHANGED vars
      <3>1. CloneEnvironment' /\ (faults["patch"] = 0 => faults'["patch"] = 0)
        BY <2>1, CloneStrike DEF vars
      <3> QED BY <2>1, <3>1, Bystanders, CloneQuietStep DEF vars, vcVars, Exists, Running
    <2> QED BY <2>1, CloneTasks, CloneOthers, CloneCheck, CloneAct, ClonePatch DEF Next, Reconcile
  <1> QED BY <1>1, <1>2 DEF Kept, CInv, CloneInv, Untouched

\* Whatever fails, the finalizer of a new object is set before anything else is
\* recorded in it, an object that is deleted is never taken for a live one again,
\* and a reconcile holds an object that is owned or that it is about to release
THEOREM ObjectLife == Spec => [](InvLife /\ InvPass)
  <1>1. Init => TypeInv /\ LifeInv
    BY TypeInit, LifeInit
  <1>2. TypeInv /\ LifeInv /\ [Next]_vars => (TypeInv /\ LifeInv)'
    BY TypeStep, LifeStep
  <1> QED BY <1>1, <1>2, PTL DEF Spec, LifeInv

\* clone.go:414: as long as getTask answers, the cache catches up in time and the
\* manager keeps running, two clones never run at once, although a patch may be
\* refused, a policy may be changed and the machine may disappear: the patch right
\* after the clone and the deferred one both record the task
THEOREM ClonesAreApart == Watched => (Spec => []NoConcurrentClones)
  <1> SUFFICES ASSUME Watched PROVE Spec => []NoConcurrentClones
    OBVIOUS
  <1>1. Init => CInv
    BY CloneInit
  <1>2. CInv /\ [Next]_vars => CInv'
    BY CloneStep
  <1>3. CInv => NoConcurrentClones
    BY OneClone
  <1> QED BY <1>1, <1>2, <1>3, PTL DEF Spec

\* In a watched environment in which nobody removes the machine, the finalizer is
\* in place for as long as there is a machine or a clone that will become one
THEOREM FinalizerGuards == Watched /\ Untouched => (Spec => []NoOrphan)
  <1> SUFFICES ASSUME Watched, Untouched PROVE Spec => []NoOrphan
    OBVIOUS
  <1>1. Init => CInv
    BY CloneInit
  <1>2. CInv /\ [Next]_vars => CInv'
    BY CloneStep
  <1>3. CInv => NoOrphan
    BY DEF CInv, CloneInv, CloneGuarded, NoClone, Cloning, Owned, NoOrphan
  <1> QED BY <1>1, <1>2, <1>3, PTL DEF Spec

-----------------------------------------------------------------------------
(* A machine on record is not cloned again, even if it disappears.         *)

UInv == CInv /\ RecordInv

\* No machine, no task and no UUID at first
LEMMA RecordInit == Watched /\ Answered /\ Init => UInv
  <1> SUFFICES ASSUME Watched, Answered, Init PROVE UInv
    OBVIOUS
  <1>1. ~Exists /\ vm.power = "absent" /\ Quiet /\ NoPowerOn
    BY DEF Init, Exists, NoVM, Quiet, NoPowerOn, PoweringOn, Running, NoTask
  <1>2. api.bios = 0 /\ cache.bios = 0 /\ pc = "idle" /\ faults["rpc"] = 0
    BY DEF Init, NewObject, Answered
  <1>3. UUIDCached /\ PowerOnReferenced /\ OnRecorded /\ OnSetUp
    BY <1>1, <1>2 DEF UUIDCached, PowerOnReferenced, OnRecorded, OnSetUp, NoPowerOn, PowerOnOnly
  <1> QED BY <1>1, <1>2, <1>3, CloneInit DEF UInv, RecordInv

\* The faults that strike leave no room for one that fails a call
LEMMA RecordStrike ==
    ASSUME UInv,
           \/ Strike("purge") \/ Strike("taskError") \/ Strike("patch") \/ Strike("vanish")
           \/ Strike("rpc") \/ UNCHANGED faults
    PROVE  /\ ~Strike("rpc") /\ faults'["rpc"] = 0
           /\ faults["patch"] = 0 => faults'["patch"] = 0
  <1>1. faults \in [FaultKinds -> Nat] /\ faults["rpc"] = 0
    BY DEF UInv, CInv, TypeOK, RecordInv
  <1>2. ~Strike("rpc")
    BY <1>1 DEF Strike, FaultKinds
  <1>3. faults'["rpc"] = 0
    BY <1>1, <1>2 DEF Strike, FaultKinds
  <1> QED BY <1>2, <1>3, CloneStrike DEF UInv

\* Steps that change neither the objects nor the reconcile, start no task, power
\* nothing on and leave a machine that is set up as it is
LEMMA RecordQuietStep ==
    ASSUME UInv, UNCHANGED ObjectVars,
           faults'["rpc"] = 0, faults["patch"] = 0 => faults'["patch"] = 0,
           \A t \in Task : /\ tasks'[t].kind = tasks[t].kind
                           /\ Running(t)' => Running(t)
                           /\ Rose(t) => Rose(t)',
           Exists' => /\ Exists /\ vm'.id = vm.id /\ vm'.todo \subseteq vm.todo
                      /\ vm'.power = "on" => vm.power = "on"
    PROVE  RecordInv'
  <1> USE DEF UInv, RecordInv, ObjectVars
  <1>q. /\ NoPowerOn => NoPowerOn'
        /\ Quiet => Quiet'
        /\ \A r \in {api.task, obj.task} : PowerOnOnly(r) => PowerOnOnly(r)'
        /\ (Live' <=> Live) /\ (Owned' <=> Owned)
        /\ vm'.power = "on" => Exists' /\ Exists /\ vm.power = "on"
    BY DEF NoPowerOn, PowerOnOnly, PoweringOn, Quiet, Live, Owned, Deleting, Exists
  <1>r. \A k \in {api.task, obj.task} : Rose(k) => Rose(k)'
    <2>1. \A k \in {api.task, obj.task} : k # 0 => k \in Task
      BY ConstantsAssumption
      DEF ConstantsAssumption, CInv, TypeOK, VSphereVMType, Task, TaskId
    <2> QED BY <2>1 DEF Rose
  <1>1. UUIDCached'
    BY <1>q DEF UUIDCached
  <1>2. PowerOnReferenced'
    BY <1>q DEF PowerOnReferenced
  <1>3. OnRecorded'
    BY <1>q, <1>r DEF OnRecorded
  <1>4. OnSetUp'
    BY <1>q DEF OnSetUp
  <1>5. (api.exists /\ ~api.fin => ~Exists /\ Quiet)'
    BY <1>q
  <1> QED BY <1>1, <1>2, <1>3, <1>4, <1>5

\* A machine that may still be set up has at most one clone or power on task
LEMMA OneSetUpTask ==
    ASSUME UInv, Live, NEW t \in Task, Cloning(t)
    PROVE  NoPowerOn
  <1>1. \E r : CloneOnly(r) /\ PowerOnOnly(r)
    BY DEF UInv, CInv, TypeOK, CloneInv, CloneReferenced, RecordInv, PowerOnReferenced, Live,
           NoClone, CloneOnly, NoPowerOn, PowerOnOnly
  <1>2. PICK r : CloneOnly(r) /\ PowerOnOnly(r)
    BY <1>1
  <1> QED BY <1>2 DEF CloneOnly, PowerOnOnly, NoPowerOn, PoweringOn, Cloning

\* vCenter's tasks and the goroutines that wait for them
LEMMA RecordTasks ==
    ASSUME UInv, NEW t \in Task,
           VCenter(t) \/ TaskPurged(t) \/ WatcherFires(t) \/ WatcherFails(t)
    PROVE  RecordInv'
  <1>o. UNCHANGED ObjectVars
    BY Bystanders
  <1>t. tasks \in [Task -> [kind : TaskKinds, st : TaskStates]]
    BY DEF UInv, CInv, TypeOK
  <1>1. CASE TaskSucceeds(t)
    <2> DEFINE kind == tasks[t].kind
    <2>a. UNCHANGED faults /\ Running(t) /\ Feasible(kind) /\ vm' = Effect(t)
      BY <1>1 DEF TaskSucceeds
    <2>b. \A u \in Task : /\ tasks'[u].kind = tasks[u].kind
                          /\ Running(u)' <=> Running(u) /\ u # t
                          /\ u # t => tasks'[u] = tasks[u]
                          /\ tasks'[t].st = "success"
      BY <1>1, <1>t DEF TaskSucceeds, Running
    <2>r. \A u \in Task : Rose(u) => Rose(u)'
      BY <2>a, <2>b DEF Rose, Running
    <2>c. faults'["rpc"] = 0 /\ (faults["patch"] = 0 => faults'["patch"] = 0)
      BY <2>a, RecordStrike
    <2>d. kind # "none"
      BY <2>a DEF Feasible, ConfigItems
    <2>1. CASE kind \in {"powerOff", "destroy"} \cup ConfigItems
      <3>1. Exists' => /\ Exists /\ vm'.id = vm.id /\ vm'.todo \subseteq vm.todo
                       /\ vm'.power = "on" => vm.power = "on"
        BY <2>a, <2>1 DEF Effect, Feasible, ConfigItems, Exists, NoVM, UInv, CInv, TypeOK
      <3> QED BY <1>o, <2>b, <2>c, <2>r, <3>1, RecordQuietStep
    <2>2. CASE kind = "clone"
      <3>1. vm'.power = "off" /\ vm'.id # 0 /\ Exists'
        <4>1. vm' = [NoVM EXCEPT !.power = "off", !.id = t, !.todo = Drift]
          BY <2>a, <2>2 DEF Effect, ConfigItems
        <4>2. vm'.power = "off" /\ vm'.id = t
          BY <4>1 DEF NoVM
        <4>3. t # 0
          BY ConstantsAssumption DEF Task, ConstantsAssumption
        <4> QED BY <4>2, <4>3 DEF Exists
      <3>2. Live => NoPowerOn
        BY <2>a, <2>2, OneSetUpTask DEF Cloning
      <3>3. (Live' <=> Live) /\ (Owned' <=> Owned)
        BY <1>o DEF Live, Owned, Deleting, ObjectVars
      <3>4. Live => NoPowerOn'
        BY <2>b, <3>2 DEF NoPowerOn, PoweringOn
      <3>5. UUIDCached' /\ OnRecorded' /\ OnSetUp'
        BY <1>o, <3>1, <3>3, <3>4
        DEF UInv, RecordInv, UUIDCached, OnRecorded, OnSetUp, ObjectVars
      <3>6. PowerOnReferenced'
        BY <3>3, <3>4 DEF PowerOnReferenced, PowerOnOnly, NoPowerOn
      <3>7. ~(api.exists /\ ~api.fin)
        BY <2>a DEF UInv, RecordInv, Quiet
      <3> QED BY <1>o, <2>c, <3>1, <3>5, <3>6, <3>7 DEF UInv, RecordInv, ObjectVars
    <2>3. CASE kind = "powerOn"
      <3>1. vm'.power = "on" /\ vm'.id = vm.id /\ vm'.todo = vm.todo /\ Exists /\ Exists'
        BY <2>a, <2>3 DEF Effect, Feasible, ConfigItems, Exists, UInv, CInv, TypeOK
      <3>2. (Live' <=> Live) /\ (Owned' <=> Owned)
        BY <1>o DEF Live, Owned, Deleting, ObjectVars
      <3>3. PoweringOn(t) /\ ~NoPowerOn
        BY <2>a, <2>3 DEF PoweringOn, NoPowerOn
      <3>4. Rose(t)'
        BY <2>b, <2>3, ConstantsAssumption DEF Rose, Task, ConstantsAssumption
      <3>5. Live => NoPowerOn'
        <4>1. \A r : PowerOnOnly(r) => \A u \in Task : PoweringOn(u) => u = t
          BY <3>3 DEF PowerOnOnly
        <4>2. Live => \E r : PowerOnOnly(r)
          BY <3>3 DEF UInv, RecordInv, CInv, TypeOK, PowerOnReferenced
        <4> QED BY <2>b, <4>1, <4>2 DEF NoPowerOn, PoweringOn
      <3>6. PowerOnReferenced'
        BY <3>2, <3>5 DEF PowerOnReferenced, PowerOnOnly, NoPowerOn
      <3>7. OnRecorded'
        BY <1>o, <2>c, <3>2, <3>3, <3>4
        DEF UInv, RecordInv, PowerOnReferenced, PowerOnOnly, OnRecorded, ObjectVars
      <3>8. UUIDCached' /\ OnSetUp'
        BY <1>o, <3>1, <3>2, <3>3 DEF UInv, RecordInv, UUIDCached, OnSetUp, ObjectVars
      <3>9. ~(api.exists /\ ~api.fin)
        BY <2>a DEF UInv, RecordInv, Quiet
      <3> QED BY <1>o, <2>c, <3>1, <3>6, <3>7, <3>8, <3>9 DEF UInv, RecordInv, ObjectVars
    <2> QED BY <1>t, <2>d, <2>1, <2>2, <2>3 DEF TaskKinds
  <1>2. CASE TaskFails(t) \/ TaskPurged(t)
    <2>1. \A u \in Task : tasks'[u].kind = tasks[u].kind /\ (Running(u)' => Running(u))
      BY <1>2, <1>t DEF TaskFails, TaskPurged, Running
    <2>2. \A u \in Task : Rose(u) => Rose(u)'
      BY <1>2, <1>t DEF TaskFails, TaskPurged, Running, Completed, Rose
    <2>3. faults'["rpc"] = 0 /\ (faults["patch"] = 0 => faults'["patch"] = 0)
      BY <1>2, RecordStrike DEF TaskFails, TaskPurged
    <2> QED BY <1>o, <1>2, <2>1, <2>2, <2>3, RecordQuietStep DEF TaskFails, TaskPurged, Exists
  <1>3. CASE WatcherFires(t)
    <2>1. faults'["rpc"] = 0 /\ (faults["patch"] = 0 => faults'["patch"] = 0)
      BY <1>3, RecordStrike DEF WatcherFires
    <2> QED BY <1>o, <1>3, <2>1, RecordQuietStep DEF WatcherFires, vcVars, Exists, Running, Rose
  <1>4. CASE WatcherFails(t)
    BY <1>4, CloneNoStrike DEF WatcherFails, UInv
  <1> QED BY <1>1, <1>2, <1>3, <1>4 DEF VCenter

\* The API server, the cache, the queue, the clock and the guest
LEMMA RecordOthers ==
    ASSUME UInv,
           \/ StartFails \/ Crash \/ Delete \/ CacheSync \/ Resync \/ TimePasses
           \/ GuestReportsIP \/ GuestHalts \/ VMVanishes
    PROVE  RecordInv'
  <1> USE DEF UInv
  <1>c. /\ NoObject.task = 0 /\ NoObject.bios = 0 /\ ~NoObject.exists /\ ~NoObject.fin /\ ~NoObject.del
        /\ NewObject.task = 0 /\ NewObject.bios = 0 /\ NewObject.exists /\ ~NewObject.fin /\ ~NewObject.del
    BY DEF NoObject, NewObject
  <1>1. CASE StartFails \/ Crash
    BY <1>1, CloneNoStrike, RecordStrike DEF StartFails, Crash
  <1>2. CASE Resync
    <2>1. faults'["rpc"] = 0 /\ (faults["patch"] = 0 => faults'["patch"] = 0)
      BY <1>2, RecordStrike DEF Resync
    <2> QED BY <1>2, <2>1, Bystanders, RecordQuietStep DEF Resync, vcVars, Exists, Running, Rose
  <1>3. CASE VMVanishes
    <2>1. faults'["rpc"] = 0 /\ (faults["patch"] = 0 => faults'["patch"] = 0)
      BY <1>3, RecordStrike DEF VMVanishes
    <2>2. ~Exists'
      BY <1>3 DEF VMVanishes, Exists, NoVM
    <2> QED BY <1>3, <2>1, <2>2, Bystanders, RecordQuietStep DEF VMVanishes, Running, Rose
  <1>4. CASE GuestReportsIP \/ GuestHalts
    <2>1. faults'["rpc"] = 0 /\ (faults["patch"] = 0 => faults'["patch"] = 0)
      BY <1>4, RecordStrike DEF GuestReportsIP, GuestHalts
    <2>2. Exists' => /\ Exists /\ vm'.id = vm.id /\ vm'.todo \subseteq vm.todo
                     /\ vm'.power = "on" => vm.power = "on"
      BY <1>4 DEF GuestReportsIP, GuestHalts, Exists, CInv, TypeOK
    <2> QED BY <1>4, <2>1, <2>2, Bystanders, RecordQuietStep
            DEF GuestReportsIP, GuestHalts, Running, Rose
  <1>5. CASE Delete
    <2>a. UNCHANGED <<cache, pc, obj, base, vm, tasks, faults>> /\ api.exists /\ ~api.del
      BY <1>5 DEF Delete, recVars, vcVars
    <2>b. /\ api.fin => /\ Owned /\ Owned' /\ api'.exists /\ api'.fin
                        /\ api'.task = api.task /\ api'.bios = api.bios
          /\ ~api.fin => ~Owned /\ ~Owned' /\ api' = NoObject
      BY <1>5 DEF Delete, CInv, TypeOK, VSphereVMType, Owned, NoObject, NewObject
    <2>f. faults'["rpc"] = 0
      BY <2>a, RecordStrike
    <2>q. /\ (NoPowerOn' <=> NoPowerOn) /\ (Exists' <=> Exists) /\ (Quiet' <=> Quiet)
          /\ (Owned' => Owned) /\ (Live' => Live)
          /\ \A r : (PowerOnOnly(r)' <=> PowerOnOnly(r)) /\ (Rose(r)' <=> Rose(r))
      BY <2>a, <2>b DEF NoPowerOn, PowerOnOnly, PoweringOn, Rose, Exists, Quiet, Running,
                        Deleting, Live
    <2>e. Owned' => api'.task = api.task /\ api'.bios = api.bios
      BY <2>b
    <2>1. UUIDCached'
      BY <2>a, <2>e, <2>q DEF RecordInv, UUIDCached
    <2>2. PowerOnReferenced' /\ OnRecorded' /\ OnSetUp'
      BY <2>a, <2>e, <2>q DEF RecordInv, PowerOnReferenced, OnRecorded, OnSetUp, Live
    <2>3. (api.exists /\ ~api.fin => ~Exists /\ Quiet)'
      BY <2>b, <1>c
    <2> QED BY <2>a, <2>f, <2>q, <2>1, <2>2, <2>3 DEF RecordInv
  <1>6. CASE CacheSync
    <2>a. UNCHANGED <<api, pc, obj, base, vm, tasks, faults>> /\ cache' = api
      BY <1>6 DEF CacheSync, recVars, vcVars
    <2>f. faults'["rpc"] = 0
      BY <2>a, RecordStrike
    <2>q. /\ (NoPowerOn' <=> NoPowerOn) /\ (Exists' <=> Exists) /\ (Quiet' <=> Quiet)
          /\ (Owned' <=> Owned) /\ (Live' => Live)
          /\ \A r : (PowerOnOnly(r)' <=> PowerOnOnly(r)) /\ (Rose(r)' <=> Rose(r))
      BY <2>a, <1>c DEF NoPowerOn, PowerOnOnly, PoweringOn, Rose, Exists, Quiet, Running,
                        Deleting, Live, Owned, CInv, CloneInv, InvLife
    <2>1. UUIDCached'
      BY <2>a, <2>q DEF RecordInv, UUIDCached
    <2>2. PowerOnReferenced' /\ OnRecorded' /\ OnSetUp'
      BY <2>a, <2>q DEF RecordInv, PowerOnReferenced, OnRecorded, OnSetUp
    <2> QED BY <2>a, <2>f, <2>q, <2>1, <2>2 DEF RecordInv
  <1>7. CASE TimePasses
    <2>a. /\ UNCHANGED <<pc, vm, tasks, faults>>
          /\ api' = Aged(api) /\ cache' = Aged(cache) /\ obj' = Aged(obj) /\ base' = Aged(base)
      BY <1>7 DEF TimePasses, vcVars
    <2>b. \A o \in {api, cache, obj, base} :
            /\ Aged(o).task = o.task /\ Aged(o).bios = o.bios
            /\ Aged(o).exists = o.exists /\ Aged(o).fin = o.fin /\ Aged(o).del = o.del
      BY AgedObject DEF CInv, TypeOK
    <2>f. faults'["rpc"] = 0
      BY <2>a, RecordStrike
    <2>q. /\ (NoPowerOn' <=> NoPowerOn) /\ (Exists' <=> Exists) /\ (Quiet' <=> Quiet)
          /\ (Owned' <=> Owned) /\ (Live' <=> Live)
          /\ \A r : (PowerOnOnly(r)' <=> PowerOnOnly(r)) /\ (Rose(r)' <=> Rose(r))
      BY <2>a, <2>b DEF NoPowerOn, PowerOnOnly, PoweringOn, Rose, Exists, Quiet, Running,
                        Deleting, Live, Owned
    <2>1. UUIDCached'
      BY <2>a, <2>b, <2>q DEF RecordInv, UUIDCached
    <2>2. PowerOnReferenced' /\ OnRecorded' /\ OnSetUp'
      BY <2>a, <2>b, <2>q DEF RecordInv, PowerOnReferenced, OnRecorded, OnSetUp
    <2> QED BY <2>a, <2>b, <2>f, <2>q, <2>1, <2>2 DEF RecordInv
  <1> QED BY <1>1, <1>2, <1>3, <1>4, <1>5, <1>6, <1>7

\* The steps of a reconcile up to the point where it acts
LEMMA RecordCheck ==
    ASSUME UInv, Start \/ CheckTask
    PROVE  RecordInv'
  <1> USE DEF UInv
  <1>c. /\ NoObject.task = 0 /\ NoObject.bios = 0 /\ ~NoObject.exists /\ ~NoObject.fin /\ ~NoObject.del
        /\ NewObject.task = 0 /\ NewObject.bios = 0 /\ NewObject.exists /\ ~NewObject.fin /\ ~NewObject.del
    BY DEF NoObject, NewObject
  <1>1. CASE Start
    <2>a. /\ UNCHANGED <<cache, vm, tasks, faults>> /\ pc = "idle"
          /\ \/ pc' = "inflight" /\ obj' = cache /\ base' = cache /\ cache.exists
                /\ (cache.fin \/ cache.del)
             \/ UNCHANGED <<pc, obj, base>>
      BY <1>1 DEF Start, vcVars
    <2>b. \/ api' = api
          \/ /\ cache.exists /\ ~cache.fin /\ ~cache.del /\ api.exists
             /\ api' = [api EXCEPT !.fin = TRUE]
             /\ UNCHANGED <<pc, obj, base>>
      BY <1>1 DEF Start
    <2>d. /\ api'.exists = api.exists /\ api'.task = api.task /\ api'.bios = api.bios
          /\ (Owned => Owned')
          /\ api.fin => api'.fin
      BY <2>b DEF CInv, TypeOK, VSphereVMType, Owned
    <2>f. faults'["rpc"] = 0
      BY <2>a, RecordStrike
    <2>q. /\ (NoPowerOn' <=> NoPowerOn) /\ (Exists' <=> Exists) /\ (Quiet' <=> Quiet)
          /\ (Deleting => Deleting')
          /\ \A r : (PowerOnOnly(r)' <=> PowerOnOnly(r)) /\ (Rose(r)' <=> Rose(r))
      BY <2>a DEF NoPowerOn, PowerOnOnly, PoweringOn, Rose, Exists, Quiet, Running, Deleting
    <2>1. CASE Owned
      <3>1. (Owned' <=> Owned) /\ (Live' => Live)
        BY <2>d, <2>q, <2>1 DEF Live
      <3>2. UUIDCached'
        BY <2>a, <2>d, <3>1, <2>1 DEF RecordInv, UUIDCached
      <3>3. PowerOnReferenced' /\ OnRecorded' /\ OnSetUp'
        BY <2>a, <2>d, <2>q, <3>1 DEF RecordInv, PowerOnReferenced, OnRecorded, OnSetUp
      <3> QED BY <2>a, <2>d, <2>f, <2>q, <3>2, <3>3 DEF RecordInv
    <2>2. CASE ~Owned /\ Owned'
      <3>1. api.exists /\ ~api.fin /\ cache.exists /\ ~cache.fin /\ UNCHANGED <<pc, obj, base>>
        BY <2>b, <2>2 DEF Owned
      <3>2. ~Exists' /\ vm'.power # "on" /\ Quiet' /\ NoPowerOn'
        BY <2>q, <3>1 DEF RecordInv, Quiet, NoPowerOn, PoweringOn, Exists
      <3>3. api.bios = 0 /\ cache.bios = 0
        BY <3>1, <1>c DEF CInv, CloneInv, InvLife
      <3>4. UUIDCached'
        BY <2>a, <2>d, <3>1, <3>3 DEF UUIDCached
      <3>5. PowerOnReferenced' /\ OnRecorded' /\ OnSetUp'
        BY <3>2 DEF PowerOnReferenced, PowerOnOnly, NoPowerOn, OnRecorded, OnSetUp
      <3> QED BY <2>a, <2>d, <2>f, <3>1, <3>2, <3>4, <3>5 DEF RecordInv
    <2>3. CASE ~Owned'
      <3>1. UUIDCached' /\ PowerOnReferenced' /\ OnRecorded' /\ OnSetUp'
        BY <2>3 DEF UUIDCached, PowerOnReferenced, OnRecorded, OnSetUp, Live
      <3> QED BY <2>a, <2>d, <2>f, <2>q, <3>1 DEF RecordInv
    <2> QED BY <2>1, <2>2, <2>3
  <1>2. CASE CheckTask
    <2>1. PICK found \in BOOLEAN :
            /\ TaskFound(found)
            /\ LET r == CheckAndRetryTask(obj, found, IF found THEN tasks[obj.task].st ELSE "none")
               IN  /\ obj' = [obj EXCEPT !.task = r.task, !.retry = r.retry]
                   /\ pc' = IF r.verdict = "go" THEN "act" ELSE "final"
      BY <1>2 DEF CheckTask
    <2> DEFINE st == IF found THEN tasks[obj.task].st ELSE "none"
               r  == CheckAndRetryTask(obj, found, st)
    <2>a. UNCHANGED <<api, cache, base, vm, tasks>> /\ pc = "inflight"
      BY <1>2 DEF CheckTask, apiVars, vcVars
    <2>t. obj.task \in TaskId /\ (obj.task # 0 => obj.task \in Task)
      BY ConstantsAssumption DEF ConstantsAssumption, CInv, TypeOK, VSphereVMType, Task, TaskId
    <2>f. /\ UNCHANGED faults
          /\ found <=> obj.task # 0 /\ tasks[obj.task].st # "purged"
      BY <2>1, CloneNoStrike DEF TaskFound
    <2>2. st \in TaskStates /\ (found => st \notin {"none", "purged"})
      BY <2>t, <2>f DEF CInv, CloneInv, InvRefs, TypeOK, TaskStates
    \* a task that runs keeps its reference; one that did not fail keeps it too,
    \* or the reconcile goes on
    <2>3. /\ r.task \in {0, obj.task} /\ r.verdict \in {"go", "error", "inFlight"}
          /\ r.verdict = "go" => r.task = 0
          /\ found /\ st = "running" => r.task = obj.task /\ r.verdict # "go"
          /\ r.verdict # "go" /\ r.task # obj.task => found /\ st = "error"
      BY <2>2 DEF CheckAndRetryTask, CInv, TypeOK, VSphereVMType, TaskStates
    <2>4. /\ obj' = [obj EXCEPT !.task = r.task, !.retry = r.retry]
          /\ pc' = IF r.verdict = "go" THEN "act" ELSE "final"
      BY <2>1
    <2>5. /\ found /\ st = "running" <=> obj.task # 0 /\ Running(obj.task)
          /\ found /\ st = "error" => ~Rose(obj.task)
      BY <2>f DEF Running, Rose
    <2> HIDE DEF r, st
    <2>6. /\ obj'.task = r.task /\ obj'.bios = obj.bios
          /\ obj'.fin = obj.fin /\ obj'.del = obj.del
      BY <2>4 DEF CInv, TypeOK, VSphereVMType
    <2>7. obj.task # 0 /\ Running(obj.task) => obj'.task = obj.task /\ pc' = "final"
      BY <2>3, <2>4, <2>5, <2>6
    <2>8. /\ pc' \in {"act", "final"} /\ (pc' = "act" => obj'.task = 0)
          /\ pc' = "final" /\ Rose(obj.task) => obj'.task = obj.task
      BY <2>3, <2>4, <2>5, <2>6
    <2>q. /\ (NoPowerOn' <=> NoPowerOn) /\ (Exists' <=> Exists) /\ (Quiet' <=> Quiet)
          /\ (Owned' <=> Owned) /\ (Live' <=> Live)
          /\ \A k : (PowerOnOnly(k)' <=> PowerOnOnly(k)) /\ (Rose(k)' <=> Rose(k))
      BY <2>a, <2>6, <2>8 DEF NoPowerOn, PowerOnOnly, PoweringOn, Rose, Exists, Quiet, Running,
                              Deleting, Live, Owned
    <2>9. Owned => /\ obj.task = api.task /\ base.task = api.task /\ cache.task = api.task
                   /\ obj.bios = api.bios /\ base.bios = api.bios /\ cache.bios = api.bios
      BY <2>a DEF CInv, CloneInv, CloneReferenced, RecordInv, UUIDCached
    <2>10. UUIDCached'
      BY <2>a, <2>6, <2>8, <2>9, <2>q DEF UUIDCached
    <2>11. PowerOnReferenced'
      <3>1. CASE NoPowerOn
        BY <2>8, <2>q, <3>1 DEF PowerOnReferenced, PowerOnOnly, NoPowerOn
      <3>2. CASE ~NoPowerOn /\ Live
        <4>1. PICK t \in Task : PoweringOn(t)
          BY <3>2 DEF NoPowerOn
        <4>2. t = obj.task /\ t # 0 /\ Running(obj.task) /\ PowerOnOnly(obj.task)
          BY <2>a, <2>9, <3>2, <4>1, ConstantsAssumption
          DEF RecordInv, PowerOnReferenced, PowerOnOnly, PoweringOn, Live, Task, ConstantsAssumption
        <4> QED BY <2>a, <2>7, <2>9, <2>q, <3>2, <4>2 DEF PowerOnReferenced, Live
      <3>3. CASE ~Live
        BY <2>q, <3>3 DEF PowerOnReferenced
      <3> QED BY <3>1, <3>2, <3>3
    <2>12. OnRecorded'
      BY <2>a, <2>8, <2>9, <2>q DEF RecordInv, OnRecorded, Live
    <2>13. OnSetUp'
      BY <2>a, <2>q DEF RecordInv, OnSetUp
    <2>14. faults'["rpc"] = 0
      BY <2>f, RecordStrike
    <2> QED BY <2>a, <2>8, <2>q, <2>10, <2>11, <2>12, <2>13, <2>14 DEF RecordInv
  <1> QED BY <1>1, <1>2

\* The steps in which ReconcileVM and DestroyVM act on the machine
LEMMA RecordAct ==
    ASSUME UInv, Act
    PROVE  RecordInv'
  <1> USE DEF UInv
  <1>a. /\ pc = "act" /\ UNCHANGED <<api, cache, base>>
        /\ BeginsNone \/ \E t \in Task, kind \in TaskKinds : Begins(t, kind)
    BY ActStep DEF TypeInv, CInv, CloneInv
  <1>1. Owned => /\ base.task = api.task /\ cache.task = api.task
                 /\ obj.bios = api.bios /\ base.bios = api.bios /\ cache.bios = api.bios
    BY <1>a DEF CInv, CloneInv, CloneReferenced, RecordInv, UUIDCached
  <1>2. /\ (Live => ~obj.del /\ NoPowerOn)
        /\ (~obj.del => Owned)
        /\ (base.task # 0 => obj.task # base.task)
    BY <1>a DEF CInv, CloneInv, InvPass, Live, Deleting, RecordInv, PowerOnReferenced
  <1>3. ASSUME NEW t \in Task, NEW kind \in TaskKinds, Begins(t, kind)
        PROVE  RecordInv'
    <2>a. /\ UNCHANGED <<vm, faults>>
          /\ obj'.task = t /\ obj'.bios = obj.bios /\ obj'.del = obj.del
          /\ pc' \in {"act", "early", "final"}
          /\ kind \in {"powerOff", "destroy"} => obj.del
          /\ kind = "powerOn" => vm.power = "off" /\ vm.todo \subseteq {"policy"} /\ pc' = "early"
          /\ kind \in ConfigItems => kind \in vm.todo /\ (vm.power = "on" => kind # "policy")
          /\ kind = "clone" => ~FoundVM /\ obj.bios = 0
          /\ Submit(t, kind)
      BY <1>3 DEF Begins
    <2>b. /\ \A u \in Task : u # t => tasks'[u] = tasks[u]
          /\ tasks'[t].kind = kind /\ tasks[t].st = "none"
      BY <2>a DEF Submit, CInv, TypeOK
    <2>d. base.task # t
      <3>1. base.task # 0 => tasks[base.task].st # "none"
        BY DEF CInv, CloneInv, InvRefs
      <3> QED BY <2>b, <3>1, ConstantsAssumption DEF Task, ConstantsAssumption
    <2>q. (Exists' <=> Exists) /\ (Owned' <=> Owned) /\ (Live' => Live)
      BY <1>a, <2>a DEF Exists, Owned, Deleting, Live
    \* a machine that is on and not on record is adopted instead
    <2>e. Live /\ api.bios = 0 => vm.power # "on"
      <3> SUFFICES ASSUME Live, api.bios = 0, vm.power = "on" PROVE FALSE
        OBVIOUS
      <3>1. Exists /\ vm.todo \subseteq {"policy"}
        BY DEF Exists, RecordInv, OnSetUp
      <3>2. FoundVM
        BY <1>1, <3>1 DEF FoundVM, Live
      <3>3. kind # "none"
        BY <1>3 DEF Begins, FoundVM
      <3> QED BY <1>2, <2>a, <3>1, <3>2, <3>3 DEF TaskKinds
    <2>1. \A u \in Task : PoweringOn(u)' => (u = t /\ kind = "powerOn") \/ PoweringOn(u)
      BY <2>b DEF PoweringOn, Running
    <2>2. UUIDCached'
      BY <1>a, <1>1, <2>a, <2>q DEF UUIDCached
    <2>3. PowerOnReferenced'
      BY <1>2, <2>a, <2>q, <2>1 DEF PowerOnReferenced, PowerOnOnly, NoPowerOn
    <2>4. OnRecorded'
      BY <1>a, <2>a, <2>q, <2>e DEF OnRecorded
    <2>5. OnSetUp'
      BY <1>2, <2>a, <2>q, <2>1 DEF RecordInv, OnSetUp, NoPowerOn
    <2>6. faults'["rpc"] = 0
      BY <2>a, RecordStrike
    <2>7. ~(api.exists /\ ~api.fin)
      BY <1>a DEF CInv, CloneInv, InvPass, Owned
    <2> QED BY <1>a, <2>a, <2>d, <2>q, <2>2, <2>3, <2>4, <2>5, <2>6, <2>7 DEF RecordInv
  <1>4. CASE BeginsNone
    <2>a. /\ pc' = "final" /\ UNCHANGED tasks
          /\ Strike("rpc") \/ UNCHANGED faults
          /\ (Exists' <=> Exists) /\ vm'.id = vm.id /\ vm'.todo = vm.todo /\ vm'.power = vm.power
          /\ obj'.task = obj.task /\ obj'.del = obj.del
          /\ (Exists /\ obj'.bios = vm.id) \/ obj'.bios = obj.bios
          /\ obj'.bios # obj.bios => ~obj.del /\ vm.power = "on" /\ FoundVM
          /\ Strike("rpc") \/ obj.del \/ ~FoundVM \/ obj'.bios = vm.id
      BY <1>4 DEF BeginsNone
    <2>f. UNCHANGED faults /\ ~Strike("rpc") /\ faults'["rpc"] = 0
      BY <2>a, RecordStrike
    <2>q. /\ (NoPowerOn' <=> NoPowerOn) /\ (Quiet' <=> Quiet)
          /\ (Owned' <=> Owned) /\ (Live' => Live)
          /\ \A k : (PowerOnOnly(k)' <=> PowerOnOnly(k)) /\ (Rose(k)' <=> Rose(k))
      BY <1>a, <2>a DEF NoPowerOn, PowerOnOnly, PoweringOn, Rose, Quiet, Running,
                        Deleting, Live, Owned
    \* the UUID of a machine is recorded after its power on task
    <2>1. obj'.bios # obj.bios => base.task # 0 /\ obj'.bios # 0
      <3> SUFFICES ASSUME obj'.bios # obj.bios PROVE base.task # 0 /\ obj'.bios # 0
        OBVIOUS
      <3>1. ~obj.del /\ vm.power = "on" /\ FoundVM /\ obj'.bios = vm.id
        BY <2>a
      <3>2. obj.bios = 0 /\ Owned /\ api.bios = 0
        BY <1>1, <1>2, <3>1 DEF FoundVM
      <3>3. Live
        BY <1>a, <3>1, <3>2 DEF Live, Deleting
      <3>4. Rose(api.task)
        BY <1>a, <3>1, <3>2, <3>3 DEF RecordInv, OnRecorded
      <3> QED BY <1>1, <3>1, <3>2, <3>4 DEF Rose, FoundVM, RecordInv
    <2>2. UUIDCached'
      BY <1>a, <1>1, <1>2, <2>a, <2>q, <2>1 DEF UUIDCached
    <2>3. PowerOnReferenced'
      BY <1>2, <2>a, <2>q DEF PowerOnReferenced, PowerOnOnly, NoPowerOn
    <2>4. OnRecorded'
      <3> SUFFICES ASSUME Live', vm'.power = "on", api'.bios = 0
                   PROVE  Rose(api.task)' /\ obj'.bios # 0 /\ api'.task = base'.task
        BY <2>a DEF OnRecorded
      <3>1. Live /\ vm.power = "on" /\ api.bios = 0 /\ obj.bios = 0 /\ ~obj.del /\ Exists
        BY <1>a, <1>1, <1>2, <2>a, <2>q DEF Live, Exists
      <3>2. FoundVM
        BY <3>1 DEF FoundVM
      <3>3. obj'.bios = vm.id /\ vm.id # 0
        BY <2>a, <2>f, <3>1, <3>2 DEF RecordInv
      <3>4. Rose(api.task)
        BY <1>a, <3>1 DEF RecordInv, OnRecorded
      <3>5. Rose(api.task)'
        BY <1>a, <2>a, <3>4 DEF Rose
      <3> QED BY <1>a, <1>1, <3>1, <3>3, <3>5 DEF Live
    <2>5. OnSetUp'
      BY <2>a, <2>q DEF RecordInv, OnSetUp
    <2>7. ~(api.exists /\ ~api.fin)
      BY <1>a DEF CInv, CloneInv, InvPass, Owned
    <2> QED BY <1>a, <2>a, <2>f, <2>q, <2>2, <2>3, <2>4, <2>5, <2>7 DEF RecordInv
  <1> QED BY <1>a, <1>3, <1>4

\* The steps that patch the object and wait for the cache
LEMMA RecordPatch ==
    ASSUME UInv, EarlyPatch \/ FinalPatch \/ CacheWait \/ CacheWaitTimeout
    PROVE  RecordInv'
  <1> USE DEF UInv
  <1>c. NoObject.task = 0 /\ NoObject.bios = 0 /\ ~NoObject.exists /\ ~NoObject.fin /\ ~NoObject.del
    BY DEF NoObject, NewObject
  <1>1. CASE EarlyPatch \/ FinalPatch
    <2>p. /\ UNCHANGED <<cache, vm, tasks>> /\ (PatchRefused \/ PatchKeeps \/ PatchRemoves)
          /\ PatchRefused => faults' = faults \/ Strike("patch")
      BY <1>1, PatchStep DEF vcVars, CInv, CloneInv, TypeInv, LifeInv
    <2>b. \/ pc = "early" /\ pc' = "final" /\ UNCHANGED <<obj, base>>
          \/ pc = "final" /\ obj.task # base.task /\ pc' = "wait" /\ UNCHANGED <<obj, base>>
          \/ /\ pc = "final" /\ obj.task = base.task /\ pc' = "idle"
             /\ obj' = NoObject /\ base' = NoObject
      BY <1>1, PatchStep DEF CInv, CloneInv, TypeInv, LifeInv
    <2>f. faults'["rpc"] = 0 /\ (faults["patch"] = 0 => faults'["patch"] = 0)
      BY <2>p, RecordStrike DEF PatchKeeps, PatchRemoves
    <2>g. /\ Owned' => Owned /\ (PatchRefused \/ PatchKeeps)
          /\ ~(api'.exists /\ ~api'.fin) \/ api' = api
      BY <2>p, <1>c DEF PatchRefused, PatchKeeps, PatchRemoves, Owned
    <2>q. /\ (NoPowerOn' <=> NoPowerOn) /\ (Exists' <=> Exists) /\ (Quiet' <=> Quiet)
          /\ (Deleting => Deleting')
          /\ \A k : (PowerOnOnly(k)' <=> PowerOnOnly(k)) /\ (Rose(k)' <=> Rose(k))
      BY <2>p, <2>b DEF NoPowerOn, PowerOnOnly, PoweringOn, Rose, Exists, Quiet, Running, Deleting
    <2>l. Live' => Live
      BY <2>g, <2>q DEF Live
    <2>1. CASE ~Owned'
      <3>1. UUIDCached' /\ PowerOnReferenced' /\ OnRecorded' /\ OnSetUp'
        BY <2>1 DEF UUIDCached, PowerOnReferenced, OnRecorded, OnSetUp, Live
      <3> QED BY <2>p, <2>b, <2>f, <2>g, <2>q, <3>1 DEF RecordInv
    <2>2. CASE Owned'
      <3>o. Owned /\ pc # "idle"
        BY <2>b, <2>g, <2>2
      <3>k. /\ cache.bios = api.bios /\ base.bios = api.bios
            /\ (pc = "early" => obj.bios = api.bios)
            /\ pc = "final" /\ obj.bios # base.bios =>
                 /\ obj.bios # 0 /\ obj.task # base.task
                 /\ api.task = base.task /\ cache.task = base.task
        BY <2>b, <3>o DEF RecordInv, UUIDCached
      <3>r. /\ api.task \in {base.task, obj.task}
            /\ pc = "early" => api.task = base.task /\ obj.task # base.task
        BY <2>b, <3>o DEF CInv, CloneInv, CloneReferenced
      <3>1. CASE PatchRefused
        <4>1. api' = api /\ faults'["patch"] = 0 /\ faults["patch"] # 0
          BY <3>o, <3>1, CloneStrike DEF PatchRefused, Owned, Strike
        <4>2. UUIDCached'
          BY <2>p, <2>b, <3>k, <4>1 DEF UUIDCached
        <4>3. PowerOnReferenced'
          BY <2>p, <2>b, <2>q, <2>l, <4>1 DEF RecordInv, PowerOnReferenced, PowerOnOnly, NoPowerOn
        <4>4. OnRecorded'
          BY <2>p, <2>b, <2>q, <2>l, <4>1 DEF RecordInv, OnRecorded
        <4>5. OnSetUp'
          BY <2>p, <2>q, <2>l DEF RecordInv, OnSetUp
        <4> QED BY <2>b, <2>p, <2>f, <2>q, <4>1, <4>2, <4>3, <4>4, <4>5 DEF RecordInv
      <3>2. CASE PatchKeeps
        <4>1. /\ api'.task = IF obj.task = base.task THEN api.task ELSE obj.task
              /\ api'.bios \in {api.bios, obj.bios} /\ api'.fin
              /\ obj.bios # base.bios => api'.bios = obj.bios
          BY <1>1, <3>2 DEF PatchKeeps
        <4>2. UUIDCached'
          BY <2>p, <2>b, <3>k, <3>r, <4>1 DEF UUIDCached
        <4>3. PowerOnReferenced'
          BY <2>p, <2>b, <2>q, <2>l, <2>f, <3>r, <4>1
          DEF RecordInv, PowerOnReferenced, PowerOnOnly, NoPowerOn
        <4>4. OnRecorded'
          BY <2>p, <2>b, <2>q, <2>l, <2>f, <3>k, <3>r, <4>1 DEF RecordInv, OnRecorded
        <4>5. OnSetUp'
          BY <2>p, <2>q, <2>l DEF RecordInv, OnSetUp
        <4> QED BY <2>b, <2>p, <2>f, <2>q, <4>1, <4>2, <4>3, <4>4, <4>5 DEF RecordInv
      <3> QED BY <2>g, <2>2, <3>1, <3>2
    <2> QED BY <2>1, <2>2
  <1>2. CASE CacheWait \/ CacheWaitTimeout
    <2>a. /\ UNCHANGED <<api, cache, vm, tasks>> /\ pc = "wait" /\ pc' = "idle"
          /\ obj' = NoObject /\ base' = NoObject /\ UNCHANGED faults
          /\ cache.exists => cache.task # base.task \/ cache = api
      BY <1>2, CloneNoStrike DEF CacheWait, CacheWaitTimeout, Return, apiVars, vcVars
    <2>q. /\ (NoPowerOn' <=> NoPowerOn) /\ (Exists' <=> Exists) /\ (Quiet' <=> Quiet)
          /\ (Owned' <=> Owned) /\ (Live' => Live)
          /\ \A k : (PowerOnOnly(k)' <=> PowerOnOnly(k)) /\ (Rose(k)' <=> Rose(k))
      BY <2>a DEF NoPowerOn, PowerOnOnly, PoweringOn, Rose, Exists, Quiet, Running,
                  Deleting, Live, Owned
    <2>1. Owned => cache.exists
      BY DEF CInv, CloneInv, InvLife, Owned
    <2>2. UUIDCached'
      BY <2>a, <2>q, <2>1 DEF RecordInv, UUIDCached
    <2>3. PowerOnReferenced' /\ OnRecorded' /\ OnSetUp'
      BY <2>a, <2>q DEF RecordInv, PowerOnReferenced, OnRecorded, OnSetUp
    <2>4. faults'["rpc"] = 0
      BY <2>a, RecordStrike
    <2> QED BY <2>a, <2>q, <2>2, <2>3, <2>4 DEF RecordInv
  <1> QED BY <1>1, <1>2

\* The invariant is kept by every step
LEMMA RecordStep == UInv /\ [Next]_vars => UInv'
  <1> SUFFICES ASSUME UInv, [Next]_vars PROVE UInv'
    OBVIOUS
  <1>1. CInv'
    BY CloneStep DEF UInv
  <1>2. CASE UNCHANGED vars
    <2>1. faults'["rpc"] = 0 /\ (faults["patch"] = 0 => faults'["patch"] = 0)
      BY <1>2, RecordStrike DEF vars
    <2>2. RecordInv'
      BY <1>2, <2>1, Bystanders, RecordQuietStep DEF vars, vcVars, Exists, Running, Rose
    <2> QED BY <1>1, <2>2 DEF UInv
  <1>3. CASE Next
    <2>1. RecordInv'
      BY <1>3, RecordTasks, RecordOthers, RecordCheck, RecordAct, RecordPatch DEF Next, Reconcile
    <2> QED BY <1>1, <2>1 DEF UInv
  <1> QED BY <1>2, <1>3

\* A clone is started only while no BIOS UUID is on record
LEMMA CloneStarts ==
    ASSUME UInv, Next, NEW t \in Task,
           ~Running(t), Running(t)', tasks'[t].kind = "clone"
    PROVE  api.bios = 0
  <1> USE DEF UInv, CInv, CloneInv
  <1>1. CASE UNCHANGED tasks
    BY <1>1 DEF Running
  <1>2. ASSUME NEW u \in Task, VCenter(u) \/ TaskPurged(u) PROVE FALSE
    BY <1>2 DEF VCenter, TaskSucceeds, TaskFails, TaskPurged, Running, TypeOK
  <1>3. CASE Act
    <2>1. pc = "act" /\ (BeginsNone \/ \E u \in Task, kind \in TaskKinds : Begins(u, kind))
      BY <1>3, ActStep DEF TypeInv
    <2>2. ASSUME NEW u \in Task, NEW kind \in TaskKinds, Begins(u, kind)
          PROVE  ~obj.del /\ obj.bios = 0
      <3>1. u = t /\ kind = "clone"
        BY <2>2 DEF Begins, Submit, Running, TypeOK
      <3> QED BY <2>2, <3>1 DEF Begins
    <2>3. ~obj.del /\ obj.bios = 0
      BY <1>1, <2>1, <2>2 DEF BeginsNone, Running
    <2>4. Owned
      BY <2>1, <2>3 DEF InvPass
    <2> QED BY <2>1, <2>3, <2>4 DEF RecordInv, UUIDCached
  <1>4. CASE Start \/ CheckTask \/ EarlyPatch \/ FinalPatch \/ CacheWait \/ CacheWaitTimeout
    BY <1>4, <1>1 DEF Start, CheckTask, EarlyPatch, FinalPatch, CacheWait, CacheWaitTimeout, vcVars
  <1>5. CASE \/ StartFails \/ Crash \/ Delete \/ CacheSync \/ Resync \/ TimePasses
             \/ GuestReportsIP \/ GuestHalts \/ VMVanishes
    BY <1>5, <1>1 DEF StartFails, Crash, Delete, CacheSync, Resync, TimePasses,
                      GuestReportsIP, GuestHalts, VMVanishes, vcVars
  <1>6. ASSUME NEW u \in Task, WatcherFires(u) \/ WatcherFails(u) PROVE api.bios = 0
    BY <1>6, <1>1 DEF WatcherFires, WatcherFails, vcVars
  <1> QED BY <1>2, <1>3, <1>4, <1>5, <1>6 DEF Next, Reconcile

\* service.go:91: in a watched environment in which no call of a reconcile fails
\* half way, a machine whose BIOS UUID is on record is not cloned again, however
\* often it disappears, whatever tasks fail or are forgotten and although the cache
\* may be behind
THEOREM ClonedOnce == Watched /\ Answered => (Spec => NoSecondClone)
  <1> SUFFICES ASSUME Watched, Answered PROVE Spec => NoSecondClone
    OBVIOUS
  <1>1. Init => UInv
    BY RecordInit
  <1>2. UInv /\ [Next]_vars => UInv'
    BY RecordStep
  <1>3. UInv /\ [Next]_vars
          => [\A t \in Task : ~Running(t) /\ Running(t)' /\ tasks'[t].kind = "clone"
                => api.bios = 0]_vars
    BY CloneStarts
  <1> QED BY <1>1, <1>2, <1>3, PTL DEF Spec, NoSecondClone

-----------------------------------------------------------------------------
(* A failed task backs off.                                                *)

BInv == CInv /\ InvDropped /\ InvRetry

\* A deadline that passes neither sets nor resets RetryAfter
LEMMA AgedRetry ==
    ASSUME NEW o \in VSphereVMType
    PROVE  /\ Aged(o).retry = "zero" <=> o.retry = "zero"
           /\ o.retry = "expired" => Aged(o).retry = "expired"
  BY DEF VSphereVMType, Aged

\* A task that is done stays done
LEMMA DoneStays ==
    ASSUME TypeOK, Next, NEW k \in TaskId, Done(k)
    PROVE  Done(k)'
  <1>0. k = 0 \/ k \in Task
    BY ConstantsAssumption DEF ConstantsAssumption, Task, TaskId
  <1>1. CASE UNCHANGED tasks
    BY <1>1 DEF Done
  <1>2. ASSUME NEW u \in Task, VCenter(u) \/ TaskPurged(u) PROVE Done(k)'
    BY <1>0, <1>2 DEF VCenter, TaskSucceeds, TaskFails, TaskPurged, Running, Completed, Done, TypeOK
  <1>3. ASSUME NEW u \in Task, NEW kind, Submit(u, kind) PROVE Done(k)'
    BY <1>0, <1>3 DEF Submit, Done, TypeOK
  <1>4. CASE Act
    BY <1>1, <1>3, <1>4 DEF Act, CallFails, ReconcileNotFound, ReconcileClone, Clone,
           ReconcileHardwareVersion, ReconcileMetadata, ReconcileStoragePolicy,
           ReconcileVMGroupInfo, ReconcileItem, ReconcilePowerOn, ReconcileReady,
           DestroyNotFound, DestroyPowerOff, DestroyVM, vcVars
  <1>5. CASE Start \/ CheckTask \/ EarlyPatch \/ FinalPatch \/ CacheWait \/ CacheWaitTimeout
    BY <1>5, <1>1 DEF Start, CheckTask, EarlyPatch, FinalPatch, CacheWait, CacheWaitTimeout, vcVars
  <1>6. CASE \/ StartFails \/ Crash \/ Delete \/ CacheSync \/ Resync \/ TimePasses
             \/ GuestReportsIP \/ GuestHalts \/ VMVanishes
    BY <1>6, <1>1 DEF StartFails, Crash, Delete, CacheSync, Resync, TimePasses,
                      GuestReportsIP, GuestHalts, VMVanishes, vcVars
  <1>7. ASSUME NEW u \in Task, WatcherFires(u) \/ WatcherFails(u) PROVE Done(k)'
    BY <1>7, <1>1 DEF WatcherFires, WatcherFails, vcVars
  <1> QED BY <1>2, <1>4, <1>5, <1>6, <1>7 DEF Next, Reconcile

\* How a reconcile drops and keeps references, and RetryAfter with them
LEMMA BackoffStep ==
    ASSUME BInv, Next
    PROVE  InvDropped' /\ InvRetry'
  <1> USE DEF BInv, CInv, CloneInv
  <1>c. /\ NoObject.task = 0 /\ NoObject.retry = "zero" /\ ~NoObject.exists /\ ~NoObject.fin
        /\ NewObject.task = 0 /\ NewObject.retry = "zero"
    BY DEF NoObject, NewObject
  <1>d. Done(base.task) => base.task = 0 \/ tasks'[base.task].st \in {"success", "already", "purged"}
    BY DoneStays DEF TypeOK, VSphereVMType, Done
  <1>1. CASE UNCHANGED ObjectVars
    <2>1. InvDropped'
      BY <1>1, <1>d DEF ObjectVars, InvDropped, Done
    <2>2. InvRetry'
      BY <1>1 DEF ObjectVars, InvRetry, Owned
    <2> QED BY <2>1, <2>2
  <1>2. CASE Delete
    <2>1. /\ UNCHANGED <<cache, pc, obj, base, tasks>>
          /\ \/ Owned /\ api'.task = api.task /\ api'.retry = api.retry
             \/ ~Owned'
      BY <1>2, <1>c DEF Delete, recVars, vcVars, TypeOK, VSphereVMType, Owned
    <2>2. InvDropped'
      BY <2>1 DEF InvDropped, Done
    <2>3. InvRetry'
      BY <2>1 DEF InvRetry
    <2> QED BY <2>2, <2>3
  <1>3. CASE CacheSync
    <2>1. UNCHANGED <<api, pc, obj, base, tasks>> /\ cache' = api
      BY <1>3 DEF CacheSync, recVars, vcVars
    <2>2. InvDropped'
      BY <2>1 DEF InvDropped, Done
    <2>3. InvRetry'
      BY <2>1 DEF InvRetry, Owned
    <2> QED BY <2>2, <2>3
  <1>4. CASE TimePasses
    <2>1. /\ UNCHANGED <<pc, tasks>>
          /\ api' = Aged(api) /\ cache' = Aged(cache) /\ obj' = Aged(obj) /\ base' = Aged(base)
      BY <1>4 DEF TimePasses, vcVars
    <2>2. \A o \in {api, cache, obj, base} :
            /\ Aged(o).task = o.task /\ Aged(o).exists = o.exists /\ Aged(o).fin = o.fin
            /\ Aged(o).retry = "zero" <=> o.retry = "zero"
            /\ o.retry = "expired" => Aged(o).retry = "expired"
      BY AgedObject, AgedRetry DEF TypeOK
    <2>3. InvDropped'
      BY <2>1, <2>2 DEF InvDropped, Done
    <2>4. InvRetry'
      BY <2>1, <2>2 DEF InvRetry, Owned
    <2> QED BY <2>3, <2>4
  <1>5. CASE Crash
    BY <1>5, CloneNoStrike DEF Crash
  <1>6. CASE Start
    <2>1. /\ UNCHANGED <<cache, tasks>> /\ pc = "idle"
          /\ \/ pc' = "inflight" /\ obj' = cache /\ base' = cache /\ api' = api
             \/ UNCHANGED <<pc, obj, base>>
          /\ \/ api' = api
             \/ cache.exists /\ ~cache.fin
      BY <1>6 DEF Start, vcVars
    <2>2. api'.task = api.task /\ api'.retry = api.retry /\ api'.exists = api.exists
      BY <1>6 DEF Start, TypeOK, VSphereVMType
    <2>3. InvDropped'
      BY <2>1 DEF InvDropped
    <2>4. InvRetry'
      <3>1. CASE Owned
        BY <2>1, <2>2, <3>1 DEF InvRetry, CloneReferenced, Owned
      <3>2. CASE ~Owned /\ Owned'
        <4>1. cache.retry = "zero" /\ pc' = "idle"
          BY <2>1, <3>2, <1>c DEF InvLife, Owned
        <4> QED BY <2>1, <4>1 DEF InvRetry
      <3>3. CASE ~Owned'
        BY <2>1, <3>3 DEF InvRetry, InvPass
      <3> QED BY <3>1, <3>2, <3>3
    <2> QED BY <2>3, <2>4
  <1>7. CASE CheckTask
    <2>1. PICK found \in BOOLEAN :
            /\ TaskFound(found)
            /\ LET r == CheckAndRetryTask(obj, found, IF found THEN tasks[obj.task].st ELSE "none")
               IN  /\ obj' = [obj EXCEPT !.task = r.task, !.retry = r.retry]
                   /\ pc' = IF r.verdict = "go" THEN "act" ELSE "final"
      BY <1>7 DEF CheckTask
    <2> DEFINE st == IF found THEN tasks[obj.task].st ELSE "none"
               r  == CheckAndRetryTask(obj, found, st)
    <2>a. UNCHANGED <<api, cache, base, tasks>> /\ pc = "inflight" /\ obj = base
      BY <1>7 DEF CheckTask, apiVars, vcVars, InvDropped
    <2>t. obj.task \in TaskId /\ (obj.task # 0 => obj.task \in Task)
      BY ConstantsAssumption DEF ConstantsAssumption, TypeOK, VSphereVMType, Task, TaskId
    <2>f. found <=> obj.task # 0 /\ tasks[obj.task].st # "purged"
      BY <2>1, CloneNoStrike DEF TaskFound
    <2>2. st \in TaskStates /\ (found => st \notin {"none", "purged"})
      BY <2>t, <2>f DEF InvRefs, TypeOK, TaskStates
    <2>3. /\ r.verdict = "go" => (found => st \in {"success", "already"})
          /\ r.verdict # "go" /\ r.task # obj.task => r.task = 0 /\ obj.retry = "expired"
          /\ r.retry = "zero" /\ obj.retry # "zero" => r.verdict # "go" /\ r.task = 0 /\ found
      BY <2>2 DEF CheckAndRetryTask, TypeOK, VSphereVMType, TaskStates
    <2>4. /\ obj' = [obj EXCEPT !.task = r.task, !.retry = r.retry]
          /\ pc' = IF r.verdict = "go" THEN "act" ELSE "final"
      BY <2>1
    <2>5. r.verdict = "go" => Done(base.task)
      BY <2>a, <2>f, <2>3 DEF Done
    <2>6. found => base.task # 0
      BY <2>a, <2>f
    <2> HIDE DEF r, st
    <2>7. obj'.task = r.task /\ obj'.retry = r.retry
      BY <2>4 DEF TypeOK, VSphereVMType
    <2>8. InvDropped'
      BY <2>a, <2>3, <2>4, <2>5, <2>7 DEF InvDropped, Done
    <2>9. InvRetry'
      BY <2>a, <2>3, <2>4, <2>6, <2>7 DEF InvRetry, CloneReferenced, Owned
    <2> QED BY <2>8, <2>9
  <1>8. CASE Act
    <2>1. /\ pc = "act" /\ pc' \in {"act", "early", "final"} /\ UNCHANGED <<api, cache, base>>
          /\ obj'.retry = obj.retry
      BY <1>8, ActStep DEF TypeInv, BeginsNone, Begins
    <2>2. InvDropped'
      BY <2>1, <1>d DEF InvDropped, Done
    <2>3. InvRetry'
      BY <2>1 DEF InvRetry, Owned
    <2> QED BY <2>2, <2>3
  <1>9. CASE EarlyPatch \/ FinalPatch
    <2>a. UNCHANGED <<cache, tasks>> /\ (PatchRefused \/ PatchKeeps \/ PatchRemoves)
      BY <1>9, PatchStep DEF vcVars, TypeInv, LifeInv
    <2>b. \/ pc = "early" /\ pc' = "final" /\ UNCHANGED <<obj, base>>
          \/ pc = "final" /\ obj.task # base.task /\ pc' = "wait" /\ UNCHANGED <<obj, base>>
          \/ /\ pc = "final" /\ obj.task = base.task /\ pc' = "idle"
             /\ obj' = NoObject /\ base' = NoObject
      BY <1>9, PatchStep DEF TypeInv, LifeInv
    <2>1. InvDropped'
      BY <2>a, <2>b DEF InvDropped, Done
    <2>2. CASE PatchRefused
      BY <2>a, <2>b, <2>1, <2>2, <1>c DEF PatchRefused, InvRetry, Owned
    <2>3. CASE PatchRemoves
      BY <2>a, <2>b, <2>1, <2>3, <1>c DEF PatchRemoves, InvRetry, Owned
    <2>4. CASE PatchKeeps
      <3>1. /\ Owned /\ Owned'
            /\ api'.task = IF obj.task = base.task THEN api.task ELSE obj.task
            /\ api'.retry = IF obj.retry = base.retry THEN api.retry ELSE obj.retry
        BY <2>4 DEF PatchKeeps, Owned
      <3>2. /\ api.task \in {base.task, obj.task}
            /\ cache.task \in {base.task, api.task}
        BY <2>b, <3>1 DEF CloneReferenced
      <3>3. pc' # "idle" /\ obj'.retry = "zero" /\ base'.retry # "zero" =>
              /\ pc' = "wait" /\ obj'.task = 0 /\ base'.task # 0
        BY <2>b DEF InvRetry
      <3>4. cache'.task = api'.task /\ cache'.retry # "zero" => api'.retry # "zero"
        BY <2>a, <2>b, <3>1, <3>2 DEF InvRetry
      <3>5. pc' # "idle" /\ base'.task = api'.task /\ base'.retry # "zero" => api'.retry # "zero"
        BY <2>a, <2>b, <3>1, <3>2 DEF InvRetry
      <3> QED BY <2>1, <3>3, <3>4, <3>5 DEF InvRetry
    <2> QED BY <2>a, <2>1, <2>2, <2>3, <2>4
  <1>10. CASE CacheWait \/ CacheWaitTimeout
    <2>1. UNCHANGED <<api, cache>> /\ pc' = "idle"
      BY <1>10 DEF CacheWait, CacheWaitTimeout, Return, apiVars
    <2>2. InvDropped'
      BY <2>1 DEF InvDropped
    <2>3. InvRetry'
      BY <2>1 DEF InvRetry, Owned
    <2> QED BY <2>2, <2>3
  <1> QED BY <1>1, <1>2, <1>3, <1>4, <1>5, <1>6, <1>7, <1>8, <1>9, <1>10, Bystanders
          DEF Next, Reconcile

\* The invariant of the backoff is kept by every step
LEMMA BackoffInductive == BInv /\ [Next]_vars => BInv'
  <1> SUFFICES ASSUME BInv, [Next]_vars PROVE BInv'
    OBVIOUS
  <1>1. CInv'
    BY CloneStep DEF BInv
  <1>2. CASE UNCHANGED vars
    BY <1>1, <1>2 DEF BInv, InvDropped, InvRetry, Done, Owned, vars, apiVars, recVars, vcVars
  <1> QED BY <1>1, <1>2, BackoffStep DEF BInv

\* The reference to a failed task goes only from an object with a RetryAfter that
\* has passed
LEMMA FailedTaskDropped ==
    ASSUME BInv, Next, api.task # 0, tasks[api.task].st = "error",
           api'.exists, api'.task # api.task
    PROVE  api.retry # "zero" /\ base.task = api.task /\ base.retry = "expired"
  <1> USE DEF BInv, CInv, CloneInv
  <1>1. EarlyPatch \/ FinalPatch
    <2>1. CASE Delete
      BY <2>1 DEF Delete, TypeOK, VSphereVMType, NoObject, NewObject
    <2>2. CASE TimePasses
      BY <2>2, AgedObject DEF TimePasses, TypeOK
    <2>3. CASE Start
      BY <2>3 DEF Start, TypeOK, VSphereVMType
    <2>4. CASE UNCHANGED api
      BY <2>4
    <2>5. CASE CacheSync \/ Crash \/ CheckTask \/ CacheWait \/ CacheWaitTimeout
      BY <2>5, <2>4 DEF CacheSync, Crash, CheckTask, CacheWait, CacheWaitTimeout, apiVars
    <2>6. CASE Act
      BY <2>4, <2>6, ActStep DEF TypeInv
    <2>7. CASE UNCHANGED ObjectVars
      BY <2>4, <2>7 DEF ObjectVars
    <2> QED BY <2>1, <2>2, <2>3, <2>5, <2>6, <2>7, Bystanders DEF Next, Reconcile
  <1>2. /\ pc \in {"early", "final"}
        /\ PatchRefused \/ PatchKeeps \/ PatchRemoves
    BY <1>1, PatchStep DEF TypeInv, LifeInv
  <1>3. Owned /\ obj.task # base.task /\ api'.task = obj.task
    BY <1>2 DEF PatchRefused, PatchKeeps, PatchRemoves, NoObject, NewObject
  <1>4. base.task = api.task
    BY <1>2, <1>3 DEF CloneReferenced
  <1>5. ~Done(base.task)
    BY <1>4 DEF Done
  <1>6. pc = "final" /\ obj.task = 0 /\ base.retry = "expired"
    BY <1>2, <1>3, <1>5 DEF InvDropped
  <1>7. api.retry # "zero"
    BY <1>3, <1>4, <1>6 DEF InvRetry
  <1> QED BY <1>4, <1>6, <1>7

\* util.go:189: in a watched environment the reference to a failed task is dropped
\* only by a reconcile that read it together with a RetryAfter that has passed
THEOREM FailuresBackOff == Watched => (Spec => FailedTaskBacksOff)
  <1> SUFFICES ASSUME Watched PROVE Spec => FailedTaskBacksOff
    OBVIOUS
  <1>1. Init => BInv
    <2> SUFFICES ASSUME Init PROVE BInv
      OBVIOUS
    <2>1. CInv
      BY CloneInit
    <2>2. InvDropped /\ InvRetry
      BY DEF Init, InvDropped, InvRetry, NewObject, NoObject
    <2> QED BY <2>1, <2>2 DEF BInv
  <1>2. BInv /\ [Next]_vars => BInv'
    BY BackoffInductive
  <1>3. BInv /\ [Next]_vars
          => [ api.task # 0 /\ tasks[api.task].st = "error" /\ api'.exists /\ api'.task # api.task
                 => api.retry # "zero" /\ base.task = api.task /\ base.retry = "expired" ]_vars
    BY FailedTaskDropped
  <1> QED BY <1>1, <1>2, <1>3, PTL DEF Spec, FailedTaskBacksOff

-----------------------------------------------------------------------------
(* One task at a time, in a reliable environment.                          *)

IInv == TypeOK /\ SafeInv

\* The safety invariant holds at first
LEMMA SafeInit == Reliable /\ Init => SafeInv
  <1> SUFFICES ASSUME Reliable, Init PROVE SafeInv
    OBVIOUS
  <1>q. Quiet /\ ~Exists /\ NoBios
    BY DEF Init, Quiet, Running, NoTask, Exists, NoVM, NoBios, NewObject, NoObject
  <1>1. InvRefs
    BY DEF Init, InvRefs, NoObject, NewObject
  <1>2. InvEnvironment
    BY DEF Init, InvEnvironment, Reliable, NoVM, NoTask
  <1>3. InvObject
    BY <1>q DEF Init, InvObject, InvLife, Owned, NewObject
  <1>4. InvReconcile
    BY <1>q DEF Init, InvReconcile, InvPass
  <1>5. InvTask
    BY <1>q DEF Init, InvTask, Only, Quiet
  <1>6. InvMachine
    BY <1>q DEF Init, InvMachine, Quiet
  <1> QED BY <1>1, <1>2, <1>3, <1>4, <1>5, <1>6 DEF SafeInv

\* The faults that Reliable excludes do not strike
LEMMA NoStrike ==
    ASSUME IInv, NEW f \in {"lookup", "patch", "lag", "crash", "vanish"}
    PROVE  ~Strike(f)
  BY DEF IInv, SafeInv, InvEnvironment, Strike

\* A fault that may strike leaves the budget of the others alone
LEMMA OtherStrike ==
    ASSUME IInv, Strike("rpc") \/ Strike("purge") \/ Strike("taskError") \/ UNCHANGED faults
    PROVE  \A f \in {"lookup", "patch", "lag", "crash", "vanish"} : faults'[f] = 0
  BY DEF IInv, TypeOK, SafeInv, InvEnvironment, Strike, FaultKinds

\* Steps that change neither the objects nor the reconcile, start no task and
\* keep the machine
LEMMA SafeQuietStep ==
    ASSUME IInv,
           UNCHANGED <<apiVars, pc, obj, base, overlap>>,
           InvRefs',
           \A f \in {"lookup", "patch", "lag", "crash", "vanish"} : faults'[f] = 0,
           Exists' = Exists, vm'.id = vm.id, vm'.todo \subseteq vm.todo,
           \A t \in Task : tasks'[t].kind = tasks[t].kind /\ (Running(t)' => Running(t))
    PROVE  SafeInv'
  <1> USE DEF IInv, SafeInv, apiVars
  <1>q. (Quiet => Quiet') /\ (Owned' <=> Owned) /\ (NoBios' <=> NoBios) /\ (Deleting' <=> Deleting)
    BY DEF Quiet, Owned, NoBios, Deleting
  <1>2. InvEnvironment'
    BY DEF InvEnvironment
  <1>3. InvObject'
    BY <1>q DEF InvObject, InvLife
  <1>4. InvReconcile'
    BY <1>q DEF InvReconcile, InvPass
  <1>5. InvTask'
    BY <1>q DEF InvTask, Only
  <1>6. InvMachine'
    BY <1>q DEF InvMachine
  <1> QED BY <1>2, <1>3, <1>4, <1>5, <1>6

\* The invariant leaves room for one running task
LEMMA OneTask == IInv => OneTaskAtATime
  <1> SUFFICES ASSUME IInv PROVE OneTaskAtATime
    OBVIOUS
  <1>1. CASE ~Owned
    BY <1>1 DEF IInv, SafeInv, InvObject, InvLife, Quiet, OneTaskAtATime
  <1>2. CASE Owned
    <2>1. Quiet \/ \E r \in {api.task, obj.task} : Only(r)
      BY <1>2 DEF IInv, TypeOK, SafeInv, InvTask
    <2> QED BY <2>1 DEF Quiet, Only, OneTaskAtATime
  <1> QED BY <1>1, <1>2

\* vCenter's tasks, the guest, the work queue and the goroutines
LEMMA SafeTasks ==
    ASSUME Reliable, IInv, TypeInv', NEW t \in Task,
           VCenter(t) \/ TaskPurged(t) \/ WatcherFires(t) \/ WatcherFails(t)
    PROVE  SafeInv'
  <1> USE DEF IInv, TypeInv
  <1>1. CASE TaskSucceeds(t)
    <2> DEFINE kind == tasks[t].kind
    <2>a. /\ UNCHANGED <<apiVars, pc, obj, base, overlap, faults>>
          /\ Running(t) /\ Feasible(kind) /\ vm' = Effect(t)
      BY <1>1 DEF TaskSucceeds, recVars
    <2>b. \A u \in Task : tasks'[u].kind = tasks[u].kind /\ (Running(u)' => Running(u))
      BY <1>1 DEF TaskSucceeds, TypeOK, Running
    <2>c. \A f \in {"lookup", "patch", "lag", "crash", "vanish"} : faults'[f] = 0
      BY <2>a, OtherStrike
    <2>q. Quiet'
      BY <1>1, OneTask DEF TaskSucceeds, OneTaskAtATime, Quiet, Running, TypeOK
    <2>d. kind # "policy" /\ kind # "none"
      BY <2>a DEF SafeInv, InvEnvironment, Feasible, ConfigItems
    <2>1. CASE kind \in {"powerOn", "powerOff"} \cup ConfigItems
      <3>1. Exists' = Exists /\ vm'.id = vm.id /\ vm'.todo \subseteq vm.todo
        BY <2>a, <2>1 DEF Effect, Feasible, ConfigItems, Exists, TypeOK
      <3> QED BY <2>a, <2>b, <2>c, <3>1, SafeQuietStep DEF apiVars
    <2>2. CASE kind = "clone"
      <3>1. /\ Exists' /\ vm'.id = t /\ vm'.todo = Drift /\ ~Exists /\ NoBios
        BY <2>a, <2>2 DEF Effect, Feasible, ConfigItems, Exists, NoVM, SafeInv, InvMachine
      <3>2. Owned
        BY <2>a DEF SafeInv, InvObject, InvLife, Quiet
      <3>3. InvEnvironment'
        BY <2>a, <2>b, <2>c, <3>1 DEF SafeInv, InvEnvironment, Reliable
      <3>4. InvObject' /\ InvReconcile'
        BY <2>a, <3>2 DEF SafeInv, InvObject, InvLife, InvReconcile, InvPass, Owned, Quiet, apiVars
      <3>5. InvTask'
        BY <2>a, <2>b DEF SafeInv, InvTask, Owned, Quiet, Only, apiVars
      <3>6. InvMachine'
        BY <2>a, <2>q, <3>1 DEF InvMachine, Quiet, NoBios, apiVars
      <3> QED BY <3>3, <3>4, <3>5, <3>6 DEF SafeInv
    <2>3. CASE kind = "destroy"
      <3>1. vm' = NoVM /\ ~Exists' /\ Deleting'
        BY <2>a, <2>3 DEF Effect, ConfigItems, Exists, NoVM, SafeInv, InvMachine, Deleting, apiVars
      <3>2. Owned /\ Owned'
        BY <2>a DEF SafeInv, InvObject, InvLife, Quiet, Owned, apiVars
      <3>3. InvEnvironment'
        BY <2>a, <2>b, <2>c, <3>1 DEF SafeInv, InvEnvironment, NoVM
      <3>4. InvObject' /\ InvReconcile'
        BY <2>a, <2>q, <3>1, <3>2 DEF SafeInv, InvObject, InvLife, InvReconcile, InvPass, Owned, apiVars
      <3>5. InvTask'
        BY <2>a, <2>b DEF SafeInv, InvTask, Owned, Quiet, Only, apiVars
      <3>6. InvMachine'
        BY <2>q, <3>1 DEF InvMachine, Quiet
      <3> QED BY <3>3, <3>4, <3>5, <3>6 DEF SafeInv
    <2> QED BY <2>d, <2>1, <2>2, <2>3 DEF TypeOK, TaskKinds
  <1>2. CASE TaskFails(t)
    <2>1. \A u \in Task : tasks'[u].kind = tasks[u].kind /\ (Running(u)' => Running(u))
      BY <1>2 DEF TaskFails, TypeOK, Running
    <2>2. \A f \in {"lookup", "patch", "lag", "crash", "vanish"} : faults'[f] = 0
      BY <1>2, OtherStrike DEF TaskFails
    <2> QED BY <1>2, <2>1, <2>2, SafeQuietStep DEF TaskFails, recVars, Exists
  <1>3. CASE TaskPurged(t)
    <2>1. \A u \in Task : tasks'[u].kind = tasks[u].kind /\ (Running(u)' => Running(u))
      BY <1>3 DEF TaskPurged, TypeOK, Running
    <2>2. \A f \in {"lookup", "patch", "lag", "crash", "vanish"} : faults'[f] = 0
      BY <1>3, OtherStrike DEF TaskPurged
    <2> QED BY <1>3, <2>1, <2>2, SafeQuietStep DEF TaskPurged, recVars, Exists
  <1>4. CASE WatcherFires(t)
    <2>1. \A f \in {"lookup", "patch", "lag", "crash", "vanish"} : faults'[f] = 0
      BY <1>4, OtherStrike DEF WatcherFires
    <2> QED BY <1>4, <2>1, SafeQuietStep DEF WatcherFires, recVars, vcVars, Exists, Running
  <1>5. CASE WatcherFails(t)
    BY <1>5, NoStrike DEF WatcherFails
  <1> QED BY <1>1, <1>2, <1>3, <1>4, <1>5 DEF VCenter

\* The API server, the cache, the queue, the clock and the guest
LEMMA SafeEnvironment ==
    ASSUME IInv, TypeInv',
           \/ StartFails \/ Crash \/ Delete \/ CacheSync \/ Resync \/ TimePasses
           \/ GuestReportsIP \/ GuestHalts \/ VMVanishes
    PROVE  SafeInv'
  <1> USE DEF IInv, TypeInv
  <1>1. CASE StartFails
    <2>1. \A f \in {"lookup", "patch", "lag", "crash", "vanish"} : faults'[f] = 0
      BY <1>1, OtherStrike DEF StartFails
    <2> QED BY <1>1, <2>1, SafeQuietStep DEF StartFails, recVars, vcVars, Exists, Running
  <1>2. CASE Crash
    BY <1>2, NoStrike DEF Crash
  <1>3. CASE VMVanishes
    BY <1>3, NoStrike DEF VMVanishes
  <1>4. CASE Resync
    <2>1. \A f \in {"lookup", "patch", "lag", "crash", "vanish"} : faults'[f] = 0
      BY <1>4, OtherStrike DEF Resync
    <2> QED BY <1>4, <2>1, SafeQuietStep DEF Resync, recVars, vcVars, Exists, Running
  <1>5. CASE GuestReportsIP \/ GuestHalts
    <2>1. \A f \in {"lookup", "patch", "lag", "crash", "vanish"} : faults'[f] = 0
      BY <1>5, OtherStrike DEF GuestReportsIP, GuestHalts
    <2>2. Exists' = Exists /\ vm'.id = vm.id /\ vm'.todo = vm.todo
      BY <1>5 DEF GuestReportsIP, GuestHalts, Exists, TypeOK
    <2> QED BY <1>5, <2>1, <2>2, SafeQuietStep
            DEF GuestReportsIP, GuestHalts, recVars, Running
  <1>6. CASE Delete
    <2>a. UNCHANGED <<cache, recVars, vcVars, faults>> /\ api.exists /\ ~api.del
      BY <1>6 DEF Delete
    <2>b. /\ api.fin => /\ Owned /\ Owned' /\ api'.exists /\ api'.del /\ api'.fin
                        /\ api'.task = api.task /\ api'.bios = api.bios
          /\ ~api.fin => ~Owned /\ ~Owned' /\ api' = NoObject
      BY <1>6 DEF Delete, TypeOK, VSphereVMType, Owned, NoObject, NewObject
    <2>c. NoObject.task = 0 /\ NoObject.bios = 0 /\ ~NoObject.exists /\ ~NoObject.fin
      BY DEF NoObject, NewObject
    <2>q. (Quiet' <=> Quiet) /\ (Deleting' <=> Deleting) /\ (NoBios => NoBios')
      BY <2>a, <2>b, <2>c DEF Quiet, Running, Deleting, NoBios, recVars, vcVars
    <2>1. InvEnvironment'
      BY <2>a DEF SafeInv, InvEnvironment, recVars, vcVars
    <2>2. InvObject'
      BY <2>a, <2>b, <2>c, <2>q DEF SafeInv, InvObject, InvLife, Owned, Exists, recVars, vcVars
    <2>3. InvReconcile'
      BY <2>a, <2>b, <2>c, <2>q DEF SafeInv, InvReconcile, InvPass, Owned, Exists, recVars, vcVars
    <2>4. InvTask'
      BY <2>a, <2>b, <2>q DEF SafeInv, InvTask, Only, Running, recVars, vcVars
    <2>5. InvMachine'
      BY <2>a, <2>b, <2>c, <2>q DEF SafeInv, InvMachine, Exists, Running, recVars, vcVars
    <2> QED BY <2>1, <2>2, <2>3, <2>4, <2>5 DEF SafeInv
  <1>7. CASE CacheSync
    <2>a. UNCHANGED <<api, recVars, vcVars, faults>> /\ cache' = api
      BY <1>7 DEF CacheSync
    <2>c. ~NoObject.del /\ ~NewObject.del /\ NoObject.bios = 0 /\ ~NoObject.exists /\ ~NoObject.fin
      BY DEF NoObject, NewObject
    <2>q. (Quiet' <=> Quiet) /\ (Deleting => Deleting') /\ (NoBios => NoBios') /\ (Owned' <=> Owned)
      BY <2>a, <2>c
      DEF Quiet, Running, Deleting, NoBios, Owned, SafeInv, InvObject, InvLife, recVars, vcVars
    <2>1. InvEnvironment'
      BY <2>a DEF SafeInv, InvEnvironment, recVars, vcVars
    <2>2. InvObject'
      BY <2>a, <2>c, <2>q DEF SafeInv, InvObject, InvLife, Owned, Exists, recVars, vcVars
    <2>3. InvReconcile'
      BY <2>a, <2>c, <2>q DEF SafeInv, InvReconcile, InvPass, InvObject, InvLife, Owned, Exists, recVars, vcVars
    <2>4. InvTask'
      BY <2>a, <2>q DEF SafeInv, InvTask, Only, Running, recVars, vcVars
    <2>5. InvMachine'
      BY <2>a, <2>q DEF SafeInv, InvMachine, Exists, Running, recVars, vcVars
    <2> QED BY <2>1, <2>2, <2>3, <2>4, <2>5 DEF SafeInv
  <1>8. CASE TimePasses
    <2>a. /\ UNCHANGED <<pc, overlap, vcVars, faults>>
          /\ api' = Aged(api) /\ cache' = Aged(cache) /\ obj' = Aged(obj) /\ base' = Aged(base)
      BY <1>8 DEF TimePasses
    <2>b. \A o \in {api, cache, obj, base} :
            /\ Aged(o).task = o.task /\ Aged(o).bios = o.bios
            /\ Aged(o).exists = o.exists /\ Aged(o).fin = o.fin /\ Aged(o).del = o.del
      BY AgedObject DEF TypeOK
    <2>c. Aged(NoObject) = NoObject /\ Aged(NewObject) = NewObject
      BY DEF Aged, NoObject, NewObject
    <2>q. /\ (Quiet' <=> Quiet) /\ (Deleting' <=> Deleting)
          /\ (NoBios' <=> NoBios) /\ (Owned' <=> Owned)
      BY <2>a, <2>b DEF Quiet, Running, Deleting, NoBios, Owned, vcVars
    <2>1. InvEnvironment'
      BY <2>a DEF SafeInv, InvEnvironment, vcVars
    <2>2. InvObject'
      BY <2>a, <2>b, <2>c, <2>q DEF SafeInv, InvObject, InvLife, Exists, vcVars
    <2>3. InvReconcile'
      BY <2>a, <2>b, <2>c, <2>q DEF SafeInv, InvReconcile, InvPass, Exists, vcVars
    <2>4. InvTask'
      BY <2>a, <2>b, <2>q DEF SafeInv, InvTask, Only, Running, vcVars
    <2>5. InvMachine'
      BY <2>a, <2>b, <2>q DEF SafeInv, InvMachine, Exists, Running, vcVars
    <2> QED BY <2>1, <2>2, <2>3, <2>4, <2>5 DEF SafeInv
  <1> QED BY <1>1, <1>2, <1>3, <1>4, <1>5, <1>6, <1>7, <1>8

\* The steps of a reconcile up to the point where it acts
LEMMA SafeCheck ==
    ASSUME IInv, TypeInv', Start \/ CheckTask
    PROVE  SafeInv'
  <1> USE DEF IInv, TypeInv
  <1>c. /\ NoObject.task = 0 /\ NoObject.bios = 0 /\ ~NoObject.exists /\ ~NoObject.fin /\ ~NoObject.del
        /\ NewObject.task = 0 /\ NewObject.bios = 0 /\ NewObject.exists /\ ~NewObject.fin /\ ~NewObject.del
    BY DEF NoObject, NewObject
  <1>1. CASE Start
    <2>a. /\ UNCHANGED <<cache, overlap, vcVars, faults>> /\ pc = "idle"
          /\ \/ pc' = "inflight" /\ obj' = cache /\ base' = cache /\ cache.exists
                /\ (cache.fin \/ cache.del)
             \/ UNCHANGED <<pc, obj, base>>
      BY <1>1 DEF Start
    <2>b. \/ api' = api
          \/ /\ cache.exists /\ ~cache.fin /\ ~cache.del /\ api.exists
             /\ api' = [api EXCEPT !.fin = TRUE]
             /\ UNCHANGED <<pc, obj, base>>
      BY <1>1 DEF Start
    <2>d. /\ api'.exists = api.exists /\ api'.del = api.del
          /\ api'.task = api.task /\ api'.bios = api.bios /\ (Owned => Owned')
          /\ api.fin => api'.fin
      BY <2>b DEF TypeOK, VSphereVMType, Owned
    <2>q. (Quiet' <=> Quiet) /\ (NoBios => NoBios') /\ (Deleting => Deleting')
      BY <2>a, <2>d DEF Quiet, Running, NoBios, Deleting, vcVars
    <2>1. InvEnvironment'
      BY <2>a DEF SafeInv, InvEnvironment, vcVars
    <2>2. InvObject'
      BY <2>a, <2>b, <2>d, <2>q, <1>c DEF SafeInv, InvObject, InvLife, Owned, Exists, vcVars, TypeOK, VSphereVMType
    <2>3. InvReconcile'
      BY <2>a, <2>b, <2>d, <2>q, <1>c DEF SafeInv, InvObject, InvLife, InvReconcile, InvPass, Owned, Exists, vcVars
    <2>4. InvTask'
      <3>1. CASE Owned
        BY <2>a, <2>d, <3>1 DEF SafeInv, InvTask, Only, Running, vcVars
      <3>2. CASE ~Owned /\ Owned'
        BY <2>a, <2>b, <2>d, <3>2, <1>c DEF SafeInv, InvObject, InvLife, InvTask, Owned, Only, Quiet, Running, vcVars
      <3>3. CASE ~Owned'
        BY <2>a, <3>3 DEF InvTask
      <3> QED BY <3>1, <3>2, <3>3
    <2>5. InvMachine'
      BY <2>a, <2>d, <2>q DEF SafeInv, InvMachine, Exists, Running, vcVars
    <2> QED BY <2>1, <2>2, <2>3, <2>4, <2>5 DEF SafeInv
  <1>2. CASE CheckTask
    <2>a. UNCHANGED <<api, cache, base, overlap, vcVars>> /\ pc = "inflight"
      BY <1>2 DEF CheckTask, apiVars
    <2>1. PICK found \in BOOLEAN :
            /\ TaskFound(found)
            /\ LET r == CheckAndRetryTask(obj, found, IF found THEN tasks[obj.task].st ELSE "none")
               IN  /\ obj' = [obj EXCEPT !.task = r.task, !.retry = r.retry]
                   /\ pc' = IF r.verdict = "go" THEN "act" ELSE "final"
      BY <1>2 DEF CheckTask
    <2> DEFINE st == IF found THEN tasks[obj.task].st ELSE "none"
               r  == CheckAndRetryTask(obj, found, st)
    <2>2. /\ faults' = faults
          /\ found <=> obj.task # 0 /\ tasks[obj.task].st # "purged"
      BY <2>1, NoStrike DEF TaskFound
    <2>t. obj.task \in TaskId
      BY DEF TypeOK, VSphereVMType
    <2>3. obj.task # 0 => obj.task \in Task
      BY <2>t, ConstantsAssumption DEF ConstantsAssumption, Task, TaskId
    <2>4. st \in TaskStates /\ (found => st \notin {"none", "purged"})
      BY <2>2, <2>3 DEF TypeOK, SafeInv, InvRefs, TaskStates
    <2>5. /\ r.verdict = "go" => r.task = 0 /\ st # "running"
          /\ r.verdict # "go" => r.task = obj.task \/ (r.task = 0 /\ st # "running")
      BY <2>4 DEF CheckAndRetryTask, TypeOK, VSphereVMType, TaskStates
    <2>6. /\ obj' = [obj EXCEPT !.task = r.task, !.retry = r.retry]
          /\ pc' = IF r.verdict = "go" THEN "act" ELSE "final"
      BY <2>1
    <2> HIDE DEF r
    <2>7. /\ obj'.task = r.task /\ obj'.bios = obj.bios
          /\ obj'.fin = obj.fin /\ obj'.del = obj.del
      BY <2>6 DEF TypeOK, VSphereVMType
    <2>8. st # "running" => ~(obj.task # 0 /\ Running(obj.task))
      BY <2>2 DEF Running
    <2>q. /\ (Quiet' <=> Quiet) /\ (NoBios => NoBios') /\ (Deleting => Deleting') /\ (Owned' <=> Owned)
      BY <2>a, <2>6, <2>7 DEF Quiet, Running, NoBios, Deleting, Owned, vcVars
    <2>9. InvEnvironment'
      BY <2>a, <2>2 DEF SafeInv, InvEnvironment, vcVars
    <2>10. InvObject'
      BY <2>a, <2>q DEF SafeInv, InvObject, InvLife, Exists, vcVars
    <2>11. InvReconcile'
      BY <2>a, <2>6, <2>7, <2>q DEF SafeInv, InvReconcile, InvPass, Exists, vcVars
    <2>12. InvTask'
      <3>1. Owned => Only(obj.task)
        BY <2>a DEF SafeInv, InvTask
      <3>2. Owned /\ st # "running" => Quiet
        BY <2>3, <2>8, <3>1 DEF Only, Quiet, Task
      <3>3. Quiet => Only(obj'.task)
        BY DEF Quiet, Only
      <3> QED BY <2>a, <2>5, <2>6, <2>7, <2>q, <3>1, <3>2, <3>3
              DEF SafeInv, InvTask, Only, Running, vcVars
    <2>13. InvMachine'
      BY <2>a, <2>7, <2>q DEF SafeInv, InvMachine, Exists, Running, vcVars
    <2> QED BY <2>9, <2>10, <2>11, <2>12, <2>13 DEF SafeInv
  <1> QED BY <1>1, <1>2

\* The steps that patch the object and wait for the cache
LEMMA SafePatch ==
    ASSUME IInv, TypeInv', EarlyPatch \/ FinalPatch \/ CacheWait \/ CacheWaitTimeout
    PROVE  SafeInv'
  <1> USE DEF IInv, TypeInv
  <1>c. /\ NoObject.task = 0 /\ NoObject.bios = 0 /\ ~NoObject.exists /\ ~NoObject.fin /\ ~NoObject.del
    BY DEF NoObject, NewObject
  <1>f. PatchFails => ~api.exists /\ UNCHANGED faults
    BY NoStrike DEF PatchFails
  <1>o. pc # "idle" /\ api.exists => Owned
    BY DEF SafeInv, InvReconcile, InvPass
  <1> DEFINE p == Patched(api, base, obj)
  \* a patch that keeps the finalizer
  <1>p. ASSUME pc # "idle", api.exists, obj.fin
        PROVE  /\ p.exists /\ p.fin /\ p.del = api.del
               /\ p.task = Merge(api.task, base.task, obj.task)
               /\ p.bios \in {api.bios, obj.bios}
    <2>1. base.fin /\ api.fin /\ ~(api.del /\ ~Merge(api.fin, base.fin, obj.fin))
      BY <1>p, <1>o DEF SafeInv, InvReconcile, InvPass, Owned, Merge, TypeOK, VSphereVMType
    <2>2. Merge(api.fin, base.fin, obj.fin) = api.fin
      BY <1>p, <2>1 DEF Merge, TypeOK, VSphereVMType
    <2> QED BY <1>p, <2>1, <2>2 DEF Patched, Merge
  <1>1. CASE EarlyPatch
    <2>a. /\ UNCHANGED <<cache, obj, base, overlap, vcVars>> /\ pc = "early" /\ pc' = "final"
          /\ UNCHANGED faults
          /\ \/ api.exists /\ api' = p
             \/ ~api.exists /\ api' = api
      BY <1>1, <1>f DEF EarlyPatch
    <2>b. obj.fin
      BY <2>a DEF SafeInv, InvReconcile, InvPass
    <2>d. /\ api'.exists = api.exists /\ api'.del = api.del /\ (Owned' <=> Owned)
          /\ api'.bios \in {api.bios, obj.bios}
          /\ Owned => api'.task \in {api.task, obj.task}
      BY <2>a, <2>b, <1>p, <1>o DEF Owned, Merge
    <2>q. (Quiet' <=> Quiet) /\ (NoBios => NoBios') /\ (Deleting => Deleting')
      BY <2>a, <2>d DEF Quiet, Running, NoBios, Deleting, vcVars
    <2>1. InvEnvironment'
      BY <2>a DEF SafeInv, InvEnvironment, vcVars
    <2>2. InvObject'
      BY <2>a, <2>d, <2>q, <1>o DEF SafeInv, InvObject, InvLife, Exists, Owned, vcVars
    <2>3. InvReconcile'
      BY <2>a, <2>b, <2>d, <2>q DEF SafeInv, InvReconcile, InvPass, Exists, vcVars
    <2>4. InvTask'
      BY <2>a, <2>d DEF SafeInv, InvTask, Only, Running, vcVars
    <2>5. InvMachine'
      BY <2>a, <2>d, <2>q DEF SafeInv, InvMachine, Exists, Running, vcVars
    <2> QED BY <2>1, <2>2, <2>3, <2>4, <2>5 DEF SafeInv
  <1>2. CASE FinalPatch
    <2>a. /\ UNCHANGED <<cache, vcVars, faults>> /\ pc = "final"
          /\ \/ api.exists /\ api' = p
             \/ ~api.exists /\ api' = api
          /\ \/ /\ obj.task # base.task /\ pc' = "wait"
                /\ UNCHANGED <<obj, base, overlap>>
             \/ /\ obj.task = base.task /\ pc' = "idle"
                /\ obj' = NoObject /\ base' = NoObject /\ ~overlap'
      BY <1>2, <1>f DEF FinalPatch, Return
    <2>b. (Quiet' <=> Quiet) /\ (Exists' <=> Exists)
      BY <2>a DEF Quiet, Running, Exists, vcVars
    <2>1. InvEnvironment'
      BY <2>a DEF SafeInv, InvEnvironment, vcVars
    <2>2. CASE ~api'.exists
      <3>1. ~Owned' /\ api' = NoObject /\ Quiet /\ ~Exists
        <4>1. CASE ~api.exists
          BY <2>a, <4>1 DEF SafeInv, InvObject, InvLife, Owned
        <4>2. CASE api.exists
          <5>1. ~obj.fin
            BY <2>a, <2>2, <4>2, <1>p
          <5>2. Quiet /\ ~Exists
            BY <2>a, <5>1 DEF SafeInv, InvReconcile, InvPass
          <5>3. api' = NoObject
            BY <2>a, <2>2, <4>2 DEF Patched
          <5> QED BY <2>2, <5>2, <5>3 DEF Owned
        <4> QED BY <4>1, <4>2
      <3>2. cache.del \/ ~cache.exists
        <4>1. CASE ~api.exists
          BY <2>a, <4>1 DEF SafeInv, InvReconcile, InvPass, Owned
        <4>2. CASE api.exists
          BY <2>a, <2>2, <4>2, <1>p DEF SafeInv, InvReconcile, InvPass
        <4> QED BY <4>1, <4>2
      <3>3. obj.del
        <4>1. CASE ~api.exists
          BY <2>a, <4>1 DEF SafeInv, InvReconcile, InvPass, Owned
        <4>2. CASE api.exists
          BY <2>a, <2>2, <4>2, <1>p DEF SafeInv, InvReconcile, InvPass
        <4> QED BY <4>1, <4>2
      <3>4. InvObject'
        BY <2>a, <2>b, <3>1, <3>2, <1>c DEF SafeInv, InvObject, InvLife, Owned
      <3>5. InvReconcile'
        BY <2>a, <2>b, <3>1, <3>2, <3>3, <1>c DEF SafeInv, InvReconcile, InvPass
      <3>6. InvTask'
        BY <2>a, <3>1, <1>c DEF InvTask
      <3>7. InvMachine'
        BY <2>a, <2>b, <3>1, <3>2, <3>3 DEF InvMachine, Deleting, Quiet, Running, vcVars
      <3> QED BY <2>1, <3>4, <3>5, <3>6, <3>7 DEF SafeInv
    <2>3. CASE api'.exists
      <3>1. api.exists /\ api' = p /\ Owned
        BY <2>a, <2>3, <1>o
      <3>2. obj.fin
        <4>1. ~obj.fin => api.del /\ obj.del /\ base.fin
          BY <2>a, <3>1 DEF SafeInv, InvReconcile, InvPass
        <4>2. ~obj.fin => p = NoObject
          BY <4>1 DEF Patched, Merge, TypeOK, VSphereVMType
        <4> QED BY <2>3, <3>1, <4>2, <1>c
      <3>3. /\ Owned' /\ api'.del = api.del /\ api'.fin
            /\ api'.task = Merge(api.task, base.task, obj.task)
            /\ api'.bios \in {api.bios, obj.bios}
        BY <2>a, <3>1, <3>2, <1>p DEF Owned
      <3>4. (NoBios => NoBios') /\ (Deleting => Deleting')
        BY <2>a, <3>3, <1>c DEF NoBios, Deleting
      <3>5. InvObject'
        BY <2>a, <2>b, <2>3, <3>1, <3>3 DEF SafeInv, InvObject, InvLife, Owned
      <3>6. InvReconcile'
        BY <2>a, <2>b, <3>2, <3>3 DEF SafeInv, InvReconcile, InvPass
      <3>7. InvTask'
        BY <2>a, <3>1, <3>3, <1>c DEF SafeInv, InvTask, Only, Running, Merge, vcVars
      <3>8. InvMachine'
        BY <2>a, <2>b, <3>3, <3>4, <1>c DEF SafeInv, InvMachine, Running, vcVars
      <3> QED BY <2>1, <3>5, <3>6, <3>7, <3>8 DEF SafeInv
    <2> QED BY <2>2, <2>3
  <1>3. CASE CacheWait
    <2>a. /\ UNCHANGED <<api, cache, vcVars, faults>> /\ pc = "wait" /\ pc' = "idle"
          /\ obj' = NoObject /\ base' = NoObject /\ ~overlap'
          /\ cache.exists => cache.task # base.task
      BY <1>3 DEF CacheWait, Return, apiVars
    <2>q. /\ (Quiet' <=> Quiet) /\ (Exists' <=> Exists) /\ (Owned' <=> Owned)
          /\ (NoBios => NoBios') /\ (Deleting => Deleting')
      BY <2>a, <1>c DEF Quiet, Running, Exists, Owned, NoBios, Deleting, vcVars
    <2>1. InvEnvironment'
      BY <2>a DEF SafeInv, InvEnvironment, vcVars
    <2>2. InvObject' /\ InvReconcile'
      BY <2>a, <2>q DEF SafeInv, InvObject, InvLife, InvReconcile, InvPass
    <2>3. InvTask'
      BY <2>a, <2>q DEF SafeInv, InvObject, InvLife, InvTask, Owned, Only, Running, vcVars
    <2>4. InvMachine'
      BY <2>a, <2>q, <1>c DEF SafeInv, InvMachine, Running, vcVars
    <2> QED BY <2>1, <2>2, <2>3, <2>4 DEF SafeInv
  \* the cache always catches up in time
  <1>4. CASE CacheWaitTimeout
    <2>1. pc = "wait" /\ cache.exists /\ cache.task = base.task /\ cache = api
      BY <1>4, NoStrike DEF CacheWaitTimeout
    <2> QED BY <2>1, <1>o DEF SafeInv, InvTask
  <1> QED BY <1>1, <1>2, <1>3, <1>4

\* What a step of ReconcileVM or DestroyVM that starts a task keeps: it is
\* taken while nothing runs and the object is owned
LEMMA SafeSubmit ==
    ASSUME IInv, TypeInv', pc = "act", Owned, ~overlap',
           UNCHANGED <<api, cache, base, vm, faults>>,
           NEW t \in Task, NEW kind \in TaskKinds \ {"policy"}, Submit(t, kind),
           pc' \in {"early", "final"},
           obj'.task = t, obj'.bios = obj.bios, obj'.fin = obj.fin, obj'.del = obj.del,
           kind = "clone" => ~Exists /\ NoBios,
           kind = "destroy" => Deleting
    PROVE  SafeInv'
  <1> USE DEF IInv, TypeInv
  <1>1. Quiet /\ obj.fin
    BY DEF SafeInv, InvTask, InvReconcile, InvPass
  <1>2. /\ \A u \in Task : u # t => tasks'[u] = tasks[u]
        /\ tasks'[t].kind = kind /\ tasks[t].st = "none"
    BY DEF Submit, TypeOK
  <1>3. \A u \in Task : Running(u)' => u = t
    BY <1>1, <1>2 DEF Quiet, Running
  <1>4. t # 0 /\ base.task # t
    <2>1. base.task # 0 => tasks[base.task].st # "none"
      BY DEF SafeInv, InvRefs
    <2> QED BY <1>2, <2>1, ConstantsAssumption DEF Task, ConstantsAssumption
  <1>q. (NoBios' <=> NoBios) /\ (Deleting => Deleting') /\ Owned' /\ (Exists' <=> Exists)
    BY DEF NoBios, Deleting, Owned, Exists
  <1>5. InvEnvironment'
    BY <1>2 DEF SafeInv, InvEnvironment
  <1>6. InvObject'
    BY <1>q DEF SafeInv, InvObject, InvLife
  <1>7. InvReconcile'
    BY <1>1, <1>q DEF SafeInv, InvReconcile, InvPass
  <1>8. InvTask'
    BY <1>3, <1>4, <1>q DEF SafeInv, InvTask, Only
  <1>9. InvMachine'
    BY <1>2, <1>3, <1>q DEF SafeInv, InvMachine
  <1> QED BY <1>5, <1>6, <1>7, <1>8, <1>9 DEF SafeInv

\* What a step that starts no task keeps
LEMMA SafeLeave ==
    ASSUME IInv, TypeInv', pc = "act", ~overlap',
           UNCHANGED <<api, cache, base, tasks>>,
           Exists' = Exists, vm'.id = vm.id, vm'.todo = vm.todo,
           \A f \in {"lookup", "patch", "lag", "crash", "vanish"} : faults'[f] = 0,
           pc' = "final", obj'.task = obj.task, obj'.del = obj.del,
           (Exists /\ obj'.bios \in {0, vm.id}) \/ obj'.bios = obj.bios,
           obj'.fin \/ (obj.del /\ ~Exists)
    PROVE  SafeInv'
  <1> USE DEF IInv, TypeInv
  <1>1. /\ obj.task = 0 /\ Quiet /\ Quiet'
    BY DEF SafeInv, InvTask, InvObject, InvLife, Quiet, Running
  <1>q. /\ (~Exists /\ NoBios => NoBios') /\ (Deleting => Deleting') /\ (Owned' <=> Owned)
    BY DEF NoBios, Deleting, Owned
  <1>5. InvEnvironment'
    BY DEF SafeInv, InvEnvironment
  <1>6. InvObject'
    BY <1>1, <1>q DEF SafeInv, InvObject, InvLife
  <1>7. InvReconcile'
    BY <1>1, <1>q DEF SafeInv, InvReconcile, InvPass
  <1>8. InvTask'
    BY <1>1, <1>q DEF SafeInv, InvTask, Only, Quiet
  <1>9. InvMachine'
    BY <1>1, <1>q DEF SafeInv, InvMachine, Quiet
  <1> QED BY <1>5, <1>6, <1>7, <1>8, <1>9 DEF SafeInv

\* The steps in which ReconcileVM and DestroyVM act on the machine
LEMMA SafeAct ==
    ASSUME IInv, TypeInv', Act
    PROVE  SafeInv'
  <1> USE DEF IInv, TypeInv
  <1>a. pc = "act" /\ UNCHANGED <<api, cache, base>> /\ ~overlap
    BY ActStep DEF SafeInv, InvEnvironment
  \* the machine is found exactly when it exists
  <1>m. FoundVM <=> Exists
    BY DEF FoundVM, SafeInv, InvMachine
  <1>w. /\ obj.fin
        /\ Exists \/ ~obj.del => Owned
        /\ obj.del => Deleting
        /\ ~Exists /\ ~obj.del => NoBios
    BY <1>a DEF SafeInv, InvObject, InvReconcile, InvPass, InvMachine, Deleting
  <1>1. ASSUME NEW t \in Task, NEW kind \in TaskKinds, Begins(t, kind) PROVE SafeInv'
    <2>1. kind # "policy"
      BY <1>1 DEF Begins, SafeInv, InvEnvironment
    <2>2. /\ UNCHANGED <<vm, faults>> /\ Submit(t, kind)
          /\ obj'.task = t /\ obj'.bios = obj.bios /\ obj'.fin = obj.fin /\ obj'.del = obj.del
          /\ pc' \in {"early", "final"} /\ ~overlap'
      BY <1>1, <1>a, <2>1 DEF Begins
    <2>3. /\ Owned
          /\ kind = "clone" => ~Exists /\ NoBios
          /\ kind = "destroy" => Deleting
      BY <1>1, <1>m, <1>w DEF Begins
    <2> QED BY <1>a, <2>1, <2>2, <2>3, SafeSubmit
  <1>2. CASE BeginsNone
    <2>1. \A f \in {"lookup", "patch", "lag", "crash", "vanish"} : faults'[f] = 0
      BY <1>2, OtherStrike DEF BeginsNone
    <2>2. /\ pc' = "final" /\ UNCHANGED <<api, cache, base, tasks>> /\ ~overlap'
          /\ Exists' = Exists /\ vm'.id = vm.id /\ vm'.todo = vm.todo
          /\ obj'.task = obj.task /\ obj'.del = obj.del
          /\ (Exists /\ obj'.bios \in {0, vm.id}) \/ obj'.bios = obj.bios
          /\ obj'.fin \/ (obj.del /\ ~Exists)
      BY <1>2, <1>a, <1>m, <1>w DEF BeginsNone, Exists
    <2> QED BY <1>a, <2>1, <2>2, SafeLeave
  <1> QED BY <1>1, <1>2, ActStep DEF SafeInv

\* and after every step in a reliable environment
LEMMA SafeStep == Reliable /\ IInv /\ [Next]_vars => IInv'
  <1> SUFFICES ASSUME Reliable, IInv, [Next]_vars PROVE IInv'
    OBVIOUS
  <1>t. TypeInv'
    BY TypeStep DEF IInv, SafeInv, TypeInv
  <1>1. CASE UNCHANGED vars
    <2>1. \A f \in {"lookup", "patch", "lag", "crash", "vanish"} : faults'[f] = 0
      BY <1>1, OtherStrike DEF vars
    <2>2. SafeInv'
      BY <1>1, <1>t, <2>1, SafeQuietStep DEF TypeInv, vars, recVars, vcVars, Exists, Running
    <2> QED BY <1>t, <2>2 DEF IInv, TypeInv
  <1>2. CASE Reconcile
    <2>1. SafeInv'
      BY <1>2, <1>t, SafeCheck, SafeAct, SafePatch DEF Reconcile
    <2> QED BY <1>t, <2>1 DEF IInv, TypeInv
  <1>3. CASE \E t \in Task : VCenter(t) \/ TaskPurged(t) \/ WatcherFires(t) \/ WatcherFails(t)
    <2>1. SafeInv'
      BY <1>3, <1>t, SafeTasks
    <2> QED BY <1>t, <2>1 DEF IInv, TypeInv
  <1>4. CASE \/ StartFails \/ Crash \/ Delete \/ CacheSync \/ Resync \/ TimePasses
             \/ GuestReportsIP \/ GuestHalts \/ VMVanishes
    <2>1. SafeInv'
      BY <1>4, <1>t, SafeEnvironment
    <2> QED BY <1>t, <2>1 DEF IInv, TypeInv
  <1> QED BY <1>1, <1>2, <1>3, <1>4 DEF Next

\* In a reliable environment the API server, the cache and the reconcile always
\* agree on the task in flight and on the machine, whatever tasks and calls fail
THEOREM Safe == Reliable => (Spec => []SafeInv)
  <1> SUFFICES ASSUME Reliable PROVE Spec => []SafeInv
    OBVIOUS
  <1>1. Init => IInv
    BY SafeInit, TypeInit DEF IInv, TypeInv
  <1>2. IInv /\ [Next]_vars => IInv'
    BY SafeStep
  <1>3. IInv => SafeInv
    BY DEF IInv
  <1> QED BY <1>1, <1>2, <1>3, PTL DEF Spec

\* In a reliable environment reconcileInFlightTask together with the wait for
\* the cache keeps every VSphereVM to one vCenter task at a time
THEOREM TasksAreSerial == Reliable => (Spec => []OneTaskAtATime)
  <1> SUFFICES ASSUME Reliable PROVE Spec => []OneTaskAtATime
    OBVIOUS
  <1>1. Init => IInv
    BY SafeInit, TypeInit DEF IInv, TypeInv
  <1>2. IInv /\ [Next]_vars => IInv'
    BY SafeStep
  <1>3. IInv => OneTaskAtATime
    BY OneTask
  <1> QED BY <1>1, <1>2, <1>3, PTL DEF Spec

-----------------------------------------------------------------------------
(* In a reliable environment the controller, vCenter and the API server    *)
(* together implement ManagedMachine.                                      *)


DestroyTried == \E t \in Task : tasks[t].kind = "destroy"

\* Once a destroy was started no reconcile takes the object for a live one, and
\* every task is of some kind
RInv == /\ IInv
        /\ DestroyTried => Deleting
        /\ \A t \in Task : Running(t) => tasks[t].kind # "none"

\* The abstract state the promise is about
Mapped == <<ObjectState, api.del \/ ~api.exists, MachineState, TaskInFlight>>

LEMMA UniqueChoice ==
    ASSUME NEW f, NEW t \in Task, f[t].st = "running",
           \A u \in Task : f[u].st = "running" => u = t
    PROVE  f[CHOOSE u \in Task : f[u].st = "running"].kind = f[t].kind
  <1> DEFINE c == CHOOSE u \in Task : f[u].st = "running"
  <1>1. c \in Task /\ f[c].st = "running"
    OBVIOUS
  <1> QED BY <1>1

\* The running task is the one in flight
LEMMA InFlight ==
    ASSUME RInv, NEW t \in Task, Running(t)
    PROVE  TaskInFlight = tasks[t].kind /\ TaskInFlight # "none"
  <1>1. \A u \in Task : tasks[u].st = "running" => u = t
    BY OneTask DEF OneTaskAtATime, Running, RInv
  <1>2. TaskInFlight = tasks[t].kind
    BY <1>1, UniqueChoice DEF TaskInFlight, Quiet, Running
  <1> QED BY <1>2 DEF RInv

\* A reconcile starts a task
LEMMA StartsTask ==
    ASSUME RInv, NEW t \in Task, NEW kind \in TaskKinds \ {"none"}, Submit(t, kind),
           pc = "act", Owned, UNCHANGED <<api, vm>>,
           IF kind = "clone" THEN ~Exists /\ ~DestroyTried ELSE Exists,
           kind = "destroy" => api.del
    PROVE  Promise!Start(kind)
  <1>1. tasks' = [tasks EXCEPT ![t] = [kind |-> kind, st |-> "running"]]
    BY DEF Submit
  <1>2. Quiet
    BY DEF RInv, IInv, SafeInv, InvTask
  <1>3. /\ tasks'[t].st = "running" /\ tasks'[t].kind = kind
        /\ \A u \in Task : tasks'[u].st = "running" => u = t
        /\ \A u \in Task : u # t => tasks'[u].kind = tasks[u].kind
    BY <1>1, <1>2 DEF RInv, IInv, TypeOK, Quiet, Running
  <1>4. TaskInFlight' = kind
    <2>1. tasks'[CHOOSE u \in Task : tasks'[u].st = "running"].kind = kind
      BY <1>3, UniqueChoice
    <2>2. ~Quiet'
      BY <1>3 DEF Quiet, Running
    <2> QED BY <2>1, <2>2 DEF TaskInFlight, Running
  <1>5. TaskInFlight = "none"
    BY <1>2 DEF TaskInFlight
  <1>6. ObjectState = "held" /\ ObjectState' = "held"
    BY DEF ObjectState, Owned
  <1>7. /\ MachineState = IF kind = "clone" THEN "none" ELSE "there"
        /\ MachineState' = MachineState
    <2>1. CASE kind = "clone"
      <3>1. ~Exists' /\ ~DestroyTried'
        BY <2>1, <1>3 DEF Exists, DestroyTried
      <3> QED BY <2>1, <3>1 DEF MachineState, DestroyTried
    <2>2. CASE kind # "clone"
      <3>1. Exists /\ Exists'
        BY <2>2 DEF Exists
      <3> QED BY <2>2, <3>1 DEF MachineState
    <2> QED BY <2>1, <2>2
  <1> QED BY <1>4, <1>5, <1>6, <1>7 DEF Promise!Start

\* vCenter ends a task
LEMMA EndsTask ==
    ASSUME RInv, NEW t \in Task, VCenter(t)
    PROVE  Promise!Succeed \/ Promise!Fail
  <1> DEFINE kind == tasks[t].kind
  <1>1. Running(t) /\ UNCHANGED api
    BY DEF VCenter, TaskSucceeds, TaskFails, apiVars
  <1>2. \E st \in TaskStates \ {"running"} : tasks' = [tasks EXCEPT ![t].st = st]
    BY DEF VCenter, TaskSucceeds, TaskFails, TaskStates
  <1>3. TaskInFlight = kind /\ kind # "none" /\ kind \in TaskKinds
    BY <1>1, InFlight DEF RInv, IInv, TypeOK
  <1>4. /\ \A u \in Task : tasks'[u].kind = tasks[u].kind
        /\ \A u \in Task : tasks'[u].st # "running"
    BY <1>1, <1>2, OneTask DEF RInv, IInv, TypeOK, OneTaskAtATime, Running
  <1>5. TaskInFlight' = "none"
    BY <1>4 DEF TaskInFlight, Quiet, Running
  <1>6. ObjectState' = ObjectState /\ (api.del \/ ~api.exists)' = (api.del \/ ~api.exists)
    BY <1>1 DEF ObjectState, Owned
  <1>7. DestroyTried' = DestroyTried
    BY <1>4 DEF DestroyTried
  <1>8. CASE TaskFails(t)
    <2>1. MachineState' = MachineState
      BY <1>7, <1>8 DEF TaskFails, MachineState, Exists, DestroyTried
    <2> QED BY <2>1, <1>3, <1>5, <1>6 DEF Promise!Fail
  <1>9. CASE TaskSucceeds(t)
    <2>1. Feasible(kind) /\ vm' = Effect(t)
      BY <1>9 DEF TaskSucceeds
    <2>2. CASE kind = "clone"
      <3>1. vm'.power = "off"
        BY <2>1, <2>2 DEF Effect, NoVM, ConfigItems
      <3>2. MachineState' = "there"
        BY <3>1 DEF MachineState, Exists
      <3> QED BY <2>2, <3>2, <1>3, <1>5, <1>6 DEF Promise!Succeed
    <2>3. CASE kind = "destroy"
      <3>1. vm' = NoVM
        BY <2>1, <2>3 DEF Effect, ConfigItems
      <3>2. DestroyTried' /\ ~Exists'
        BY <2>3, <3>1, <1>7 DEF DestroyTried, Exists, NoVM
      <3>3. MachineState' = "destroyed"
        BY <3>2 DEF MachineState, DestroyTried
      <3> QED BY <2>3, <3>3, <1>3, <1>5, <1>6 DEF Promise!Succeed
    <2>4. CASE kind \in ConfigItems \cup {"powerOn", "powerOff"}
      <3>1. Exists /\ Exists'
        BY <2>1, <2>4 DEF Feasible, Effect, Exists, ConfigItems, RInv, IInv, TypeOK
      <3>2. MachineState' = MachineState
        BY <3>1 DEF MachineState
      <3>3. kind # "clone" /\ kind # "destroy"
        BY <2>4 DEF ConfigItems
      <3> QED BY <3>2, <3>3, <1>3, <1>5, <1>6 DEF Promise!Succeed
    <2> QED BY <2>2, <2>3, <2>4, <1>3 DEF TaskKinds
  <1> QED BY <1>8, <1>9 DEF VCenter

\* Steps that leave vCenter alone, or only the guest in it
LEMMA SameMachine ==
    ASSUME \A t \in Task : tasks'[t].kind = tasks[t].kind /\ (Running(t)' <=> Running(t)),
           Exists' = Exists, RInv, RInv'
    PROVE  MachineState' = MachineState /\ TaskInFlight' = TaskInFlight
  <1>1. DestroyTried' = DestroyTried
    BY DEF DestroyTried
  <1>2. MachineState' = MachineState
    BY <1>1 DEF MachineState, DestroyTried
  <1>3. CASE Quiet
    BY <1>2, <1>3 DEF Quiet, TaskInFlight
  <1>4. CASE ~Quiet
    <2>1. PICK t \in Task : Running(t)
      BY <1>4 DEF Quiet
    <2>2. TaskInFlight = tasks[t].kind
      BY <2>1, InFlight
    <2>3. tasks'[t].st = "running" /\ \A u \in Task : tasks'[u].st = "running" => u = t
      BY <2>1, OneTask DEF RInv, OneTaskAtATime, Running
    <2>4. tasks'[CHOOSE u \in Task : tasks'[u].st = "running"].kind = tasks'[t].kind
      BY <2>3, UniqueChoice
    <2>5. ~Quiet'
      BY <2>1 DEF Quiet
    <2> QED BY <1>2, <2>2, <2>4, <2>5 DEF TaskInFlight, Running
  <1> QED BY <1>3, <1>4

\* A step changes the kind of a task only by starting it
LEMMA TaskKindsStay ==
    ASSUME IInv, [Next]_vars, NEW t \in Task
    PROVE  \/ tasks'[t].kind = tasks[t].kind /\ (Running(t)' => Running(t))
           \/ Running(t)' /\ tasks'[t].kind \in TaskKinds \ {"none"}
  <1> USE DEF IInv, TypeOK
  <1>1. CASE UNCHANGED tasks
    BY <1>1 DEF Running
  <1>2. ASSUME NEW u \in Task, VCenter(u) \/ TaskPurged(u)
        PROVE  tasks'[t].kind = tasks[t].kind /\ (Running(t)' => Running(t))
    BY <1>2 DEF VCenter, TaskSucceeds, TaskFails, TaskPurged, Running
  <1>3. ASSUME NEW u \in Task, NEW kind \in TaskKinds \ {"none"}, Submit(u, kind)
        PROVE  \/ tasks'[t].kind = tasks[t].kind /\ (Running(t)' => Running(t))
               \/ Running(t)' /\ tasks'[t].kind \in TaskKinds \ {"none"}
    BY <1>3 DEF Submit, Running
  <1>k. ConfigItems \cup {"clone", "powerOn", "powerOff", "destroy"} \subseteq TaskKinds \ {"none"}
    BY DEF TaskKinds, ConfigItems
  <1>4. CASE Act
    <2>1. \/ UNCHANGED tasks
          \/ \E u \in Task, kind \in TaskKinds \ {"none"} : Submit(u, kind)
      <3>1. CASE \/ ReconcileHardwareVersion \/ ReconcileMetadata
                 \/ ReconcileStoragePolicy \/ ReconcileVMGroupInfo
        <4>1. \E u \in Task, item \in ConfigItems : Submit(u, item)
          BY <3>1 DEF ReconcileHardwareVersion, ReconcileMetadata, ReconcileStoragePolicy,
                      ReconcileVMGroupInfo, ReconcileItem, ConfigItems
        <4> QED BY <4>1, <1>k
      <3>2. CASE ReconcilePowerOn \/ DestroyVM \/ ReconcileClone \/ DestroyPowerOff
        BY <3>2, <1>k DEF ReconcilePowerOn, DestroyVM, ReconcileClone, DestroyPowerOff, Clone
      <3>3. CASE CallFails \/ ReconcileNotFound \/ ReconcileReady \/ DestroyNotFound
        BY <3>3 DEF CallFails, ReconcileNotFound, ReconcileReady, DestroyNotFound, vcVars
      <3> QED BY <1>4, <3>1, <3>2, <3>3 DEF Act
    <2> QED BY <2>1, <1>1, <1>3
  <1>6. CASE Start \/ CheckTask \/ EarlyPatch \/ FinalPatch \/ CacheWait \/ CacheWaitTimeout
    BY <1>6, <1>1 DEF Start, CheckTask, EarlyPatch, FinalPatch, CacheWait, CacheWaitTimeout, vcVars
  <1>7. CASE \/ StartFails \/ Crash \/ Delete \/ CacheSync \/ Resync \/ TimePasses
             \/ GuestReportsIP \/ GuestHalts \/ VMVanishes
    BY <1>7, <1>1 DEF StartFails, Crash, Delete, CacheSync, Resync, TimePasses,
                      GuestReportsIP, GuestHalts, VMVanishes, vcVars
  <1>8. ASSUME NEW u \in Task, WatcherFires(u) \/ WatcherFails(u)
        PROVE  UNCHANGED tasks
    BY <1>8 DEF WatcherFires, WatcherFails, vcVars
  <1>9. CASE UNCHANGED vars
    BY <1>9, <1>1 DEF vars, vcVars
  <1> QED BY <1>1, <1>2, <1>4, <1>6, <1>7, <1>8, <1>9 DEF Next, Reconcile

\* No step takes an object that is being deleted for a live one
LEMMA DeletingStays ==
    ASSUME IInv, IInv', [Next]_vars, Deleting
    PROVE  Deleting'
  <1> USE DEF IInv, SafeInv, Deleting
  <1>1. CASE UNCHANGED <<cache, base>> /\ pc # "idle"
    BY <1>1 DEF InvReconcile, InvPass
  <1>2. CASE UNCHANGED cache /\ pc' = "idle"
    BY <1>2
  <1>3. CASE UNCHANGED <<cache, pc, obj>>
    BY <1>3
  <1>4. CASE Start
    BY <1>4 DEF Start, InvReconcile, InvPass
  <1>5. CASE CheckTask \/ EarlyPatch
    BY <1>5, <1>1 DEF CheckTask, EarlyPatch, apiVars
  <1>6. CASE Act
    BY <1>6, <1>1 DEF Act, CallFails, ReconcileNotFound, ReconcileClone,
         ReconcileHardwareVersion, ReconcileMetadata, ReconcileStoragePolicy,
         ReconcileVMGroupInfo, ReconcilePowerOn, ReconcileReady, DestroyNotFound,
         DestroyPowerOff, DestroyVM, ReconcileItem, Due, Reconciling, Destroying, apiVars
  <1>7. CASE FinalPatch \/ CacheWait \/ CacheWaitTimeout
    BY <1>7, <1>1, <1>2 DEF FinalPatch, CacheWait, CacheWaitTimeout, Return, apiVars
  <1>8. CASE Crash
    BY <1>8, NoStrike DEF Crash
  <1>9. CASE CacheSync
    BY <1>9 DEF CacheSync, recVars, InvObject, InvLife
  <1>10. CASE TimePasses
    BY <1>10, AgedObject DEF TimePasses, TypeOK
  <1>11. CASE StartFails \/ Delete \/ Resync \/ GuestReportsIP \/ GuestHalts \/ VMVanishes
    BY <1>11, <1>3 DEF StartFails, Delete, Resync, GuestReportsIP, GuestHalts, VMVanishes,
                       apiVars, recVars
  <1>12. ASSUME NEW t \in Task, VCenter(t) \/ TaskPurged(t) \/ WatcherFires(t) \/ WatcherFails(t)
         PROVE  UNCHANGED <<cache, pc, obj>>
    BY <1>12 DEF VCenter, TaskSucceeds, TaskFails, TaskPurged, WatcherFires, WatcherFails,
                 apiVars, recVars
  <1>13. CASE UNCHANGED vars
    BY <1>13, <1>3 DEF vars, apiVars, recVars
  <1> QED BY <1>3, <1>4, <1>5, <1>6, <1>7, <1>8, <1>9, <1>10, <1>11, <1>12, <1>13 DEF Next, Reconcile

LEMMA RInvStep == Reliable /\ RInv /\ [Next]_vars => RInv'
  <1> SUFFICES ASSUME Reliable, RInv, [Next]_vars PROVE RInv'
    OBVIOUS
  <1>1. IInv'
    BY SafeStep DEF RInv
  <1>2. ASSUME NEW t \in Task, Running(t)' PROVE tasks'[t].kind # "none"
    BY <1>2, TaskKindsStay DEF RInv
  <1>3. ASSUME DestroyTried' PROVE Deleting'
    <2>1. PICK t \in Task : tasks'[t].kind = "destroy"
      BY <1>3 DEF DestroyTried
    <2>2. CASE tasks[t].kind = "destroy"
      BY <2>2, <1>1, DeletingStays DEF RInv, DestroyTried
    <2>3. CASE Running(t)'
      BY <2>1, <2>3, <1>1 DEF IInv, SafeInv, InvMachine
    <2> QED BY <2>1, <2>2, <2>3, TaskKindsStay DEF RInv
  <1> QED BY <1>1, <1>2, <1>3 DEF RInv

\* The steps of vCenter, the guest and the goroutines
LEMMA RefineTasks ==
    ASSUME Reliable, RInv, RInv', NEW t \in Task,
           VCenter(t) \/ TaskPurged(t) \/ WatcherFires(t) \/ WatcherFails(t)
    PROVE  [Promise!Next]_Mapped
  <1>1. CASE VCenter(t)
    BY <1>1, EndsTask DEF Promise!Next
  <1>2. CASE TaskPurged(t) \/ WatcherFires(t) \/ WatcherFails(t)
    <2>1. UNCHANGED <<api, vm>>
      BY <1>2 DEF TaskPurged, WatcherFires, WatcherFails, apiVars, vcVars
    <2>2. \A u \in Task : tasks'[u].kind = tasks[u].kind /\ (Running(u)' <=> Running(u))
      BY <1>2 DEF TaskPurged, WatcherFires, WatcherFails, vcVars, Running, Completed,
                  RInv, IInv, TypeOK
    <2>3. MachineState' = MachineState /\ TaskInFlight' = TaskInFlight
      BY <2>1, <2>2, SameMachine DEF Exists
    <2> QED BY <2>1, <2>3 DEF Mapped, ObjectState, Owned
  <1> QED BY <1>1, <1>2

\* The API server, the cache, the clock and the guest
LEMMA RefineEnvironment ==
    ASSUME Reliable, RInv, RInv',
           \/ StartFails \/ Crash \/ Delete \/ CacheSync \/ Resync \/ TimePasses
           \/ GuestReportsIP \/ GuestHalts \/ VMVanishes
    PROVE  [Promise!Next]_Mapped
  <1>1. ~Crash /\ ~VMVanishes
    BY NoStrike DEF RInv, Crash, VMVanishes
  <1>2. UNCHANGED tasks /\ Exists' = Exists
    BY <1>1 DEF StartFails, Delete, CacheSync, Resync, TimePasses, GuestReportsIP, GuestHalts,
                vcVars, Exists, RInv, IInv, TypeOK
  <1>3. MachineState' = MachineState /\ TaskInFlight' = TaskInFlight
    BY <1>2, SameMachine DEF Running
  <1>4. CASE Delete
    <2>1. CASE Owned
      <3>1. ObjectState = "held" /\ ObjectState' = "held"
        BY <2>1, <1>4 DEF Delete, ObjectState, Owned, RInv, IInv, TypeOK, VSphereVMType
      <3>2. ~(api.del \/ ~api.exists) /\ (api.del \/ ~api.exists)'
        BY <2>1, <1>4 DEF Delete, Owned, RInv, IInv, TypeOK, VSphereVMType
      <3> QED BY <3>1, <3>2, <1>3 DEF Promise!Delete, Promise!Next
    <2>2. CASE ~Owned
      <3>1. api' = NoObject /\ api.exists /\ ~api.del
        BY <2>2, <1>4 DEF Delete, Owned
      <3>2. ObjectState = "free" /\ ObjectState' = "gone"
        BY <2>2, <3>1 DEF ObjectState, Owned, NoObject, NewObject
      <3>3. (api.del \/ ~api.exists)'
        BY <3>1 DEF NoObject, NewObject
      <3> QED BY <3>1, <3>2, <3>3, <1>3 DEF Promise!Delete, Promise!Next
    <2> QED BY <2>1, <2>2
  <1>5. CASE StartFails \/ CacheSync \/ Resync \/ TimePasses \/ GuestReportsIP \/ GuestHalts
    <2>1. api'.exists = api.exists /\ api'.fin = api.fin /\ api'.del = api.del
      BY <1>5, AgedObject DEF StartFails, CacheSync, Resync, TimePasses, GuestReportsIP,
                              GuestHalts, apiVars, RInv, IInv, TypeOK
    <2> QED BY <2>1, <1>3 DEF Mapped, ObjectState, Owned
  <1> QED BY <1>1, <1>4, <1>5

\* The patches of the reconcile: the object stays or is released
LEMMA RefinePatch ==
    ASSUME Reliable, RInv, RInv', EarlyPatch \/ FinalPatch
    PROVE  [Promise!Next]_Mapped
  <1> USE DEF RInv, IInv
  <1>1. UNCHANGED vcVars /\ (UNCHANGED api \/ (api.exists /\ api' = Patched(api, base, obj)))
    BY DEF EarlyPatch, FinalPatch
  <1>2. MachineState' = MachineState /\ TaskInFlight' = TaskInFlight
    BY <1>1, SameMachine DEF Running, Exists, vcVars
  <1>3. CASE UNCHANGED api
    BY <1>2, <1>3 DEF Mapped, ObjectState, Owned
  <1>4. CASE api.exists /\ api' = Patched(api, base, obj)
    <2>1. Owned /\ base.fin /\ pc \in {"early", "final"}
      BY <1>4 DEF EarlyPatch, FinalPatch, SafeInv, InvReconcile, InvPass
    <2>2. CASE obj.fin
      <3>1. api'.exists /\ api'.fin /\ api'.del = api.del
        BY <1>4, <2>1, <2>2 DEF Patched, Merge, Owned, TypeOK, VSphereVMType
      <3> QED BY <3>1, <2>1, <1>2 DEF Mapped, ObjectState, Owned
    <2>3. CASE ~obj.fin
      <3>1. api.del /\ ~Exists /\ Quiet
        BY <1>4, <2>1, <2>3 DEF SafeInv, InvReconcile, InvPass, EarlyPatch
      <3>2. api' = NoObject
        BY <1>4, <2>1, <2>3, <3>1 DEF Patched, Merge
      <3>3. ObjectState = "held" /\ ObjectState' = "gone"
        BY <2>1, <3>2 DEF ObjectState, Owned, NoObject, NewObject
      <3>4. MachineState # "there" /\ TaskInFlight = "none"
        BY <3>1 DEF MachineState, TaskInFlight
      <3>5. (api.del \/ ~api.exists) /\ (api.del \/ ~api.exists)'
        BY <3>1, <3>2 DEF NoObject, NewObject
      <3> QED BY <3>3, <3>4, <3>5, <1>2 DEF Promise!Release, Promise!Next
    <2> QED BY <2>2, <2>3
  <1> QED BY <1>1, <1>3, <1>4

\* The vCenter calls of the reconcile
LEMMA RefineAct ==
    ASSUME Reliable, RInv, RInv', Act
    PROVE  [Promise!Next]_Mapped
  <1> USE DEF RInv, IInv
  <1>1. pc = "act" /\ UNCHANGED api
    BY DEF Act, CallFails, ReconcileNotFound, ReconcileClone,
         ReconcileHardwareVersion, ReconcileMetadata, ReconcileStoragePolicy,
         ReconcileVMGroupInfo, ReconcilePowerOn, ReconcileReady, DestroyNotFound,
         DestroyPowerOff, DestroyVM, ReconcileItem, Due, Reconciling, Destroying, apiVars
  <1>2. /\ Owned \/ (~api.exists /\ obj.del)
        /\ Exists => Owned
        /\ obj.del => api.del \/ ~api.exists
    BY <1>1 DEF SafeInv, InvReconcile, InvPass, InvObject, InvLife
  <1>3. ASSUME NEW t \in Task, NEW kind \in TaskKinds \ {"none"}, Submit(t, kind),
               UNCHANGED vm, Owned,
               IF kind = "clone" THEN ~Exists /\ ~DestroyTried ELSE Exists,
               kind = "destroy" => api.del
        PROVE  Promise!Next
    BY <1>3, <1>1, StartsTask DEF Promise!Next
  <1>k. ConfigItems \cup {"clone", "powerOn", "powerOff", "destroy"} \subseteq TaskKinds \ {"none"}
    BY DEF TaskKinds, ConfigItems
  <1>4. CASE ReconcileClone
    <2>1. ~obj.del /\ ~Exists /\ UNCHANGED vm
      BY <1>4 DEF ReconcileClone, Reconciling, FoundVM
    <2>2. ~DestroyTried
      BY <2>1, <1>1 DEF Deleting
    <2>3. PICK t \in Task : Submit(t, "clone")
      BY <1>4 DEF ReconcileClone, Clone
    <2> QED BY <2>1, <2>2, <2>3, <1>2, <1>3, <1>k
  <1>5. CASE \/ ReconcileHardwareVersion \/ ReconcileMetadata
             \/ ReconcileStoragePolicy \/ ReconcileVMGroupInfo
    <2>1. /\ Exists /\ UNCHANGED vm
          /\ \E t \in Task, item \in ConfigItems : Submit(t, item)
      BY <1>5 DEF ReconcileHardwareVersion, ReconcileMetadata, ReconcileStoragePolicy,
                  ReconcileVMGroupInfo, ReconcileItem, Due, FoundVM, ConfigItems
    <2>2. PICK t \in Task, item \in ConfigItems : Submit(t, item)
      BY <2>1
    <2>3. item \notin {"clone", "destroy"}
      BY DEF ConfigItems
    <2> QED BY <2>1, <2>2, <2>3, <1>2, <1>3, <1>k
  <1>6. CASE ReconcilePowerOn \/ (DestroyPowerOff /\ tasks' # tasks)
    <2>1. /\ Exists /\ UNCHANGED vm
          /\ \E t \in Task, kind \in {"powerOn", "powerOff"} : Submit(t, kind)
      BY <1>6 DEF ReconcilePowerOn, DestroyPowerOff, FoundVM
    <2> QED BY <2>1, <1>2, <1>3, <1>k
  <1>7. CASE DestroyVM
    <2>1. PICK t \in Task : Submit(t, "destroy")
      BY <1>7 DEF DestroyVM
    <2>2. obj.del /\ Exists /\ UNCHANGED vm
      BY <1>7 DEF DestroyVM, Destroying, FoundVM
    <2>3. Owned /\ api.del
      BY <2>2, <1>2 DEF Owned
    <2> QED BY <2>1, <2>2, <2>3, <1>3, <1>k
  <1>8. CASE \/ CallFails \/ ReconcileNotFound \/ ReconcileReady \/ DestroyNotFound
             \/ (DestroyPowerOff /\ tasks' = tasks)
    <2>1. UNCHANGED tasks
      BY <1>8 DEF CallFails, ReconcileNotFound, ReconcileReady, DestroyNotFound, vcVars
    <2>2. Exists' = Exists
      <3>1. CASE UNCHANGED vm
        BY <3>1 DEF Exists
      <3>2. CASE DestroyPowerOff
        BY <3>2 DEF DestroyPowerOff, Exists, TypeOK
      <3> QED BY <3>1, <3>2, <1>8 DEF CallFails, ReconcileNotFound, ReconcileReady,
                                     DestroyNotFound, vcVars
    <2>3. MachineState' = MachineState /\ TaskInFlight' = TaskInFlight
      BY <2>1, <2>2, SameMachine DEF Running
    <2> QED BY <2>3, <1>1 DEF Mapped, ObjectState, Owned
  <1> QED BY <1>4, <1>5, <1>6, <1>7, <1>8 DEF Act

\* The start of a reconcile, which may put the finalizer in place, and the steps
\* in which it only looks
LEMMA RefineCheck ==
    ASSUME Reliable, RInv, RInv', Start \/ CheckTask \/ CacheWait \/ CacheWaitTimeout
    PROVE  [Promise!Next]_Mapped
  <1> USE DEF RInv, IInv
  <1>1. UNCHANGED vcVars
    BY DEF Start, CheckTask, CacheWait, CacheWaitTimeout
  <1>2. MachineState' = MachineState /\ TaskInFlight' = TaskInFlight
    BY <1>1, SameMachine DEF Running, Exists, vcVars
  <1>3. CASE UNCHANGED api
    BY <1>2, <1>3 DEF Mapped, ObjectState, Owned
  <1>4. CASE Start /\ api' # api
    <2>1. api.exists /\ api' = [api EXCEPT !.fin = TRUE] /\ ~api.fin
      BY <1>4 DEF Start, TypeOK, VSphereVMType
    <2>2. api'.exists /\ api'.fin /\ api'.del = api.del
      BY <2>1 DEF TypeOK, VSphereVMType
    <2>3. ObjectState = "free" /\ ObjectState' = "held"
      BY <2>1, <2>2 DEF ObjectState, Owned
    <2>4. (api.del \/ ~api.exists)' = (api.del \/ ~api.exists)
      BY <2>1, <2>2
    <2> QED BY <2>3, <2>4, <1>2 DEF Promise!Hold, Promise!Next
  <1> QED BY <1>3, <1>4 DEF CheckTask, CacheWait, CacheWaitTimeout, apiVars

\* In a reliable environment every behaviour of the controller is one of a managed
\* machine: held before it is cloned, cloned once, one task at a time, destroyed
\* only on request and gone before its object.
THEOREM KeepsItsPromise == Reliable => (Spec => KeepsPromise)
  <1> SUFFICES ASSUME Reliable PROVE Spec => KeepsPromise
    OBVIOUS
  <1>1. Init => RInv
    <2> SUFFICES ASSUME Init PROVE RInv
      OBVIOUS
    <2>1. IInv
      BY SafeInit, TypeInit DEF IInv, TypeInv
    <2>2. \A t \in Task : tasks[t].kind = "none" /\ ~Running(t)
      BY DEF Init, NoTask, Running
    <2> QED BY <2>1, <2>2 DEF RInv, DestroyTried
  <1>2. Init => Promise!Init
    <2> SUFFICES ASSUME Init PROVE Promise!Init
      OBVIOUS
    <2>1. \A t \in Task : tasks[t].kind = "none" /\ ~Running(t)
      BY DEF Init, NoTask, Running
    <2>2. MachineState = "none" /\ TaskInFlight = "none"
      BY <2>1 DEF Init, MachineState, TaskInFlight, Quiet, Exists, NoVM
    <2>3. ObjectState = "free" /\ ~api.del /\ api.exists
      BY DEF Init, ObjectState, Owned, NewObject
    <2> QED BY <2>2, <2>3 DEF Promise!Init
  <1>3. RInv /\ [Next]_vars => RInv'
    BY RInvStep
  <1>4. RInv /\ RInv' /\ [Next]_vars => [Promise!Next]_(Promise!vars)
    <2> SUFFICES ASSUME RInv, RInv', [Next]_vars PROVE [Promise!Next]_Mapped
      BY DEF Promise!vars, Mapped
    <2>1. CASE UNCHANGED vars
      <3>1. UNCHANGED <<api, vm, tasks>>
        BY <2>1 DEF vars, apiVars, vcVars
      <3>2. MachineState' = MachineState /\ TaskInFlight' = TaskInFlight
        BY <3>1, SameMachine DEF Running, Exists
      <3> QED BY <3>1, <3>2 DEF Mapped, ObjectState, Owned
    <2>2. CASE Next
      BY <2>2, RefineTasks, RefineEnvironment, RefinePatch, RefineAct, RefineCheck
         DEF Next, Reconcile
    <2> QED BY <2>1, <2>2
  <1> QED BY <1>1, <1>2, <1>3, <1>4, PTL DEF Spec, KeepsPromise, Promise!Spec
=============================================================================
