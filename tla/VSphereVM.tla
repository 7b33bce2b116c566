----------------------------- MODULE VSphereVM -----------------------------
(***************************************************************************)
(* One VSphereVM object, the controller that reconciles it                 *)
(* (controllers/vspherevm_controller.go), the govmomi VM service it calls  *)
(* (pkg/services/govmomi), the API server with the informer cache in front *)
(* of it, and the vCenter that executes asynchronous tasks.                *)
(*                                                                         *)
(* A reconcile is cut at the points where it talks to another party:       *)
(*                                                                         *)
(*   idle --Start--> inflight --CheckTask--> act --(submit a task)-->      *)
(*        early --EarlyPatch--> final --FinalPatch--> wait --CacheWait-->  *)
(*        idle                                                             *)
(*                                                                         *)
(* Simplifications.  A task, a virtual machine and its BIOS UUID are       *)
(* numbers: the UUID of a machine is the number of the task that cloned    *)
(* it, 0 is the empty value.  Clock time is kept only where a guard reads  *)
(* it: RetryAfter and the age of the soft power off condition are either   *)
(* before or after their deadline, and every copy of the object passes a   *)
(* deadline at the same moment.  The informer cache moves to the current   *)
(* object; it may stay behind for as long as it likes.  Owner lookups, the *)
(* pause check, cluster module membership, tags and host information do    *)
(* not change any state kept here and are left out.                        *)
(***************************************************************************)
EXTENDS Naturals, PowerOps

CONSTANTS
    MaxTasks,       \* vCenter tasks the controller may start
    Drift,          \* what a fresh clone lacks: a subset of ConfigItems
    PowerOffMode,   \* Spec.PowerOffMode
    Scenarios       \* how often each fault may strike: a set of fault budgets

ConfigItems == {"hardware", "metadata", "policy", "group"}

FaultKinds ==
    { "taskError",  \* a task fails although its precondition holds
      "rpc",        \* a vCenter call of the reconcile returns an error
      "lookup",     \* RetrieveOne of a task fails although the task exists
      "purge",      \* vCenter forgets a completed task
      "patch",      \* a patch is refused by the API server
      "lag",        \* the cache stays stale for the five seconds of the wait
      "crash",      \* the manager process restarts
      "vanish" }    \* the virtual machine is removed behind CAPV's back

ASSUME ConstantsAssumption ==
    /\ MaxTasks \in Nat
    /\ Drift \subseteq ConfigItems
    /\ PowerOffMode \in PowerOpModes
    /\ Scenarios \subseteq [FaultKinds -> Nat]

VARIABLES
    api,        \* the VSphereVM in the API server
    cache,      \* the VSphereVM in the informer cache
    queued,     \* the object's key is in the controller's work queue
    pc,         \* where the reconcile is
    obj,        \* the copy of the object the reconcile works on
    base,       \* that copy as it was read: what patches are computed from
    requeue,    \* the reconcile returns an error or asks to be requeued
    overlap,    \* the storage policy was reconfigured in this pass
    vm,         \* the virtual machine in vCenter
    tasks,      \* the vCenter tasks
    watchers,   \* tasks some goroutine waits for
    faults      \* the faults that may still strike

apiVars == <<api, cache>>
recVars == <<pc, obj, base, requeue, overlap>>
vcVars  == <<vm, tasks>>
vars    == <<apiVars, queued, recVars, vcVars, watchers, faults>>

Task   == 1 .. MaxTasks
TaskId == 0 .. MaxTasks

TaskKinds  == ConfigItems \cup {"none", "clone", "powerOn", "powerOff", "destroy"}
\* "already" is the InvalidPowerState fault of a machine that is in the
\* requested power state
TaskStates == {"none", "running", "success", "error", "already", "purged"}

VSphereVMType ==
    [ exists : BOOLEAN,
      fin    : BOOLEAN,                            \* VMFinalizer
      del    : BOOLEAN,                            \* DeletionTimestamp
      bios   : TaskId,                             \* Spec.BiosUUID
      task   : TaskId,                             \* Status.TaskRef
      retry  : {"zero", "waiting", "expired"},     \* Status.RetryAfter
      soft   : SoftPowerOffConditions,             \* GuestSoftPowerOffSucceeded
      ready  : BOOLEAN ]                           \* Status.Ready

\* A VSphereVM as createOrPatchVSphereVM creates it
NewObject ==
    [ exists |-> TRUE, fin |-> FALSE, del |-> FALSE, bios |-> 0, task |-> 0,
      retry |-> "zero", soft |-> "none", ready |-> FALSE ]

NoObject == [NewObject EXCEPT !.exists = FALSE]

NoVM == [power |-> "absent", id |-> 0, todo |-> {}, ip |-> FALSE, halting |-> FALSE]

NoTask == [kind |-> "none", st |-> "none"]

TypeOK ==
    /\ api \in VSphereVMType /\ cache \in VSphereVMType
    /\ obj \in VSphereVMType /\ base \in VSphereVMType
    /\ queued \in BOOLEAN /\ requeue \in BOOLEAN /\ overlap \in BOOLEAN
    /\ pc \in {"idle", "inflight", "act", "early", "final", "wait"}
    /\ vm \in [ power : {"absent", "off", "on"}, id : TaskId,
                todo : SUBSET ConfigItems, ip : BOOLEAN, halting : BOOLEAN ]
    /\ tasks \in [Task -> [kind : TaskKinds, st : TaskStates]]
    /\ watchers \subseteq Task
    /\ faults \in [FaultKinds -> Nat]

Init ==
    /\ api = NewObject /\ cache = NewObject
    /\ queued = TRUE
    /\ pc = "idle" /\ obj = NoObject /\ base = NoObject
    /\ requeue = FALSE /\ overlap = FALSE
    /\ vm = NoVM
    /\ tasks = [t \in Task |-> NoTask]
    /\ watchers = {}
    /\ faults \in Scenarios

Strike(f) ==
    /\ faults[f] > 0
    /\ faults' = [faults EXCEPT ![f] = @ - 1]

Running(t)   == tasks[t].st = "running"
Completed(t) == tasks[t].st \in {"success", "error", "already"}

-----------------------------------------------------------------------------
(* Kubernetes: the API server, the informer cache, the work queue.         *)

\* The patch helper sends the fields that differ from what was read; an
\* object that is being deleted disappears with its last finalizer.
Merge(server, before, after) == IF after # before THEN after ELSE server

Patched(server, before, after) ==
    LET fin == Merge(server.fin, before.fin, after.fin)
    IN  IF server.del /\ ~fin
        THEN NoObject
        ELSE [ exists |-> server.exists,
               fin    |-> fin,
               del    |-> server.del,
               bios   |-> Merge(server.bios, before.bios, after.bios),
               task   |-> Merge(server.task, before.task, after.task),
               retry  |-> Merge(server.retry, before.retry, after.retry),
               soft   |-> Merge(server.soft, before.soft, after.soft),
               ready  |-> Merge(server.ready, before.ready, after.ready) ]

\* A client deletes the VSphereVM
Delete ==
    /\ api.exists /\ ~api.del
    /\ api' = IF api.fin THEN [api EXCEPT !.del = TRUE] ELSE NoObject
    /\ UNCHANGED <<cache, queued, recVars, vcVars, watchers, faults>>

\* A watch event reaches the informer, which updates the cache and enqueues
CacheSync ==
    /\ cache # api
    /\ cache' = api
    /\ queued' = TRUE
    /\ UNCHANGED <<api, recVars, vcVars, watchers, faults>>

\* The informer's periodic resync (--sync-period)
Resync ==
    /\ cache.exists /\ ~queued
    /\ queued' = TRUE
    /\ UNCHANGED <<apiVars, recVars, vcVars, watchers, faults>>

\* Deadlines pass, for every copy of the object
Aged(o) ==
    [o EXCEPT !.retry = IF @ = "waiting" THEN "expired" ELSE @,
              !.soft  = IF @ = "inProgress" THEN "overdue" ELSE @]

TimePasses ==
    /\ <<Aged(api), Aged(cache), Aged(obj)>> # <<api, cache, obj>>
    /\ api' = Aged(api) /\ cache' = Aged(cache)
    /\ obj' = Aged(obj) /\ base' = Aged(base)
    /\ UNCHANGED <<queued, pc, requeue, overlap, vcVars, watchers, faults>>

-----------------------------------------------------------------------------
(* vCenter (external): tasks run asynchronously and take effect when they  *)
(* succeed.                                                                *)

Exists == vm.power # "absent"

\* What a task needs to succeed.  A clone onto an existing name is refused.
Feasible(kind) ==
    CASE kind = "clone"                 -> ~Exists
      [] kind \in ConfigItems           -> Exists
      [] kind \in {"powerOn", "destroy"} -> vm.power = "off"
      [] kind = "powerOff"              -> vm.power = "on"
      [] OTHER                          -> FALSE

Effect(t) ==
    LET kind == tasks[t].kind IN
    CASE kind = "clone"       -> [NoVM EXCEPT !.power = "off", !.id = t, !.todo = Drift]
      [] kind \in ConfigItems -> [vm EXCEPT !.todo = @ \ {kind}]
      [] kind = "powerOn"     -> [vm EXCEPT !.power = "on"]
      [] kind = "powerOff"    -> [vm EXCEPT !.power = "off", !.ip = FALSE, !.halting = FALSE]
      [] OTHER                -> NoVM

\* InvalidPowerState whose existing and requested states are the same
AlreadyThere(kind) == \/ kind = "powerOn"  /\ vm.power = "on"
                      \/ kind = "powerOff" /\ vm.power = "off"

TaskSucceeds(t) ==
    /\ Running(t) /\ Feasible(tasks[t].kind)
    /\ vm' = Effect(t)
    /\ tasks' = [tasks EXCEPT ![t].st = "success"]
    /\ UNCHANGED <<apiVars, queued, recVars, watchers, faults>>

TaskFails(t) ==
    /\ Running(t)
    /\ IF Feasible(tasks[t].kind) THEN Strike("taskError") ELSE UNCHANGED faults
    /\ tasks' = [tasks EXCEPT ![t].st =
                    IF AlreadyThere(tasks[t].kind) THEN "already" ELSE "error"]
    /\ UNCHANGED <<apiVars, queued, recVars, vm, watchers>>

TaskPurged(t) ==
    /\ Completed(t) /\ Strike("purge")
    /\ tasks' = [tasks EXCEPT ![t].st = "purged"]
    /\ UNCHANGED <<apiVars, queued, recVars, vm, watchers>>

GuestReportsIP ==
    /\ vm.power = "on" /\ ~vm.ip
    /\ vm' = [vm EXCEPT !.ip = TRUE]
    /\ UNCHANGED <<apiVars, queued, recVars, tasks, watchers, faults>>

GuestHalts ==
    /\ vm.power = "on" /\ vm.halting
    /\ vm' = [vm EXCEPT !.power = "off", !.ip = FALSE, !.halting = FALSE]
    /\ UNCHANGED <<apiVars, queued, recVars, tasks, watchers, faults>>

VMVanishes ==
    /\ Exists /\ Strike("vanish")
    /\ vm' = NoVM
    /\ UNCHANGED <<apiVars, queued, recVars, tasks, watchers>>

\* reconcileVSphereVMOnTaskCompletion: the goroutine sends a GenericEvent for
\* a task that succeeded and nothing for one that failed or is unknown.
WatcherFires(t) ==
    /\ t \in watchers /\ ~Running(t)
    /\ watchers' = watchers \ {t}
    /\ queued' = (queued \/ tasks[t].st = "success")
    /\ UNCHANGED <<apiVars, recVars, vcVars, faults>>

\* getTask finds no task to wait for, or waiting for it fails
WatcherFails(t) ==
    /\ t \in watchers /\ Strike("lookup")
    /\ watchers' = watchers \ {t}
    /\ UNCHANGED <<apiVars, queued, recVars, vcVars>>

-----------------------------------------------------------------------------
(* The reconcile.                                                          *)

\* A reconcile ends; "again" puts the key back into the work queue.
Return(again) ==
    /\ pc' = "idle"
    /\ obj' = NoObject /\ base' = NoObject
    /\ requeue' = FALSE /\ overlap' = FALSE
    /\ queued' = (queued \/ again)

\* Faulty variant of Start: the finalizer is left to the deferred patch
StartWithoutFinalizer ==
    /\ pc = "idle" /\ queued
    /\ queued' = FALSE
    /\ IF cache.exists
       THEN pc' = "inflight" /\ obj' = [cache EXCEPT !.fin = TRUE] /\ base' = cache
       ELSE UNCHANGED <<pc, obj, base>>
    /\ UNCHANGED <<apiVars, requeue, overlap, vcVars, watchers, faults>>

\* vmReconciler.Reconcile up to the call of reconcile: the finalizer is
\* persisted first, in a reconcile of its own.
Start ==
    /\ pc = "idle" /\ queued
    /\ queued' = FALSE
    /\ IF cache.exists /\ (cache.fin \/ cache.del)
       THEN pc' = "inflight" /\ obj' = cache /\ base' = cache
       ELSE UNCHANGED <<pc, obj, base>>
    /\ api' = IF cache.exists /\ ~cache.fin /\ ~cache.del /\ api.exists
              THEN [api EXCEPT !.fin = TRUE] ELSE api
    /\ UNCHANGED <<cache, requeue, overlap, vcVars, watchers, faults>>

\* retrieveVcenterSession fails, or the finalizer patch does: the error puts
\* the key back
StartFails ==
    /\ pc = "idle" /\ queued /\ cache.exists /\ Strike("rpc")
    /\ UNCHANGED <<apiVars, queued, recVars, vcVars, watchers>>

\* Faulty variants of CheckAndRetryTask: a failed task is dropped at once; it is
\* never dropped
CheckAndRetryTaskAtOnce(o, found, st) ==
    [ verdict |-> IF st = "running" THEN "inFlight" ELSE "go",
      task    |-> IF st = "running" THEN o.task ELSE 0,
      retry   |-> o.retry ]

CheckAndRetryTaskNeverRetries(o, found, st) ==
    [ verdict |-> IF found /\ st \in {"running", "error"} THEN "inFlight" ELSE "go",
      task    |-> IF found /\ st \in {"running", "error"} THEN o.task ELSE 0,
      retry   |-> o.retry ]

\* checkAndRetryTask on the object o whose task, if found, is in state st
CheckAndRetryTask(o, found, st) ==
    CASE ~found ->
           [verdict |-> "go", task |-> 0, retry |-> o.retry]
      [] found /\ o.retry = "waiting" ->
           [verdict |-> "error", task |-> o.task, retry |-> o.retry]
      [] found /\ o.retry # "waiting" /\ st = "running" ->
           [verdict |-> "inFlight", task |-> o.task, retry |-> o.retry]
      [] found /\ o.retry # "waiting" /\ st \in {"success", "already"} ->
           [verdict |-> "go", task |-> 0, retry |-> o.retry]
      [] found /\ o.retry = "zero" /\ st = "error" ->
           [verdict |-> "inFlight", task |-> o.task, retry |-> "waiting"]
      [] found /\ o.retry = "expired" /\ st = "error" ->
           [verdict |-> "inFlight", task |-> 0, retry |-> "zero"]

\* getTask answers nil for a task it cannot retrieve, whatever the reason
TaskFound(found) ==
    LET known == obj.task # 0 /\ tasks[obj.task].st # "purged"
    IN  \/ found = known /\ UNCHANGED faults
        \/ known /\ ~found /\ Strike("lookup")

\* reconcileInFlightTask, at the head of both ReconcileVM and DestroyVM
CheckTask ==
    /\ pc = "inflight"
    /\ \E found \in BOOLEAN :
         /\ TaskFound(found)
         /\ LET r == CheckAndRetryTask(obj, found, IF found THEN tasks[obj.task].st ELSE "none")
            IN  /\ obj' = [obj EXCEPT !.task = r.task, !.retry = r.retry]
                /\ pc' = IF r.verdict = "go" THEN "act" ELSE "final"
                /\ requeue' = \/ r.verdict = "error"
                              \/ r.verdict = "inFlight" /\ ~obj.del /\ r.retry = "waiting"
    /\ UNCHANGED <<apiVars, queued, base, overlap, vcVars, watchers>>

\* findVM: by BIOS UUID once it is known, else by instance UUID or path
FoundVM == Exists /\ obj.bios \in {0, vm.id}

\* The reconcile starts a vCenter task and records it in Status.TaskRef
Submit(t, kind) ==
    /\ tasks[t].st = "none"
    /\ \A u \in Task : u < t => tasks[u].st # "none"
    /\ tasks' = [tasks EXCEPT ![t] = [kind |-> kind, st |-> "running"]]

\* Clone builds the clone specification and starts the task
Clone(t) == Submit(t, "clone")

\* ReconcileVM or DestroyVM returns with the object o: the deferred
\* reconcileVSphereVMOnTaskCompletion starts a goroutine for its task.
Leave(next, o) ==
    /\ pc' = next
    /\ obj' = o
    /\ watchers' = watchers \cup ({o.task} \ {0})

\* GuestSoftPowerOffSucceeded becomes True when the machine that was asked to
\* shut down is found powered off
PoweredOff(o) == [o EXCEPT !.soft = IF @ = "none" THEN @ ELSE "succeeded"]

\* A vCenter call fails; the pass ends with an error
CallFails ==
    /\ pc = "act"
    /\ \/ Strike("rpc")
       \/ overlap /\ ~FoundVM /\ UNCHANGED faults
    /\ \/ Leave("final", obj)
       \/ obj.del /\ vm.power = "off" /\ Leave("final", PoweredOff(obj))
    /\ requeue' = TRUE
    /\ UNCHANGED <<apiVars, queued, base, overlap, vcVars>>

Reconciling == pc = "act" /\ ~obj.del

\* reconcileNormal asks to be called again at RetryAfter while it lies ahead
RetryPending == obj.retry = "waiting"

\* A machine that was known by its BIOS UUID is gone: no new clone
ReconcileNotFound ==
    /\ Reconciling /\ ~overlap /\ ~FoundVM /\ obj.bios # 0
    /\ Leave("final", obj)
    /\ requeue' = TRUE
    /\ UNCHANGED <<apiVars, queued, base, overlap, vcVars, faults>>

ReconcileClone ==
    /\ Reconciling /\ ~overlap /\ ~FoundVM /\ obj.bios = 0
    /\ \E t \in Task :
         /\ Clone(t)
         /\ Leave("early", [obj EXCEPT !.task = t])
    /\ requeue' = RetryPending
    /\ UNCHANGED <<apiVars, queued, base, overlap, vm, faults>>

\* What ReconcileVM still has to change on the machine.  The policy of a
\* machine that is powered on is left alone, and a change of policy it has
\* just started does not hold it up.
Pending == IF overlap \/ vm.power = "on" THEN vm.todo \ {"policy"} ELSE vm.todo

\* The order in which ReconcileVM looks at them
Precedes == [ hardware |-> {}, metadata |-> {"hardware"},
              policy |-> {"hardware", "metadata"},
              group |-> {"hardware", "metadata", "policy"} ]

\* An item that is due is changed by a task, and the pass ends with it
Due(item) ==
    /\ Reconciling /\ FoundVM
    /\ item \in Pending /\ Precedes[item] \cap Pending = {}

ReconcileItem(item) ==
    /\ Due(item)
    /\ \E t \in Task :
         /\ Submit(t, item)
         /\ Leave("final", [obj EXCEPT !.task = t])
    /\ requeue' = RetryPending
    /\ UNCHANGED <<apiVars, queued, base, overlap, vm, faults>>

ReconcileHardwareVersion == ReconcileItem("hardware")
ReconcileMetadata        == ReconcileItem("metadata")
ReconcileVMGroupInfo     == ReconcileItem("group")

\* ReconcileVM does not wait for the task that changes the storage policy
ReconcileStoragePolicy ==
    /\ Due("policy")
    /\ \E t \in Task :
         /\ Submit(t, "policy")
         /\ obj' = [obj EXCEPT !.task = t]
    /\ overlap' = TRUE
    /\ UNCHANGED <<apiVars, queued, base, pc, requeue, watchers, vm, faults>>

ReconcilePowerOn ==
    /\ Reconciling /\ FoundVM /\ Pending = {} /\ vm.power = "off"
    /\ \E t \in Task :
         /\ Submit(t, "powerOn")
         /\ Leave("early", [obj EXCEPT !.task = t])
    /\ requeue' = RetryPending
    /\ UNCHANGED <<apiVars, queued, base, overlap, vm, faults>>

\* The machine is ready: its BIOS UUID is recorded, and the object becomes
\* ready once there are addresses
ReconcileReady ==
    /\ Reconciling /\ FoundVM /\ Pending = {} /\ vm.power = "on"
    /\ Leave("final", [obj EXCEPT !.bios = vm.id, !.ready = @ \/ vm.ip])
    /\ requeue' = ~vm.ip
    /\ UNCHANGED <<apiVars, queued, base, overlap, vcVars, faults>>

Destroying == pc = "act" /\ obj.del

\* Faulty variant of DestroyNotFound: the finalizer stays
DestroyNotFoundKeepsFinalizer ==
    /\ Destroying /\ ~FoundVM
    /\ Leave("final", obj)
    /\ UNCHANGED <<apiVars, queued, base, requeue, overlap, vcVars, faults>>

\* The machine is gone: Node and IPAddressClaims are removed and with them
\* the finalizer
DestroyNotFound ==
    /\ Destroying /\ ~FoundVM
    /\ Leave("final", [obj EXCEPT !.fin = FALSE])
    /\ UNCHANGED <<apiVars, queued, base, requeue, overlap, vcVars, faults>>

DestroyPowerOff ==
    /\ Destroying /\ FoundVM /\ vm.power = "on"
    /\ \E tools \in BOOLEAN :
         LET r == TriggerSoftPowerOff(PowerOffMode, obj.soft, obj.soft = "overdue", tools)
         IN  IF r.pending
             THEN /\ Leave("final", [obj EXCEPT !.soft = r.cond])
                  /\ requeue' = TRUE
                  /\ vm' = [vm EXCEPT !.halting = @ \/ r.shutdown]
                  /\ UNCHANGED tasks
             ELSE \E t \in Task :
                    /\ Submit(t, "powerOff")
                    /\ Leave("early", [obj EXCEPT !.task = t])
                    /\ UNCHANGED <<requeue, vm>>
    /\ UNCHANGED <<apiVars, queued, base, overlap, faults>>

DestroyVM ==
    /\ Destroying /\ FoundVM /\ vm.power = "off"
    /\ \E t \in Task :
         /\ Submit(t, "destroy")
         /\ Leave("final", [PoweredOff(obj) EXCEPT !.task = t])
    /\ UNCHANGED <<apiVars, queued, base, requeue, overlap, vm, faults>>

Act == \/ CallFails
       \/ ReconcileNotFound \/ ReconcileClone
       \/ ReconcileHardwareVersion \/ ReconcileMetadata
       \/ ReconcileStoragePolicy \/ ReconcileVMGroupInfo
       \/ ReconcilePowerOn \/ ReconcileReady
       \/ DestroyNotFound \/ DestroyPowerOff \/ DestroyVM

\* A patch is refused when the object is gone or by a fault
PatchFails == IF api.exists THEN Strike("patch") ELSE UNCHANGED faults

\* The patch right after a clone or a power operation was started.  Its
\* failure is only logged for a clone and ends the pass for the others.
EarlyPatch ==
    /\ pc = "early"
    /\ pc' = "final"
    /\ \/ /\ api.exists /\ api' = Patched(api, base, obj)
          /\ UNCHANGED <<requeue, faults>>
       \/ /\ PatchFails /\ UNCHANGED api
          /\ requeue' = (requeue \/ tasks[obj.task].kind # "clone")
    /\ UNCHANGED <<cache, queued, obj, base, overlap, vcVars, watchers>>

\* Faulty variant of FinalPatch: the reconcile returns without waiting for the
\* cache
FinalPatchWithoutWait ==
    /\ pc = "final"
    /\ \/ api.exists /\ api' = Patched(api, base, obj) /\ Return(requeue) /\ UNCHANGED faults
       \/ PatchFails /\ UNCHANGED api /\ Return(TRUE)
    /\ UNCHANGED <<cache, vcVars, watchers>>

\* The deferred patch.  A change of Status.TaskRef must reach the cache
\* before the reconcile returns.
FinalPatch ==
    /\ pc = "final"
    /\ \E ok \in BOOLEAN :
         /\ IF ok
            THEN api.exists /\ api' = Patched(api, base, obj) /\ UNCHANGED faults
            ELSE PatchFails /\ UNCHANGED api
         /\ IF obj.task # base.task
            THEN /\ pc' = "wait" /\ requeue' = (requeue \/ ~ok)
                 /\ UNCHANGED <<queued, obj, base, overlap>>
            ELSE Return(requeue \/ ~ok)
    /\ UNCHANGED <<cache, vcVars, watchers>>

\* PollUntilContextTimeout on the cached object: its TaskRef moved on
CacheWait ==
    /\ pc = "wait"
    /\ cache.exists => cache.task # base.task
    /\ Return(requeue \/ ~cache.exists)
    /\ UNCHANGED <<apiVars, vcVars, watchers, faults>>

\* The wait times out: the patch did not get through, or the cache is late
CacheWaitTimeout ==
    /\ pc = "wait" /\ cache.exists /\ cache.task = base.task
    /\ IF cache = api THEN UNCHANGED faults ELSE Strike("lag")
    /\ Return(TRUE)
    /\ UNCHANGED <<apiVars, vcVars, watchers>>

\* The manager restarts: memory is lost, the informer lists afresh and
\* enqueues what it finds
Crash ==
    /\ Strike("crash")
    /\ pc' = "idle" /\ obj' = NoObject /\ base' = NoObject
    /\ requeue' = FALSE /\ overlap' = FALSE
    /\ watchers' = {}
    /\ cache' = api
    /\ queued' = api.exists
    /\ UNCHANGED <<api, vcVars>>

Reconcile == Start \/ CheckTask \/ Act \/ EarlyPatch \/ FinalPatch \/ CacheWait \/ CacheWaitTimeout

VCenter(t) == TaskSucceeds(t) \/ TaskFails(t)

Next ==
    \/ Reconcile \/ StartFails \/ Crash
    \/ Delete \/ CacheSync \/ Resync \/ TimePasses
    \/ \E t \in Task : VCenter(t) \/ TaskPurged(t) \/ WatcherFires(t) \/ WatcherFails(t)
    \/ GuestReportsIP \/ GuestHalts \/ VMVanishes

Spec == Init /\ [][Next]_vars

\* The worker, the watch, the resync and the clock never stop; vCenter ends
\* every task and a running guest gets an address.  A guest that is asked to
\* shut down does so in soft mode, where CAPV has no other way to stop it.
Fairness ==
    /\ WF_vars(Reconcile)
    /\ WF_vars(CacheSync) /\ WF_vars(Resync) /\ WF_vars(TimePasses)
    /\ \A t \in Task : WF_vars(VCenter(t)) /\ WF_vars(WatcherFires(t))
    /\ WF_vars(GuestReportsIP)
    /\ PowerOffMode = "soft" => WF_vars(GuestHalts)

FairSpec == Spec /\ Fairness

-----------------------------------------------------------------------------
(* Properties.                                                             *)

\* service.go:72: while a task of this VM is in flight nothing else is started
OneTaskAtATime == \A t, u \in Task : Running(t) /\ Running(u) => t = u

\* A machine, or a clone that will become one, never outlives the object that
\* would delete it: the finalizer is there before the first clone and goes
\* only after the last trace of the machine is gone.
NoOrphan ==
    Exists \/ (\E t \in Task : Running(t) /\ tasks[t].kind = "clone")
        => api.exists /\ api.fin

\* clone.go:414: the early patch avoids concurrent clones
NoConcurrentClones ==
    \A t, u \in {v \in Task : Running(v) /\ tasks[v].kind = "clone"} : t = u

\* util.go:189: the reference to a failed task is dropped only by a pass that
\* read it together with a RetryAfter whose deadline has passed
FailedTaskBacksOff ==
    [][ api.task # 0 /\ tasks[api.task].st = "error" /\ api'.exists /\ api'.task # api.task
          => api.retry # "zero" /\ base.task = api.task /\ base.retry = "expired" ]_vars

\* service.go:91: a machine whose BIOS UUID was recorded is not cloned anew when it
\* disappears, although the guard reads a copy: the pass that records the UUID
\* drops the power on task and waits for the cache.  Not so when a call fails
\* between the two, or a restart loses the reference to a repeated power on: the
\* UUID is then recorded by a later pass, which does not wait.
NoSecondClone ==
    [][ \A t \in Task : ~Running(t) /\ Running(t)' /\ tasks'[t].kind = "clone"
          => api.bios = 0 ]_vars

\* vspherevm_controller.go:377: a deletion request is carried out in the end,
\* although no event announces a failed task and a restart forgets the watchers
DeletionCompletes == api.del ~> ~api.exists

\* vspherevm_controller.go:463: an object that is not deleted becomes ready, by way
\* of the task events, the requeues after a failure and the resync
BecomesReady == <>(api.ready \/ api.del \/ ~api.exists)
=============================================================================
