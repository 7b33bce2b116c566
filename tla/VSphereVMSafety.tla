--------------------------- MODULE VSphereVMSafety ---------------------------
(***************************************************************************)
(* Why a VSphereVM has at most one vCenter task in flight and never leaves *)
(* a machine behind: the inductive invariant, and the environment under    *)
(* which it holds.                                                         *)
(***************************************************************************)
EXTENDS VSphereVM

\* The environment: patches are accepted, the cache catches up within the five
\* seconds the reconcile waits for it, the manager keeps running, vCenter
\* answers getTask and nobody removes the machine.  Storage policies are not
\* used.  Tasks may fail and be forgotten, and calls may fail, at any time.
Reliable ==
    /\ \A s \in Scenarios :
         \A f \in {"lookup", "patch", "lag", "crash", "vanish"} : s[f] = 0
    /\ "policy" \notin Drift

Owned == api.exists /\ api.fin

Quiet == \A t \in Task : ~Running(t)

\* No task but r is running
Only(r) == \A t \in Task : Running(t) => t = r

\* The object is being deleted and every copy the controller may still act on
\* says so
Deleting == /\ ~cache.exists \/ cache.del
            /\ pc # "idle" => obj.del

NoBios == api.bios = 0 /\ cache.bios = 0 /\ obj.bios = 0 /\ base.bios = 0

\* A task reference names a task that was started
InvRefs ==
    \A o \in {api, cache, obj, base} : o.task # 0 => tasks[o.task].st # "none"

\* The faults Reliable excludes have not struck
InvEnvironment ==
    /\ \A f \in {"lookup", "patch", "lag", "crash", "vanish"} : faults[f] = 0
    /\ ~overlap /\ "policy" \notin vm.todo
    /\ \A t \in Task : tasks[t].kind # "policy"

\* The life of the object in the API server and in the cache
InvLife ==
    /\ ~api.exists => api = NoObject
    /\ ~cache.exists => cache = NoObject /\ ~api.exists
    /\ api.exists /\ ~api.fin => api = NewObject
    /\ cache.exists /\ ~cache.fin => cache = NewObject
    /\ cache.del => api.del \/ ~api.exists
    /\ cache.fin => Owned \/ (~api.exists /\ cache.del)

\* What a reconcile knows of the object it works on
InvPass ==
    /\ pc = "idle" => obj = NoObject /\ base = NoObject
    /\ pc # "idle" =>
         /\ base.fin /\ obj.del = base.del
         /\ Owned \/ (~api.exists /\ obj.del)
         /\ obj.del => /\ api.del \/ ~api.exists
                       /\ ~cache.exists \/ cache.del
         /\ ~obj.fin => pc \in {"final", "wait"} /\ obj.del

\* There is a machine or a running task only while the finalizer is in place
InvObject ==
    /\ InvLife
    /\ ~Owned => ~Exists /\ Quiet

\* and until a reconcile is about to remove it
InvReconcile ==
    /\ InvPass
    /\ pc = "final" /\ ~obj.fin => ~Exists /\ Quiet

\* Whatever vCenter is running is the task the object, or the reconcile that
\* is about to patch it, refers to
InvTask ==
    /\ pc = "act" => obj.task = 0
    /\ Owned =>
         /\ pc = "idle" => cache.task = api.task /\ Only(api.task)
         /\ pc = "inflight" => /\ cache.task = api.task /\ Only(api.task)
                               /\ obj.task = api.task /\ base.task = api.task
         /\ pc = "act" => /\ cache.task = api.task /\ base.task = api.task
                          /\ Quiet
         /\ pc = "early" => /\ cache.task = api.task /\ base.task = api.task
                            /\ obj.task # base.task /\ Only(obj.task)
         /\ pc = "final" => /\ api.task \in {base.task, obj.task}
                            /\ cache.task \in {base.task, api.task}
                            /\ Only(obj.task)
         /\ pc = "wait" => /\ api.task = obj.task /\ obj.task # base.task
                           /\ cache.task \in {base.task, api.task}
                           /\ Only(obj.task)

\* The BIOS UUIDs on record are those of the machine that exists
InvMachine ==
    /\ Exists => \A o \in {api, cache, obj, base} : o.bios \in {0, vm.id}
    /\ ~Exists => NoBios \/ Deleting
    /\ \A t \in Task : Running(t) /\ tasks[t].kind = "clone" => ~Exists /\ NoBios
    /\ \A t \in Task : Running(t) /\ tasks[t].kind = "destroy" => Deleting

\* The inductive invariant of the controller in a reliable environment: the
\* reconcile, the cache and the API server agree on the one task in flight
SafeInv ==
    /\ InvRefs /\ InvEnvironment /\ InvObject /\ InvReconcile /\ InvTask /\ InvMachine

-----------------------------------------------------------------------------
(* Clones are kept apart, and the machine is not orphaned, in environments *)
(* that are not reliable: a patch may be refused, storage policies may be  *)
(* changed while other tasks run, and the machine may disappear.           *)

\* getTask answers, the cache catches up in time, the manager keeps running and
\* at most one patch is refused
Watched ==
    \A s \in Scenarios : s["patch"] <= 1 /\ \A f \in {"lookup", "lag", "crash"} : s[f] = 0

\* Nobody removes the machine behind CAPV's back
Untouched == \A s \in Scenarios : s["vanish"] = 0

Cloning(t) == Running(t) /\ tasks[t].kind = "clone"

NoClone == \A t \in Task : ~Cloning(t)

CloneOnly(r) == \A t \in Task : Cloning(t) => t = r

CloneEnvironment ==
    /\ \A f \in {"lookup", "lag", "crash"} : faults[f] = 0
    /\ faults["patch"] <= 1
    /\ Untouched => faults["vanish"] = 0

\* The finalizer is there, and not about to be removed, while a clone runs or a
\* machine exists
CloneGuarded ==
    ~Owned \/ (pc = "final" /\ ~obj.fin) => NoClone /\ (Untouched => ~Exists)

\* The clone that runs is the task the object refers to, or the reconcile that
\* started it has a patch left that cannot be refused
CloneReferenced ==
    Owned =>
      /\ pc = "idle" => cache.task = api.task /\ CloneOnly(api.task)
      /\ pc = "inflight" => /\ cache.task = api.task /\ CloneOnly(api.task)
                            /\ obj.task = api.task /\ base.task = api.task
      /\ pc = "act" => /\ cache.task = api.task /\ base.task = api.task
                       /\ NoClone
      /\ pc = "early" => /\ cache.task = api.task /\ base.task = api.task
                         /\ obj.task # base.task /\ CloneOnly(obj.task)
      /\ pc = "final" => /\ api.task \in {base.task, obj.task}
                         /\ cache.task \in {base.task, api.task}
                         /\ CloneOnly(obj.task)
                         /\ NoClone \/ api.task = obj.task \/ faults["patch"] = 0
      /\ pc = "wait" => /\ cache.task \in {base.task, api.task}
                        /\ CloneOnly(obj.task)
                        /\ NoClone \/ api.task = obj.task

\* The inductive invariant of the clones in a watched environment
CloneInv ==
    /\ InvRefs /\ InvLife /\ InvPass
    /\ CloneEnvironment /\ CloneGuarded /\ CloneReferenced
    /\ Untouched => InvMachine

-----------------------------------------------------------------------------
(* A machine is not cloned again once its BIOS UUID is on record, even if  *)
(* it disappears: the pass that records the UUID drops the reference to    *)
(* the power on task as well, and so waits for the cache.                  *)

\* No call of a reconcile fails half way: a pass that drops the reference to the
\* power on task gets as far as the UUID
Answered == \A s \in Scenarios : s["rpc"] = 0

PoweringOn(t) == Running(t) /\ tasks[t].kind = "powerOn"

NoPowerOn == \A t \in Task : ~PoweringOn(t)

PowerOnOnly(r) == \A t \in Task : PoweringOn(t) => t = r

\* The power on task k is over and did not fail
Rose(k) == k # 0 /\ tasks[k].kind = "powerOn" /\ tasks[k].st \in {"success", "already", "purged"}

\* A reconcile may still take the machine for one that is to be set up
Live == Owned /\ ~Deleting

\* The UUID is in the cache whenever a reconcile starts: the one that records it
\* changes the task reference too
UUIDCached ==
    Owned =>
      /\ pc \in {"idle", "inflight", "act", "early", "final"} => cache.bios = api.bios
      /\ pc \notin {"idle", "wait"} => base.bios = api.bios
      /\ pc \in {"inflight", "act", "early"} => obj.bios = api.bios
      /\ pc = "final" /\ obj.bios # base.bios =>
           /\ obj.bios # 0 /\ obj.task # base.task
           /\ api.task = base.task /\ cache.task = base.task
      /\ pc = "wait" /\ cache.task # base.task => cache.bios = api.bios

\* The power on task that runs is the one referred to, as for clones
PowerOnReferenced ==
    Live =>
      /\ pc \in {"idle", "inflight", "wait"} => PowerOnOnly(api.task)
      /\ pc = "act" => NoPowerOn
      /\ pc = "early" => PowerOnOnly(obj.task)
      /\ pc = "final" => /\ PowerOnOnly(obj.task)
                         /\ NoPowerOn \/ api.task = obj.task \/ faults["patch"] = 0

\* A machine that is on and not on record has its power on task on record
OnRecorded ==
    Live /\ vm.power = "on" /\ api.bios = 0 =>
      /\ pc \in {"idle", "inflight", "act", "wait"} => Rose(api.task)
      /\ pc = "early" => Rose(obj.task)
      /\ pc = "final" => \/ Rose(obj.task) /\ (api.task = obj.task \/ faults["patch"] = 0)
                         \/ Rose(api.task) /\ obj.bios # 0 /\ api.task = base.task

\* A machine is powered on when it is set up, but for its storage policy
OnSetUp ==
    Live /\ Exists /\ (vm.power = "on" \/ ~NoPowerOn) => vm.todo \subseteq {"policy"}

\* The inductive invariant of the UUID on record
RecordInv ==
    /\ UUIDCached /\ PowerOnReferenced /\ OnRecorded /\ OnSetUp
    /\ faults["rpc"] = 0
    /\ Exists => vm.id # 0
    /\ api.exists /\ ~api.fin => ~Exists /\ Quiet
    /\ pc = "act" /\ base.task # 0 => obj.task # base.task

-----------------------------------------------------------------------------
(* A failed task is dropped only after its back-off.                       *)

\* A task that needs no second look: it is over and did not fail
Done(k) == k = 0 \/ tasks[k].st \in {"success", "already", "purged"}

\* A reconcile drops the reference it read only if that task is done, or if it
\* failed and its RetryAfter has passed
InvDropped ==
    /\ pc = "inflight" => obj = base
    /\ pc \in {"act", "early"} => Done(base.task)
    /\ pc = "final" /\ obj.task # base.task =>
         Done(base.task) \/ (obj.task = 0 /\ base.retry = "expired")

\* RetryAfter is reset together with the reference, so whoever still sees the
\* reference and a RetryAfter can be sure that there is one
InvRetry ==
    /\ pc # "idle" /\ obj.retry = "zero" /\ base.retry # "zero" =>
         /\ pc \in {"final", "wait"} /\ obj.task = 0 /\ base.task # 0
         /\ pc = "final" /\ Owned => api.task = base.task
    /\ Owned =>
         /\ cache.task = api.task /\ cache.retry # "zero" => api.retry # "zero"
         /\ pc # "idle" /\ base.task = api.task /\ base.retry # "zero" => api.retry # "zero"

-----------------------------------------------------------------------------
(* The promise, and how the state of the controller stands for its state.  *)

\* The task in flight, of which there is at most one
TaskInFlight ==
    IF Quiet THEN "none" ELSE tasks[CHOOSE t \in Task : Running(t)].kind

\* A machine is destroyed only by a task, which vCenter's history tells
MachineState ==
    CASE Exists                                                    -> "there"
      [] ~Exists /\ (\E t \in Task : tasks[t].kind = "destroy")     -> "destroyed"
      [] ~Exists /\ ~(\E t \in Task : tasks[t].kind = "destroy")    -> "none"

ObjectState == CASE Owned                 -> "held"
                 [] ~Owned /\ api.exists  -> "free"
                 [] ~Owned /\ ~api.exists -> "gone"

Promise == INSTANCE ManagedMachine WITH
               Kinds   <- TaskKinds \ {"none"},
               object  <- ObjectState,
               doomed  <- (api.del \/ ~api.exists),
               machine <- MachineState,
               task    <- TaskInFlight

\* service.go:72, vspherevm_controller.go:377: every step of the controller, of
\* vCenter and of the API server is a step of a managed machine, or none
KeepsPromise == Promise!Spec
=============================================================================
