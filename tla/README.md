# Verification of Cluster API Provider vSphere (CAPV)

TLA+ models of the controllers in this repository, TLC configurations that check
them on small instances, and TLAPS proofs of the properties that matter most for
instances of any size.

Run the tools inside this directory:

    tlasany VSphereVM.tla                          # parse
    tlc -workers 2 -config lifecycle.cfg MCVSphereVM   # model-check
    tlapm VSphereVM_proofs.tla                     # check the proofs

`PROJECT.json` lists the components, runs, mutants, findings, hazards and theorems,
and maps every definition to the source lines it models.

## 1. The system

CAPV turns Kubernetes objects into virtual machines. It runs in one of two modes:
*govmomi* (the manager talks to vCenter) and *supervisor* (it creates objects of the
VM Operator). Everything is a set of controllers: each has a work queue of object
keys, reads objects from an informer cache that lags behind the API server, does one
pass, and writes the difference back with a patch. vCenter is asynchronous as well:
most operations are tasks that end later, well or badly.

| Component | State it keeps | Operations | What makes it correct |
|---|---|---|---|
| VSphereVM controller (`controllers/vspherevm_controller.go`) | finalizer, `Spec.BiosUUID`, `Status.TaskRef`, `RetryAfter`, conditions, `Ready` | reconcile, delete, deferred patch, wait for the cache | one vCenter task at a time; no machine without object; deletion and readiness are reached |
| VM service (`pkg/services/govmomi`) | none of its own: the machine and its tasks in vCenter | ReconcileVM, DestroyVM, clone, reconfigure, power, wait goroutines | a task that was started is on record; a failed task backs off |
| Power off (`power.go`) | the GuestSoftPowerOffSucceeded condition | triggerSoftPowerOff | the guest has its time; soft mode never cuts the power |
| Address wait (`util.go`) | maps of the addresses that were seen, three channels | waitForIPAddresses, the relay, the trigger loop | no address triggers twice, the wait is complete, and it ends |
| Cluster modules (`clustermodule_reconciler.go`, `pkg/clustermodule`) | `Spec.ClusterModules`, the modules and members in vCenter | verify, create, remove, membership | leaks are bounded by the faults; machines get into the module of their owner |
| VSphereMachine controller, VimMachineService (`vspheremachine_controller.go`, `pkg/services/vimmachine.go`) | finalizer, provider ID, `Provisioned` | create or patch the VSphereVM, deletion handshake | the provider ID is that of the machine; nothing outlives the VSphereMachine |
| IP address claims (`vspherevm_ipaddress_reconciler.go`) | claims with finalizers | create, wait, release | every claim is released when the machine is gone |
| Session cache (`pkg/session`) | one session per server, datacenter, user and password | GetOrCreate, Clear | one session per key, no half leaked, none closed under its users |
| Identities (`vsphereclusteridentity_controller.go`, `pkg/identity`) | owner and finalizer of a Secret | own, release, delete | one owner per Secret; the last one releases it |
| Deployment zones (`vspheredeploymentzone_controller*.go`) | `Ready` of a zone, owners of the failure domain | check, own, disown, delete | a used zone stays; a shared failure domain ends up owned, and goes with the last zone |
| VSphereCluster controller | finalizer, endpoint, failure domains, identity Secret, modules | reconcile, delete | the cluster offers the zones that are ready |
| VirtualMachineGroup and VirtualMachine service (`controllers/vmware`, `pkg/services/vmoperator`) | members and placement annotations of the group, zone labels of the VMs | initial placement, membership, creation | the group is complete before placement; later machines align with it |
| Rest of the supervisor mode | endpoint, resource policy, service accounts, network objects | create or patch | not modelled, see section 5 |

How they interact: the VSphereMachine controller creates the VSphereVM and mirrors
its status; the VSphereVM controller drives vCenter and, through goroutines that wait
for tasks and addresses, sends itself events; the VSphereCluster controller creates
the cluster modules which the VSphereVM controller makes its machines members of, and
offers the zones that the zone controller has found usable; all of them get their
connection from the session cache, with the credentials of an identity. On a
Supervisor the VirtualMachineGroup controller decides when a machine may be created
and the VSphereMachine controller creates it. Objects, caches and vCenter are the only
things they share.

What is hard about it: the cache may not show what the same controller wrote a moment
ago; a restart loses everything that is not in the API server or in vCenter; vCenter
forgets tasks; calls, patches and tasks fail; a deletion can arrive at any point of a
creation; and no event announces a task that failed. `PROJECT.json` lists these
hazards at the lines where they bite, with the property that would catch each.

## 2. Modules

| Module | Contents |
|---|---|
| `VSphereVM` | one VSphereVM object, its controller, the VM service, the API server with the cache, and vCenter |
| `VSphereVMSafety` | the inductive invariants of `VSphereVM`, the environments under which they hold, the refinement mapping |
| `ManagedMachine` | the abstract specification of what `VSphereVM` promises |
| `VSphereVM_proofs` | proofs of the safety properties and of the refinement |
| `PowerOps` | the decision of `power.go`, shared by `VSphereVM` and `PowerOff` |
| `PowerOff`, `PowerOff_proofs` | the power off with clock time, and its proofs |
| `IPWaiter`, `IPWaiter_proofs` | the goroutines that wait for addresses, and their proofs |
| `ClusterModules`, `ClusterModules_proofs` | cluster modules, and their proofs |
| `Machines`, `Machines_proofs` | the VSphereMachine controller composed with what the VSphereVM controller does to the object it creates, the address claims and the webhooks, and their proofs |
| `SessionCache`, `SessionCache_proofs` | the session cache, and its proofs |
| `IdentitySecrets`, `IdentitySecrets_proofs` | identities and clusters that share a Secret, and their proofs |
| `DeploymentZones` | zones that share a failure domain, and the cluster that offers them |
| `Placement`, `Placement_proofs` | VirtualMachineGroup, VirtualMachines and MachineDeployments, and their proofs |
| `MC...` | instances for TLC, where a constant needs a definition |

A definition that is called a *faulty variant* or *mutant* in its comment, or "as X,
with ...", is not part of the model: it replaces the definition that follows it in a
mutation test that shows the property can fail.

### VSphereVM and ManagedMachine

A reconcile is cut where it talks to another party:

    idle --Start--> inflight --CheckTask--> act --(task)--> early --EarlyPatch-->
    final --FinalPatch--> wait --CacheWait--> idle

| Model | Code |
|---|---|
| `api`, `cache` | the object in the API server and in the informer cache |
| `obj`, `base` | the copy a reconcile works on, and the copy the patch helper compares with |
| `queued`, `requeue` | the work queue; an error or a RequeueAfter of this pass |
| `overlap` | a storage policy task was started earlier in the same pass |
| `vm`, `tasks`, `watchers` | machine and tasks in vCenter; tasks a goroutine waits for |
| `faults` | how often each kind of fault may still strike |
| `Start` | `vmReconciler.Reconcile` up to `reconcile`: finalizer first, in a pass of its own |
| `CheckTask`, `CheckAndRetryTask` | `reconcileInFlightTask`, `checkAndRetryTask`, with the back-off |
| `ReconcileClone` ... `ReconcileReady` | `ReconcileVM`, one action per operation that starts a task or ends the pass |
| `DestroyNotFound`, `DestroyPowerOff`, `DestroyVM` | `reconcileDelete` and `DestroyVM` |
| `EarlyPatch`, `FinalPatch`, `CacheWait`, `CacheWaitTimeout` | the patch in `Clone` and the power operations, the deferred patch, the five-second wait |
| `Crash`, `VMVanishes`, `TaskPurged`, ... | the environment |

`Patched` is what the patch helper does: fields the pass did not change keep the value
of the server, and an object without finalizers goes. The BIOS UUID of a machine is
the number of the task that cloned it, so a second clone has another UUID. Clock time
is kept where a guard reads it: a deadline lies ahead or has passed.

`ManagedMachine` has four variables: the object is free, held by the finalizer or gone;
its deletion was requested; the machine is not there yet, there or destroyed; one
operation is in flight, or none. The refinement mapping is at the end of
`VSphereVMSafety`: the operation in flight is the kind of the running task, and a
machine that is not there was destroyed if vCenter's history has a destroy task.

### PowerOff, IPWaiter, ClusterModules

`PowerOff` adds the clock to `PowerOps`: a `time.Duration` is a pair of seconds and
nanoseconds, because the code computes the default timeout and an explicit one in
different units. `IPWaiter` has one control state per goroutine; a send and a receive
on an unbuffered channel are one step, and a closed channel is always ready. What a
device asks for (a lease of one family, one static address) is a *slot*, and an
address fills a slot or none. `ClusterModules` treats one entry of
`Spec.ClusterModules` or one owner per step, in any order, so that the manager may
stop or the owners may change between any two calls to vCenter; the records reach the
API server only with the patch at the end. A UUID is a number nothing refers to.

### Machines

A pass of the VSphereMachine controller is cut at its two cached reads of the
VSphereVM (`FindVSphereVM`, and the Get inside `CreateOrPatch`), at the write, and at
the deferred patch. A pass of the VSphereVM controller is one step for what it
achieves (finalizer, claims, clone, report, destroy, release); `VSphereVM` has its
details. A network device is the number of address pools it names, and a claim a pair
of device and pool index, which is how the code names it. What the override with the
failure domain does to server, datacenter, folder, resource pool and datastore is one
value, the *place*: that of the failure domain or that of the machine's own spec. The
webhook lets devices change and forbids a change of the place.

### SessionCache

Every step between `Lock` and `Return` is one call to a vCenter, so that sessions may
expire and servers stop to answer in the middle of `GetOrCreate`. A session is a
number with two halves, `vim` (SOAP) and `rest`; a key stands for the string that the
code builds from server, datacenter, user and password hash.

### IdentitySecrets

One Secret and all who refer to it. `current` holds the copies (the cache and the
copies of running passes) that still have the current resourceVersion; an `Update` of
an identity, and both deletions, need one, the patch of a cluster does not.
`misled` records the users whose deletion went by an outdated copy.

### DeploymentZones

One failure domain, its zones, and the VSphereCluster. The pass over a zone is cut
between the read of the failure domain, the patch of its owner references, its
deletion, and the deferred patch of the zone. The active machines are
read from a cache of their own (`cactive`). `held` is history: the machines that were in
a zone, and known to the cache, when its deletion was requested, and are still there.

### Placement

The group is read from the cache by both controllers and written under optimistic
lock; VM Operator writes its status. The pass over the group is two steps, read and
write; that over a machine is one, on a copy of the group that may be old. A
MachineDeployment is its replicas and failure domain, a VM its zone label and the zone
it was placed in. VM Operator places a VM with a label there, and VMs without when all
members of the group exist, in one zone for each MachineDeployment, which is what the
affinity terms written by `vmopmachine.go` ask for.

## 3. Runs

Deadlock checking is off in every run: an object that is gone, a wait that has ended,
a cluster that is deleted and a manager that has stopped have nothing left to do.

| Run | Shows |
|---|---|
| `lifecycle` | the whole life of a VSphereVM with hardware and VM group changes and a soft power off, and one of: a failed task, a failed call, a forgotten task. One task at a time, a failed task backs off, the inductive invariant, and the refinement of `ManagedMachine` |
| `disturbed` | a refused patch *and* a machine removed by hand, in either order and at any step, with storage policies: no concurrent clones, no orphan, no second clone of a machine whose UUID is on record |
| `progress` | a failed task, an unanswered task lookup or a restart anywhere: the object still becomes ready, and a deletion completes |
| `poweroff` | with an explicit timeout the guest has its time; every mode but the soft one ends with the machine off |
| `ipwaiter` | each slot triggers at most once, a wait that is not given up is complete, and it ends |
| `cluster_modules` | a fault leaks at most one module per owner, a deletion without a fault none, machines get into the module on record, the cluster can be deleted |
| `machines` | nothing is left behind a deleted VSphereMachine, its provider ID is that of the machine, claims are released, machines go down, and come up unless created outside their failure domain |
| `sessions` | one session per key, no half left by an early return, no SOAP half left by `Clear`, no session closed under its users without reason, nobody waits for the mutex unless its holder waits for a dead vCenter |
| `secrets` | one owner per Secret, identities take nothing, the last deletion leaves no finalizer, every deletion ends |
| `zones` | a zone stays for the machines known in it when its deletion was requested, overwritten owner references come back, the cluster offers the right zones, the failure domain goes with the last zone |
| `placement` | the machines of a MachineDeployment share a zone, later machines get it as a label, the decision stays, admitted machines get ready |
| `poweroff_default` | *violation*: the default timeout is 300 ns, not 5 min |

The violation run states what the API documentation says; the finding in
`PROJECT.json` quotes it.

Bounds. `MaxTasks` is never the limit in a run of `MCVSphereVM`: `TasksSuffice` there
holds in all of them (it is not part of the runs); likewise `ModulesSuffice` in
`MCClusterModules`. `lifecycle` and `progress` choose in `Scenarios` one fault at a time,
`disturbed` combines its two; every fault may strike at every step. Other pairs do not fit
the time a check may take. Apart from the runs, a failed task and a vanished machine
together (6.3 million states) and a restart and a vanished machine together (9.6 million)
were found not to violate `NoSecondClone`. `Drift` selects what a fresh clone lacks, two items in `lifecycle` so that
their order matters. The clock of `PowerOff` ticks in the 20 seconds of the requeue,
past the largest timeout. `ipwaiter` has two leases, one of which two addresses
compete for, a static address, a link-local one and a card without a device.
`cluster_modules` has two owners with a machine each, one owner that gets no module,
five changes (enough to create and delete both owners and the cluster) and two faults.
`machines` has a machine with one device of one or two pools and a failure domain that
adds a device, so that an edit, or a missing failure domain, takes away a claim;
`Mixed` pairs a stale read with each fault that may follow it. `sessions` has two
workers, two keys on two servers, three sessions (a session, its successor and that of
the other key), two failures and one server that hangs; `WaitsForMutexOnly` is not
claimed once the three are used up. `secrets` has two identities and a cluster that
want one Secret, or an identity and a cluster and a Secret that is created a second time
(without which the garbage collector has nothing to do), every order of deletions, and
caches of any age. `zones` has two
zones, one machine in the first of them and one failing check. `placement` has MachineDeployments of two
and one machines, one or two zones and one change (scaling, pinning, deleting, a zone
added, a machine deleted) at any time.

Fairness. Weak fairness of the reconcile: a worker takes queued keys, and a pass makes
progress. Of the cache and the resync: the watch is re-established and
`--sync-period` is ten minutes (`pkg/manager/constants.go`). Of the clock. Of vCenter:
every task ends, successfully or not. Of the guest, that it reports an address once it
runs, and that it halts when asked *in soft mode only*, where the code has no other
way to stop it; in trySoft mode the timeout has to do. Nothing is assumed of failing
calls: they are faults with a budget. For `ClusterModules` and `Placement`: the
controllers run again and again, which requeue and resync provide. For `SessionCache`
strong fairness of `Lock` stands for Go's mutex, which hands itself to a waiter after
a millisecond; a call to a hung server never returns. Of operators, control planes and
MachineDeployments nothing is assumed. Kubernetes collects garbage.

## 4. Proofs

| Theorem | Statement |
|---|---|
| `VSphereVM_proofs!TypeCorrect` | types, and every TaskRef anywhere names a task that was started, under any faults |
| `VSphereVM_proofs!Safe` | `Reliable => (Spec => []SafeInv)` |
| `VSphereVM_proofs!TasksAreSerial` | ... `[]OneTaskAtATime` |
| `VSphereVM_proofs!KeepsItsPromise` | ... `KeepsPromise`: `VSphereVM` implements `ManagedMachine` |
| `VSphereVM_proofs!ClonesAreApart` | `Watched => (Spec => []NoConcurrentClones)` |
| `VSphereVM_proofs!FailuresBackOff` | `Watched => (Spec => FailedTaskBacksOff)` |
| `VSphereVM_proofs!FinalizerGuards` | `Watched /\ Untouched => (Spec => []NoOrphan)` |
| `VSphereVM_proofs!ClonedOnce` | `Watched /\ Answered => (Spec => NoSecondClone)`: the machine may disappear |
| `VSphereVM_proofs!ObjectLife` | `Spec => [](InvLife /\ InvPass)`, whatever fails: finalizer first, deletions are not forgotten |
| `Machines_proofs!TypeCorrect`, `MachineLeavesNothing`, `ProviderIDIsUUID`, `NoClaimKept` | types, `NothingLeftBehind`, `ProviderIDMatches`, `ClaimsReleased`, under any faults |
| `PowerOff_proofs!SoftWaits` | soft mode never cuts the power |
| `PowerOff_proofs!ConfiguredTimeoutKept` | with explicit timeouts the guest has its time |
| `IPWaiter_proofs!NoSecondTrigger`, `WaitIsComplete` | the safety properties of the address wait |
| `ClusterModules_proofs!LeaksAreBounded` | `LeakBounded`: a fault leaks at most one module of each owner, without a fault nothing is leaked, after the deletion of the cluster neither |
| `SessionCache_proofs!NothingLeaks`, `OneSession`, `SharedSessionStays` | the three safety properties of the session cache |
| `IdentitySecrets_proofs!OneOwner`, `NothingTaken` | one owner; an identity takes only a Secret nobody owns |
| `IdentitySecrets_proofs!SecretNotAbandoned` | `NoAbandonedSecret`: the last user takes the finalizer of the Secret along |
| `Placement_proofs!OneZone`, `LateVMsAreLabelled`, `AnnotationStays` | `SameZone`, `LateVMsHaveZone`, `PlacementStays` |

They hold for any number of tasks, timeouts, addresses, owners, machines, workers,
sessions, identities, clusters, devices, MachineDeployments, zones and edits. The
assumptions on the constants are the named ASSUMEs of the modules, which TLC evaluates in
the runs. Each inductive invariant was checked by TLC before it was proved.

*The environments of the VSphereVM theorems.* In all of them tasks may fail and be
forgotten and, unless `Answered` excludes it, calls may fail, at any time and any number of times; a scenario of the
constant `Scenarios` says how often each other kind of fault may strike.

- `Reliable`: patches are accepted, the cache catches up within the five seconds, the
  manager keeps running, vCenter answers task lookups, nobody removes the machine, and
  storage policies are not used. None of the conditions on lookups, cache lag and storage
  policies can be left out for `OneTaskAtATime`: section 5 has the counterexamples.
- `Watched`: lookups are answered, the cache catches up, the manager keeps running, and
  at most one patch is refused; storage policies are used and the machine may disappear.
  Each thing it excludes loses the reference to a running clone, and with it the claim: a
  failing lookup and a stale cache hide TaskRef, a restart between `CloneVM_Task` and the
  patch drops it, and so do two refused patches, the early and the deferred one.
- `Untouched`: nobody removes the machine behind the controller's back, which the proof of
  `NoOrphan` uses: the UUIDs on record are then those of the machine that exists
  (`InvMachine`).
- `Answered`: no call of a reconcile fails half way, which the proof of `NoSecondClone` uses
  in place of it. It cannot be left out: section 5 has the counterexample.

*The inductive invariant of VSphereVM.* `OneTaskAtATime` is not inductive: a step may
start a task whenever the reconcile believes there is none, so what has to be invariant
is that its belief is right. `InvTask` says, for every stage of a pass, which of the
API server, the cache, the copy of the reconcile and its base agree on TaskRef, and
that no other task is running; between passes all of them do, which is what the wait
for the cache is for. `InvLife` and `InvPass`, which hold in every environment, say how
the object, its copies and the pass age; `InvObject` and `InvReconcile` add that without
finalizer there is neither machine nor task. `InvMachine` says that the UUIDs on
record are those of the machine, so that "not found" means "not there". The step lemmas
are grouped by actor: environment, task check, actions, patches.

*Clones, and the back-off.* `CloneInv` keeps of `InvTask` what a refused patch and an
overlapping policy task leave true. Only a clone has to be the task on record
(`CloneReferenced`); while it is not, the pass that started it still has a patch before it
that can no longer be refused. `FailedTaskBacksOff` needs in addition that a reference is
dropped only when its task is done, or failed with a RetryAfter that has passed
(`InvDropped`), and that a copy which shows a RetryAfter for the reference of the API
server was not overtaken by a reset of it (`InvRetry`).

*One clone.* `service.go:91` tells a machine that disappeared from one that is to be created
by the BIOS UUID of a cached copy, so what has to be invariant is that a UUID on record is
in the cache whenever a pass starts (`UUIDCached`). The controller waits for the cache only
after a change of TaskRef. `RecordInv` says that the pass that records the UUID makes one:
as long as the UUID is not on record, a machine that is on was powered on by the task that
is (`OnRecorded`, with `PowerOnReferenced` for the power on that runs), and the pass that
records the UUID drops it; no task but that of a storage policy comes in between (`OnSetUp`).
The machine may disappear at any step, as nothing of this needs the machine to be there.

*The refinement.* `RInv` adds to it that, once a destroy was started, neither the
object nor any copy of it looks alive, so that no clone can follow a destroy. Each
action is then shown to be a step of `ManagedMachine` or a stuttering step.

*The session cache.* The invariant says where a session can be: a worker in a protected
place is the only one and holds the mutex; a session is cached under its own key, or
held by that worker while it opens or gives it up; the one the worker has found in the
cache is closed only on the path through the failed check; every other open half is in
`lost`. `SharedSessionStays` needs that a worker that reaches the logout has a session
that expired or is in `doubted`. After `Clear` the cache is no excuse for an open SOAP half
any more (`Cleared`).

*The secret.* `InvVersion` says that a copy counted as current equals the Secret;
`InvOwners` that every copy has at most one owner, and that the copy of a pass about to
own the Secret has no other. The clusters' patch
replaces the list, so it cannot add a second owner, but it can replace the first: that
is why `IdentityTakesNothing` is stated of identities only. `InvGuarded` says that as long
as the Secret has its finalizer, somebody who has not passed the point of releasing it is
there, unless a pass was misled.

*Machines.* The controllers work on copies that are behind; what makes them safe is that a
deletion is seen once and for all. `Over` says that the cache has the deletion of the
VSphereMachine and that no pass works on an older copy: from then on no VSphereVM is
created or patched. A VSphereVM is marked or removed only when `Over` holds (`InvGone`), so
what a copy says of a VSphereVM, of its UUID (`InvUUID`) or of its devices (`InvClaims`), it
says of the one and only. The two exceptions in the properties, `misled` and `reshaped`,
are the ones of section 5.

*Placement.* For a MachineDeployment that is free (not pinned, not deleted) there is one zone
that every annotation, label, reported placement and VM names, if it names any
(`InvAgree`). Zones enter at two places: when the group is created in a namespace with one
zone, and when VM Operator places a complete group. That the second happens once needs
`InvDecided` (afterwards every member of the batch has its zone) and `InvListed` (a member
that joined later has its annotation), and, for the write that is still under way,
`InvWrite`.

*Cluster modules.* A pass that met no fault is `Settled`: every module on record is still to
be verified or taken over, so that its end loses nothing. A pass that met one may lose one
module of each owner when it ends, as neither the list it writes nor the one it replaces
has an owner twice (`Recorded`). `LeakInv` sets that loss aside from the fault on. When the
cluster goes, its records stop to count, and the pass that takes the finalizer away has
verified every module without an owner to keep one for (`Emptied`).

In `IPWaiter` the invariant accounts for every discovered slot: it has triggered its
event, or is in the hand of exactly one goroutine.

*Only model-checked.* Liveness under fairness (`DeletionCompletes`, `BecomesReady`,
`TurnsOff`, `WaitEnds`, `MachinesJoin`, `ClusterGoes`, `ComesUp`, `GoesDown`,
`WaitsForMutexOnly`, `DeletionEnds`, `OwnersHeal`, `ClusterFollows`, `ZonesGoDown`,
`MachinesGetReady`) is beyond the prover. So far also `UsedZoneKept` and the types of
`DeploymentZones`. Of the safety properties, `GuestGetsItsTime` is proved under a
hypothesis (explicit timeouts), those of `VSphereVM` in the
environments above.

## 5. What the models do not cover, and what they met

Not modelled. In `VSphereVM`: the pause annotation, tags, host information, the clone
specification, the suspended power state, a metadata change after the first power on,
several failing calls within one step of vCenter, and the wait for static addresses
before the first clone. In `ClusterModules`: the feature gate, an old vCenter,
colliding keys of the object map. In `Machines`: the supervisor branch of the
controller (in `Placement`), labels from the host, several machines (they share
nothing but the cache). In `Placement`: control plane machines, whose failure domain
is always set; bootstrap data, network interfaces and volumes. Of the rest of the
supervisor mode (endpoint, resource policy, service accounts, network providers) each
controller is a sequence of idempotent create-or-patch calls on objects no other
controller of this repository writes; the hard part of it is I/O. API types,
conversions and deep copies, which are most of the repository's lines, are generated or
field by field and hold no state. `PROJECT.json` lists every component with its status.

Modelling met behaviour that a property above has to exclude, or that no text in the
repository decides. The passing runs state the strongest form that holds.

- *Two tasks at a time.* `reconcileStoragePolicy` starts a task and lets the pass go on
  (`service.go:525`), `getTask` takes every error for "no such task" (`util.go:119`),
  and a cache that is stale for longer than the five-second wait hides TaskRef
  (`vspherevm_controller.go:333`), in which case two clones may run.
- *A second clone.* The UUID is recorded after the power on (`vspherevm_controller.go:496`),
  and the cache is waited for only when TaskRef changes. If a call fails after a pass has
  dropped the power on task and before it gets to the UUID, a later pass records the UUID
  without a change of TaskRef; the next may not see it in its cache, and if the machine was
  removed by hand, it is cloned again instead of being reported missing (`service.go:91`).
  The same follows when a power on fails, is started again and a restart loses the reference
  to it. A restart alone is harmless: the task before the power on is then still on record,
  the pass that records the UUID drops that reference and waits.
- *RetryAfter* is not cleared with a TaskRef that vCenter has forgotten (`util.go:141`):
  the next task inherits the back-off of the last one.
- *The last address.* "Trigger a reconcile every time a new IP is discovered" (`util.go:249`)
  and "every time a new IP is discovered, a reconcile request will be triggered"
  (`util.go:611`) do not hold for one address: when the collector has closed its channels
  while the relay still has an address in its hand, `select` may prefer the closed error
  channel (`util.go:354`); this address triggers no event and the relay stays blocked for
  good. No property claims that every address triggers.
- *One name, two owners.* `clustermodule_reconciler.go:318` prefixes a key "to separate a
  single KCP object from the Machine Deployment objects having the same name", so that both
  have a module, but the machines look theirs up by name alone
  (`vspherevm_controller.go:724`) and may all get into the module listed first. The owners
  of `ClusterModules` have distinct names, and no property claims that owners are kept apart.
- *Stale "not found".* A VSphereMachine that is deleted while the cache has not seen its
  VSphereVM loses its finalizer (`misled` in `Machines`). The garbage collector then
  deletes the VSphereVM, whose passes fail for want of an owner
  (`pkg/util/machines.go:170`): the machine stays in vCenter.
- *Claims of a removed index.* The claims are released by the devices of the moment. An
  edit of the devices, or a failure domain that is not found and silently skipped
  (`vimmachine.go:466`), takes an index away, and its claim keeps the finalizer
  (`reshaped`).
- *Outside the failure domain.* When the lookup of the zone or the failure domain fails in
  the pass that creates the VSphereVM (`vimmachine.go:466`), the error is logged and the
  VSphereVM is created at the place of the machine's own spec. Every later pass wants to move
  it to the failure domain, which the webhook answers with Forbidden (`vspherevm.go:130`): the
  virtual machine is built and runs, and the VSphereMachine never becomes ready. `ComesUp`
  exempts it. Were the lookup to fail later, the retry mends it.
- *The second cached read* in `CreateOrPatch` may be newer or older than the first; the
  webhook's rule that a BIOS UUID does not change is what makes that harmless.
- *Half a logout.* "Clear is meant to destroy all the cached sessions" (`session.go:280`);
  it closes the SOAP half of each and leaves the REST half open. `NoLeak` claims nothing of
  REST halves after it.
- *The owner of a Secret.* The patch of a cluster carries no version and may replace an
  owner that its cache has not seen; both deletions delete the Secret whoever owns it.
- *A failure domain in use.* A zone that is deleted with an outdated list of owners may
  delete the failure domain of a live zone. That zone then fails at every pass, and its
  `Ready` stays true, because a failure domain that is not found leaves it alone.
- *A zone being deleted* is still offered to the control plane until it is gone. A machine
  created meanwhile, or one the cache of the zone controller has not seen, does not hold the
  zone: it stays in a zone that is gone, and `UsedZoneKept` does not speak of it.
- *No placement.* A MachineDeployment that is added after the initial placement, or
  whose batch members vanish before it, gets no placement in a namespace with several
  zones unless it names a failure domain: `Admitted` in `MachinesGetReady`.
- *The zone label* of a VM is computed again in every pass and follows a later failure
  domain of its MachineDeployment, while the comment at `vmopmachine.go:975` says that
  it must never change; `SameZone` excludes such MachineDeployments (`pinned`).
- *A deleted MachineDeployment* is no longer listed, so the next write of the group drops its
  annotation. A machine of it whose VM is created or placed after that gets no label and VM
  Operator may choose another zone: `SameZone` is about MachineDeployments that are not
  being deleted. The attempt to prove it for all showed this.

## 6. Plan

Done, in the order of the plan: `VSphereVM` with its abstract specification, `PowerOff`,
`IPWaiter`, `ClusterModules`, `Machines` with the address claims, `SessionCache`,
`IdentitySecrets`, `DeploymentZones`, `Placement`. Next:

1. Theorems: `UsedZoneKept` of `DeploymentZones` with the invariant that the pass of a zone
   about to be released found none of `held` in its cache; an abstract specification of the
   session cache.
2. The control plane endpoint of the supervisor mode, together with the zones.
3. Pure algorithms against reference definitions: names with truncation, unit numbers of
   data disks.
