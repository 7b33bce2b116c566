--------------------------- MODULE ClusterModules ---------------------------
(***************************************************************************)
(* Cluster modules, the anti-affinity groups of vCenter: the VSphereCluster *)
(* controller keeps one for every KubeadmControlPlane and MachineDeployment *)
(* of a cluster (controllers/clustermodule_reconciler.go), and the VSphereVM *)
(* controller makes each virtual machine a member of its owner's module.   *)
(*                                                                         *)
(* A module, in vCenter and in Spec.ClusterModules, is the record of the   *)
(* owner it was created for and of its UUID, a number.  The keys of the    *)
(* object map are taken to be distinct: no MachineDeployment is named      *)
(* "kcp" followed by the name of the KubeadmControlPlane.  vCenter is      *)
(* recent enough for modules, and the feature is not switched off.  The    *)
(* owners are listed as they are; the VSphereCluster is read from a cache. *)
(***************************************************************************)
EXTENDS Naturals, FiniteSets

CONSTANTS
    Owners,     \* the KubeadmControlPlane and the MachineDeployments
    Name,       \* their names
    Skipped,    \* owners that get no module: their template is not for this vCenter,
                \* or its resource pool is not in a compute cluster
    VMs,        \* virtual machines
    OwnerOf,    \* the owner of a virtual machine
    MaxModules, \* module UUIDs
    MaxChanges, \* creations and deletions of owners
    MaxFaults   \* failing calls, refused patches, stale reads, restarts

ASSUME ClusterModulesAssumption ==
    /\ IsFiniteSet(Owners) /\ Skipped \subseteq Owners /\ OwnerOf \in [VMs -> Owners]
    /\ MaxModules \in Nat /\ MaxChanges \in Nat /\ MaxFaults \in Nat

VARIABLES
    live,       \* the owners that exist and are not being deleted
    api,        \* the VSphereCluster: its modules and the stage of its life
    cache,      \* the VSphereCluster in the informer cache
    pc,         \* where the reconcile of the VSphereCluster is
    base,       \* the VSphereCluster as the reconcile read it
    todo,       \* entries of Spec.ClusterModules still to be verified
    objectMap,  \* owners that may need a new module
    out,        \* clusterModuleSpecs
    failed,     \* modErrs is not empty
    modules,    \* the modules in vCenter
    members,    \* their members, as pairs of module and virtual machine
    changes,    \* owners created and deleted so far
    faults      \* faults so far

k8s   == <<live, api, cache, changes>>
rec   == <<pc, base, todo, objectMap, out, failed>>
vc    == <<modules, members>>
vars  == <<k8s, rec, vc, faults>>

Modules == [owner : Owners, id : 1 .. MaxModules]

Clusters == [mods : SUBSET Modules, stage : {"live", "deleting", "gone"}]

TypeOK ==
    /\ live \subseteq Owners
    /\ api \in Clusters /\ cache \in Clusters /\ base \in Clusters
    /\ pc \in {"idle", "verify", "create"}
    /\ todo \subseteq Modules /\ out \subseteq Modules /\ modules \subseteq Modules
    /\ objectMap \subseteq Owners
    /\ members \subseteq modules \X VMs
    /\ failed \in BOOLEAN
    /\ changes \in 0 .. MaxChanges /\ faults \in 0 .. MaxFaults

NewCluster == [mods |-> {}, stage |-> "live"]

Init ==
    /\ live = {} /\ api = NewCluster /\ cache = NewCluster
    /\ pc = "idle" /\ base = NewCluster
    /\ todo = {} /\ objectMap = {} /\ out = {} /\ failed = FALSE
    /\ modules = {} /\ members = {}
    /\ changes = 0 /\ faults = 0

Fault == faults < MaxFaults /\ faults' = faults + 1

-----------------------------------------------------------------------------
(* The owners, the cache, the administrator.                               *)

\* Cluster API deletes the VSphereCluster after all the owners are gone
OwnersChange ==
    /\ changes < MaxChanges /\ changes' = changes + 1
    /\ \/ /\ api.stage = "live"
          /\ \E o \in Owners \ live : live' = live \cup {o}
          /\ UNCHANGED api
       \/ /\ \E o \in live : live' = live \ {o}
          /\ UNCHANGED api
       \/ /\ live = {} /\ api.stage = "live"
          /\ api' = [api EXCEPT !.stage = "deleting"] /\ UNCHANGED live
    /\ UNCHANGED <<cache, rec, vc, faults>>

CacheSync ==
    /\ cache # api
    /\ cache' = api
    /\ UNCHANGED <<live, api, changes, rec, vc, faults>>

\* A module is gone, and with it its memberships
Gone(m) ==
    /\ modules' = modules \ {m}
    /\ members' = {x \in members : x[1] # m}

ModuleVanishes ==
    /\ Fault
    /\ \E m \in modules : Gone(m)
    /\ UNCHANGED <<k8s, rec>>

-----------------------------------------------------------------------------
(* The VSphereCluster controller.                                          *)

\* The KubeadmControlPlane and the MachineDeployments that are not being deleted
FetchMachineOwnerObjects == live

\* Faulty variant of Start: a cluster that is being deleted has no pass over its
\* modules
StartDeletionAtOnce ==
    /\ pc = "idle" /\ cache.stage # "gone"
    /\ IF cache = api THEN UNCHANGED faults ELSE Fault
    /\ pc' = "verify"
    /\ base' = cache /\ todo' = IF cache.stage = "live" THEN cache.mods ELSE {}
    /\ objectMap' = FetchMachineOwnerObjects /\ out' = {} /\ failed' = FALSE
    /\ UNCHANGED <<k8s, vc>>

\* The VSphereCluster is read and the owners are listed
Start ==
    /\ pc = "idle" /\ cache.stage # "gone"
    /\ IF cache = api THEN UNCHANGED faults ELSE Fault
    /\ pc' = "verify"
    /\ base' = cache /\ todo' = cache.mods
    /\ objectMap' = FetchMachineOwnerObjects /\ out' = {} /\ failed' = FALSE
    /\ UNCHANGED <<k8s, vc>>

\* The calls of the cluster module service that are answered.  Removing a module
\* that is gone is no error.
DoesExist(m) == m \in modules
Remove(m)    == Gone(m)

\* One entry of Spec.ClusterModules: the module of an owner that is gone is
\* deleted, an error being logged only; one that exists, or cannot be checked,
\* is kept; one that is missing is left to be created anew.
Verify ==
    /\ pc = "verify"
    /\ \E m \in todo :
         /\ todo' = todo \ {m}
         /\ \/ /\ m.owner \notin objectMap
               /\ Remove(m) /\ UNCHANGED <<objectMap, out, failed, faults>>
            \/ /\ m.owner \notin objectMap /\ Fault
               /\ UNCHANGED <<vc, objectMap, out, failed>>
            \/ /\ m.owner \in objectMap /\ DoesExist(m)
               /\ out' = out \cup {m} /\ objectMap' = objectMap \ {m.owner}
               /\ UNCHANGED <<vc, failed, faults>>
            \/ /\ m.owner \in objectMap /\ Fault
               /\ out' = out \cup {m} /\ objectMap' = objectMap \ {m.owner}
               /\ failed' = TRUE /\ UNCHANGED vc
            \/ /\ m.owner \in objectMap /\ ~DoesExist(m)
               /\ UNCHANGED <<vc, objectMap, out, failed, faults>>
    /\ UNCHANGED <<k8s, pc, base>>

Verified ==
    /\ pc = "verify" /\ todo = {}
    /\ pc' = "create"
    /\ UNCHANGED <<k8s, base, todo, objectMap, out, failed, vc, faults>>

\* Every module that is there or on record somewhere
Known == modules \cup api.mods \cup cache.mods \cup base.mods \cup todo \cup out

\* The UUID of a new module: the first that nothing refers to
Fresh(n) ==
    /\ \A m \in Known : m.id # n
    /\ \A k \in 1 .. (n - 1) : \E m \in Known : m.id = k

\* service.Create for the owner o yields the module m
CreateModule(o, m) ==
    /\ m.owner = o /\ Fresh(m.id)
    /\ modules' = modules \cup {m}

\* One owner without a module: creation succeeds, is skipped or fails
Create ==
    /\ pc = "create"
    /\ \E o \in objectMap :
         /\ objectMap' = objectMap \ {o}
         /\ \/ /\ o \notin Skipped
               /\ \E m \in Modules : CreateModule(o, m) /\ out' = out \cup {m}
               /\ UNCHANGED <<failed, faults>>
            \/ o \in Skipped /\ UNCHANGED <<modules, out, failed, faults>>
            \/ Fault /\ failed' = TRUE /\ UNCHANGED <<modules, out>>
    /\ UNCHANGED <<k8s, pc, base, todo, members>>

\* The locals of a reconcile are dropped
Return ==
    /\ pc' = "idle" /\ base' = NewCluster
    /\ todo' = {} /\ objectMap' = {} /\ out' = {} /\ failed' = FALSE

\* Faulty variant of Patch: nothing is patched unless the modules have changed
PatchOnlyModules ==
    /\ pc = "create" /\ objectMap = {}
    /\ Return
    /\ api' = IF out # base.mods /\ api.stage # "gone" THEN [api EXCEPT !.mods = out] ELSE api
    /\ UNCHANGED <<live, cache, changes, vc, faults>>

\* The pass ends: Spec.ClusterModules is replaced, the finalizer of a cluster
\* that is being deleted is removed unless there was an error, and the deferred
\* patch sends what has changed
Patch ==
    /\ pc = "create" /\ objectMap = {}
    /\ Return
    /\ \/ /\ api.stage # "gone"
          /\ api' = [ mods  |-> IF out # base.mods THEN out ELSE api.mods,
                      stage |-> IF base.stage = "deleting" /\ ~failed THEN "gone" ELSE api.stage ]
          /\ UNCHANGED faults
       \/ api.stage = "gone" /\ UNCHANGED <<api, faults>>
       \/ Fault /\ UNCHANGED api
    /\ UNCHANGED <<live, cache, changes, vc>>

\* The manager restarts
Crash ==
    /\ pc # "idle" /\ Fault
    /\ Return
    /\ cache' = api
    /\ UNCHANGED <<live, api, changes, vc>>

-----------------------------------------------------------------------------
(* The VSphereVM controller.                                               *)

\* fetchClusterModuleInfo: the entry with the name of the owner, which is there,
\* perhaps being deleted
ModuleOf(v) == {m \in cache.mods : Name[m.owner] = Name[OwnerOf[v]]}

\* Faulty variant of Join: a machine that is in some module is left alone
JoinOnce(v) ==
    /\ \A x \in members : x[2] # v
    /\ \E m \in ModuleOf(v) \cap modules : members' = members \cup {<<m, v>>}
    /\ UNCHANGED <<k8s, rec, modules, faults>>

\* reconcileClusterModuleMembership; adding to a module that is gone fails
Join(v) ==
    /\ \E m \in ModuleOf(v) \cap modules :
         /\ <<m, v>> \notin members
         /\ members' = members \cup {<<m, v>>}
    /\ UNCHANGED <<k8s, rec, modules, faults>>

Reconcile == Start \/ Verify \/ Verified \/ Create \/ Patch

Next ==
    \/ OwnersChange \/ CacheSync \/ ModuleVanishes
    \/ Reconcile \/ Crash
    \/ \E v \in VMs : Join(v)

Spec == Init /\ [][Next]_vars

\* Both controllers run again on every change and on the resync; the watch
\* keeps going
Fairness ==
    /\ WF_vars(Reconcile) /\ WF_vars(CacheSync)
    /\ \A v \in VMs : WF_vars(Join(v))

FairSpec == Spec /\ Fairness

-----------------------------------------------------------------------------
\* What the VSphereCluster records: nothing once it is gone
OnRecord == IF api.stage = "gone" THEN {} ELSE api.mods

\* Modules nothing refers to any more: they are never deleted
Leaked == modules \ (OnRecord \cup out)

\* clustermodule_reconciler.go:110, 151 and vspherecluster_reconciler.go:219: a
\* fault leaks at most one module of each owner, and without a fault none is
\* leaked, after the deletion of the cluster neither
LeakBounded == Cardinality(Leaked) <= Cardinality(Owners \ Skipped) * faults

\* clustermodule_reconciler.go:120, 130 and service.go:772: whatever was created
\* twice, lost or replaced on the way, the machines of an owner that stays end up
\* in the module on record
MachinesJoin ==
    \A v \in VMs :
        OwnerOf[v] \notin Skipped /\ <>[](OwnerOf[v] \in live)
            => <>[](\E m \in api.mods : m.owner = OwnerOf[v] /\ <<m, v>> \in members)

\* vspherecluster_reconciler.go:216-255: a cluster that is being deleted loses its
\* finalizer in the end, whatever fails in the pass over its modules
ClusterGoes == api.stage = "deleting" ~> api.stage = "gone"
=============================================================================
