-------------------------- MODULE DeploymentZones --------------------------
(***************************************************************************)
(* VSphereDeploymentZones that refer to one VSphereFailureDomain, and the  *)
(* VSphereCluster that offers them to the control plane                    *)
(* (controllers/vspheredeploymentzone_controller.go and _domain.go,        *)
(* reconcileNormal and reconcileDeploymentZones of                         *)
(* controllers/vspherecluster_reconciler.go).                              *)
(*                                                                         *)
(* A zone that passes its checks in vCenter makes itself an owner of the   *)
(* failure domain and is ready.  A zone that is deleted waits for the      *)
(* machines placed in it, takes its owner reference back and deletes the   *)
(* failure domain when no owner is left.  The list of owners is computed   *)
(* from a cached copy and written by a patch without resourceVersion.      *)
(*                                                                         *)
(*   idle --Reconcile--> own --EnsureOwner--> patch --Patch--> idle        *)
(*   idle --Reconcile--> disown --RemoveOwner--> (delete -->) patch        *)
(*                                                                         *)
(* The machines are those a KubeadmControlPlane creates in the failure     *)
(* domains the cluster offers.  The zone controller lists them from a      *)
(* cache that lags behind, and it is not woken up by them.                 *)
(***************************************************************************)
EXTENDS Naturals

CONSTANTS
    Zones,          \* VSphereDeploymentZones
    Machines,       \* Machines of the control plane
    ZoneOf,         \* their Spec.FailureDomain
    MaxFaults       \* failing checks in vCenter

ASSUME ZonesAssumption == MaxFaults \in Nat /\ ZoneOf \in [Machines -> Zones]

VARIABLES
    zone,               \* the zones
    fd, cfd,            \* the VSphereFailureDomain: API server, cache
    news,               \* an event of it is on its way to the cache
    active, cactive,    \* the active Machines: API server, cache
    queued,             \* zones in the controller's work queue
    pc, copy,           \* the pass of each zone: place, copy of the domain
    result,             \* what its deferred patch writes; did the pass fail
    held,               \* history: the machines in a zone, known to the cache, when its
                        \* deletion was requested, that are still there
    cl,                 \* the VSphereCluster
    faults

passVars == <<pc, copy, result>>
users == <<active, cactive, held>>
vars == <<zone, fd, cfd, news, users, queued, passVars, cl, faults>>

Ready == {"unset", "true", "false"}

ZoneType    == [exists : BOOLEAN, del : BOOLEAN, fin : BOOLEAN, ready : Ready]
DomainType  == [exists : BOOLEAN, owners : SUBSET Zones]
ResultType  == [ready : Ready, fin : BOOLEAN, failed : BOOLEAN]
ClusterType == [queued : BOOLEAN, offered : SUBSET Zones, provisioned : BOOLEAN]

NewZone   == [exists |-> TRUE, del |-> FALSE, fin |-> FALSE, ready |-> "unset"]
NoZone    == [NewZone EXCEPT !.exists = FALSE]
NewDomain == [exists |-> TRUE, owners |-> {}]
NoDomain  == [exists |-> FALSE, owners |-> {}]
NoResult  == [ready |-> "unset", fin |-> TRUE, failed |-> FALSE]

TypeOK ==
    /\ zone \in [Zones -> ZoneType]
    /\ fd \in DomainType /\ cfd \in DomainType /\ news \in BOOLEAN
    /\ active \subseteq Machines /\ cactive \subseteq Machines
    /\ held \in [Zones -> SUBSET Machines]
    /\ queued \subseteq Zones
    /\ pc \in [Zones -> {"idle", "own", "disown", "delete", "patch"}]
    /\ copy \in [Zones -> DomainType]
    /\ result \in [Zones -> ResultType]
    /\ cl \in ClusterType
    /\ faults \in 0 .. MaxFaults

Init ==
    /\ zone = [z \in Zones |-> NewZone]
    /\ fd = NewDomain /\ cfd = NoDomain /\ news = TRUE
    /\ active = {} /\ cactive = {}
    /\ held = [z \in Zones |-> {}]
    /\ queued = Zones
    /\ pc = [z \in Zones |-> "idle"] /\ copy = [z \in Zones |-> NoDomain]
    /\ result = [z \in Zones |-> NoResult]
    /\ cl = [queued |-> TRUE, offered |-> {}, provisioned |-> FALSE]
    /\ faults = 0

\* A zone is written: its event queues it and, by deploymentZoneToCluster, the
\* cluster.  q are the zones queued before.  A pass over a zone that is gone finds
\* nothing and is left out.
WriteZone(z, new, q) ==
    /\ zone' = [zone EXCEPT ![z] = new]
    /\ queued' = CASE ~new.exists                  -> q \ {z}
                   [] new.exists /\ new # zone[z] -> q \cup {z}
                   [] OTHER                       -> q
    /\ cl' = [cl EXCEPT !.queued = @ \/ new # zone[z]]

WriteDomain(new) == fd' = new /\ news' = (news \/ new # fd)

-----------------------------------------------------------------------------
(* The operator, the control plane, the garbage collector, the informer.   *)

\* A zone without finalizer is gone at once
DeleteZone(z) ==
    /\ zone[z].exists /\ ~zone[z].del
    /\ WriteZone(z, IF zone[z].fin THEN [zone[z] EXCEPT !.del = TRUE] ELSE NoZone, queued)
    /\ held' = [held EXCEPT ![z] = {m \in active \cap cactive : ZoneOf[m] = z}]
    /\ UNCHANGED <<fd, cfd, news, active, cactive, passVars, faults>>

\* The control plane creates a Machine in a domain the cluster offers
PlaceMachine(m) ==
    /\ cl.provisioned /\ ZoneOf[m] \in cl.offered /\ m \notin active
    /\ active' = active \cup {m}
    /\ UNCHANGED <<zone, fd, cfd, news, cactive, held, queued, passVars, cl, faults>>

\* The deletion of a Machine is requested: it is active no longer
DeleteMachine(m) ==
    /\ m \in active
    /\ active' = active \ {m}
    /\ held' = [z \in Zones |-> held[z] \ {m}]
    /\ UNCHANGED <<zone, fd, cfd, news, cactive, queued, passVars, cl, faults>>

\* The cache learns of the Machines; no zone is queued
MachineEvent ==
    /\ cactive # active
    /\ cactive' = active
    /\ UNCHANGED <<zone, fd, cfd, news, active, held, queued, passVars, cl, faults>>

\* References to zones that are gone are dropped, with the last the domain
Collect ==
    LET live == {z \in fd.owners : zone[z].exists} IN
    /\ fd.exists /\ live # fd.owners
    /\ WriteDomain(IF live = {} THEN NoDomain ELSE [fd EXCEPT !.owners = live])
    /\ UNCHANGED <<zone, cfd, users, queued, passVars, cl, faults>>

\* Mutant: the failure domain is not watched
DomainEventIgnored ==
    /\ news /\ news' = FALSE
    /\ cfd' = fd
    /\ UNCHANGED <<zone, fd, users, queued, passVars, cl, faults>>

\* failureDomainsToDeploymentZones
DomainEvent ==
    /\ news /\ news' = FALSE
    /\ cfd' = fd
    /\ queued' = queued \cup {z \in Zones : zone[z].exists}
    /\ UNCHANGED <<zone, fd, users, passVars, cl, faults>>

-----------------------------------------------------------------------------
(* The pass over a zone.                                                   *)

\* The pass goes on at place p with copy d of the domain
GoTo(z, p, d, r) ==
    /\ pc' = [pc EXCEPT ![z] = p]
    /\ copy' = [copy EXCEPT ![z] = d]
    /\ result' = [result EXCEPT ![z] = r]

\* The deferred patch sets status.ready, or removes the finalizer
Outcome(ready, failed) == [ready |-> ready, fin |-> TRUE, failed |-> failed]
Released(z) == [ready |-> zone[z].ready, fin |-> FALSE, failed |-> FALSE]

\* EnsureFinalizer comes first and ends the pass; deleted zones are left to
\* reconcileDelete
EnsureFinalizer(z) ==
    /\ z \in queued /\ pc[z] = "idle"
    /\ zone[z].exists /\ ~zone[z].del /\ ~zone[z].fin
    /\ WriteZone(z, [zone[z] EXCEPT !.fin = TRUE], queued \ {z})
    /\ UNCHANGED <<fd, cfd, news, users, passVars, faults>>

\* vCenter is not reached, or one of the checks of placement constraint, tags,
\* compute cluster and topology fails
CheckFails == faults < MaxFaults /\ faults' = faults + 1

\* reconcileNormal up to the owner reference, which comes after the checks.
\* A failure domain that is not found leaves status.ready as it is.
ReconcileNormal(z) ==
    /\ z \in queued /\ pc[z] = "idle"
    /\ zone[z].exists /\ ~zone[z].del /\ zone[z].fin
    /\ \/ ~cfd.exists /\ UNCHANGED <<queued, pc, copy, result, faults>>
       \/ /\ cfd.exists /\ CheckFails
          /\ queued' = queued \ {z}
          /\ GoTo(z, "patch", NoDomain, Outcome("false", TRUE))
       \/ /\ cfd.exists
          /\ queued' = queued \ {z}
          /\ GoTo(z, "own", cfd, NoResult)
          /\ UNCHANGED faults
    /\ UNCHANGED <<zone, fd, cfd, news, users, cl>>

\* updateOwnerReferences: the list of owners is replaced by the one computed
\* from the copy, if they differ
ownersPatched(z, owners) ==
    WriteDomain(IF owners = copy[z].owners THEN fd ELSE [fd EXCEPT !.owners = owners])

OwnerPatchFails(z, owners) == owners # copy[z].owners /\ ~fd.exists

\* The zone becomes an owner and is ready; a domain that is gone is an error
EnsureOwner(z) ==
    LET owners == copy[z].owners \cup {z} IN
    /\ pc[z] = "own"
    /\ IF OwnerPatchFails(z, owners)
       THEN GoTo(z, "patch", NoDomain, Outcome("false", TRUE)) /\ UNCHANGED <<fd, news>>
       ELSE /\ ownersPatched(z, owners)
            /\ GoTo(z, "patch", NoDomain, Outcome("true", FALSE))
    /\ UNCHANGED <<zone, cfd, users, queued, cl, faults>>

\* Mutant: Machines that still use the zone are not looked for
UsersIgnored(z) == {m \in Machines : FALSE}

\* The active Machines in the zone, as the cache lists them
Users(z) == {m \in cactive : ZoneOf[m] = z}

\* reconcileDelete up to the owner reference: an error while active machines
\* use the zone; without failure domain only the finalizer is left
ReconcileDelete(z) ==
    /\ z \in queued /\ pc[z] = "idle" /\ zone[z].exists /\ zone[z].del
    /\ \/ Users(z) # {} /\ UNCHANGED <<queued, passVars>>
       \/ /\ Users(z) = {}
          /\ queued' = queued \ {z}
          /\ IF cfd.exists THEN GoTo(z, "disown", cfd, NoResult)
                           ELSE GoTo(z, "patch", NoDomain, Released(z))
    /\ UNCHANGED <<zone, fd, cfd, news, users, cl, faults>>

\* The zone takes its reference back; the copy decides on the deletion
RemoveOwner(z) ==
    LET owners == copy[z].owners \ {z} IN
    /\ pc[z] = "disown"
    /\ IF OwnerPatchFails(z, owners)
       THEN GoTo(z, "patch", NoDomain, Outcome(zone[z].ready, TRUE)) /\ UNCHANGED <<fd, news>>
       ELSE /\ ownersPatched(z, owners)
            /\ GoTo(z, IF owners = {} THEN "delete" ELSE "patch", NoDomain, Released(z))
    /\ UNCHANGED <<zone, cfd, users, queued, cl, faults>>

\* Mutant: the failure domain is left to others
KeepFailureDomain(z) ==
    /\ pc[z] = "delete"
    /\ pc' = [pc EXCEPT ![z] = "patch"]
    /\ UNCHANGED <<zone, fd, cfd, news, users, queued, copy, result, cl, faults>>

\* No owner is left in the copy: delete the domain, found or not
DeleteFailureDomain(z) ==
    /\ pc[z] = "delete"
    /\ WriteDomain(NoDomain)
    /\ pc' = [pc EXCEPT ![z] = "patch"]
    /\ UNCHANGED <<zone, cfd, users, queued, copy, result, cl, faults>>

\* The zone after the deferred patch: gone when its finalizer is removed
PatchedZone(z) ==
    IF ~result[z].fin THEN NoZone ELSE [zone[z] EXCEPT !.ready = result[z].ready]

\* The deferred patch.  The error of the pass queues the zone.
Patch(z) ==
    /\ pc[z] = "patch"
    /\ WriteZone(z, PatchedZone(z), IF result[z].failed THEN queued \cup {z} ELSE queued)
    /\ GoTo(z, "idle", NoDomain, NoResult)
    /\ UNCHANGED <<fd, cfd, news, users, faults>>

-----------------------------------------------------------------------------
(* The pass over the VSphereCluster.                                       *)

\* Mutant: a zone that failed its checks is offered as well
OfferedZonesAll == {z \in Zones : zone[z].exists}

\* reconcileDeploymentZones: zones that are ready or have not reported yet
OfferedZones == {z \in Zones : zone[z].exists /\ zone[z].ready # "false"}

\* The whole reconcileNormal and the deferred patch.  While some zone has not
\* reported, the cluster offers its list and waits; the steps after it (identity,
\* session, version, modules) may fail.
ReconcileCluster ==
    /\ cl.queued
    /\ \/ cl' = [cl EXCEPT !.offered = OfferedZones]
       \/ /\ \A z \in Zones : zone[z].exists => zone[z].ready # "unset"
          /\ cl' = [queued |-> FALSE, offered |-> OfferedZones, provisioned |-> TRUE]
    /\ UNCHANGED <<zone, fd, cfd, news, users, queued, passVars, faults>>

-----------------------------------------------------------------------------

ZonePass(z) ==
    \/ EnsureFinalizer(z) \/ ReconcileNormal(z) \/ EnsureOwner(z)
    \/ ReconcileDelete(z) \/ RemoveOwner(z) \/ DeleteFailureDomain(z) \/ Patch(z)

Next ==
    \/ \E z \in Zones : DeleteZone(z) \/ ZonePass(z)
    \/ \E m \in Machines : PlaceMachine(m) \/ DeleteMachine(m)
    \/ MachineEvent \/ Collect \/ DomainEvent \/ ReconcileCluster

\* The workers take what is queued; informers and garbage collector work.
\* Nothing is assumed of the operator and the machines.
Fairness ==
    /\ \A z \in Zones : WF_vars(ZonePass(z))
    /\ WF_vars(MachineEvent) /\ WF_vars(DomainEvent) /\ WF_vars(Collect) /\ WF_vars(ReconcileCluster)

Spec == Init /\ [][Next]_vars /\ Fairness

-----------------------------------------------------------------------------
(* Properties.                                                             *)

\* vspheredeploymentzone_controller.go:328-339: a machine that was in the zone,
\* and known to the cache, when the deletion of the zone was requested keeps the
\* zone for as long as it is there, through all the passes that follow; nor does a
\* zone with such a machine go at once, as one does that has no finalizer yet.
\* Nothing is claimed of a machine that is created later, or that the cache had not
\* seen: the zone may go and leave it behind.
UsedZoneKept == \A z \in Zones : ~zone[z].exists => held[z] = {}

\* The patches of two zones overwrite each other's owner references; in the
\* end every live zone owns the failure domain and is ready, if there is one.
OwnersHeal ==
    \A z \in Zones : <>[](zone[z].exists /\ ~zone[z].del /\ fd.exists =>
                              z \in fd.owners /\ zone[z].ready = "true")

\* In the end the cluster offers the zones that are ready or have not reported,
\* and no zone that failed its checks or is gone.
ClusterFollows == <>[](cl.offered = {z \in Zones : zone[z].exists /\ zone[z].ready # "false"})

\* Some active Machine is in the zone
InUse(z) == \E m \in active : ZoneOf[m] = z

\* A deleted zone goes unless machines use it: the error of the pass repeats
\* it, as machines are not watched.  A failure domain that some zone owned goes
\* with the last of the zones, also when two are deleted at the same time, each
\* with an outdated list of owners.
ZonesGoDown ==
    /\ \A z \in Zones : zone[z].del ~> (~zone[z].exists \/ InUse(z))
    /\ [](fd.owners # {} => []((\A z \in Zones : ~zone[z].exists) => <>~fd.exists))
=============================================================================
