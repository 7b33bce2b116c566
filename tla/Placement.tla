----------------------------- MODULE Placement -----------------------------
(***************************************************************************)
(* Placement of the worker machines of a cluster on a Supervisor, with     *)
(* the gate NodeAutoPlacement: the VirtualMachineGroup controller          *)
(* (controllers/vmware/virtualmachinegroup_reconciler.go), the VMs of the  *)
(* VSphereMachines (pkg/services/vmoperator/vmopmachine.go) and, external, *)
(* the MachineDeployments and VM Operator.                                 *)
(*                                                                         *)
(* The group is created when all machines of the MachineDeployments exist  *)
(* (the batch); VM Operator then chooses a zone for each MachineDeployment.*)
(* The controller copies the choice to an annotation of the group and from *)
(* then on admits further machines, whose VMs get the zone as a label.     *)
(* A machine gets no VM before the group lists it.                         *)
(*                                                                         *)
(* Both controllers read the group from the cache; it is written under     *)
(* optimistic lock by the controller and, its status, by VM Operator.      *)
(* Requeues and the resync start every pass again: there is no queue.  The *)
(* pass of a machine is one step, on a copy of the group that may be old.  *)
(***************************************************************************)
EXTENDS Naturals, FiniteSets, FiniteSetsExt

CONSTANTS
    MDs,            \* MachineDeployments
    Machines,       \* machines that may be created
    Zones,          \* failure domains of the Supervisor
    InitialZones,   \* those the namespace may have at first
    None,           \* no failure domain
    MDOf,           \* the MachineDeployment of each machine
    MaxReplicas,    \* bound on spec.replicas
    MaxEdits        \* bound on changes of machines and MachineDeployments

ASSUME PlacementAssumption ==
    /\ IsFiniteSet(Machines) /\ IsFiniteSet(MDs) /\ IsFiniteSet(Zones)
    /\ MDOf \in [Machines -> MDs] /\ None \notin Zones
    /\ InitialZones \subseteq (SUBSET Zones) \ {{}}
    /\ MaxReplicas \in Nat \ {0} /\ MaxEdits \in Nat

VARIABLES
    avail,          \* the zones of the namespace
    md,             \* the MachineDeployments
    mach, mfd,      \* VSphereMachine of each machine, failure domain of its Machine
    vmg, cvmg,      \* the VirtualMachineGroup: API server, cache
    gpc, gbase, gnew,   \* pass of the group controller: place, version read, result
    vm,             \* the VirtualMachine of each machine
    batch,          \* first members of the group
    pinned,         \* MachineDeployments that had a failure domain at some time
    edits

mdVars    == <<avail, md, pinned, edits>>
machVars  == <<mach, mfd>>
groupPass == <<gpc, gbase, gnew>>
vars == <<mdVars, machVars, vmg, cvmg, groupPass, vm, batch>>

Choice  == Zones \cup {None}
MDType  == [del : BOOLEAN, replicas : 0 .. MaxReplicas, fd : Choice]
VMGType == [ exists : BOOLEAN, ann : [MDs -> Choice], members : SUBSET Machines,
             placed : [Machines -> Choice] ]
VMType  == [exists : BOOLEAN, del : BOOLEAN, label : Choice, zone : Choice, bare : BOOLEAN]

NoVMG == [ exists |-> FALSE, ann |-> [d \in MDs |-> None], members |-> {},
           placed |-> [m \in Machines |-> None] ]
NoVM  == [exists |-> FALSE, del |-> FALSE, label |-> None, zone |-> None, bare |-> FALSE]

TypeOK ==
    /\ avail \in (SUBSET Zones) \ {{}}
    /\ md \in [MDs -> MDType]
    /\ mach \in [Machines -> {"none", "live", "ready", "deleting", "gone"}]
    /\ mfd \in [Machines -> Choice]
    /\ vmg \in VMGType /\ cvmg \in VMGType
    /\ gpc \in {"idle", "write"} /\ gbase \in VMGType /\ gnew \in VMGType
    /\ vm \in [Machines -> VMType]
    /\ batch \subseteq Machines /\ pinned \subseteq MDs
    /\ edits \in 0 .. MaxEdits

Init ==
    /\ avail \in InitialZones
    /\ md = [d \in MDs |-> [del |-> FALSE, replicas |-> 1, fd |-> None]]
    /\ pinned = {}
    /\ mach = [m \in Machines |-> "none"] /\ mfd = [m \in Machines |-> None]
    /\ vmg = NoVMG /\ cvmg = NoVMG
    /\ gpc = "idle" /\ gbase = NoVMG /\ gnew = NoVMG
    /\ vm = [m \in Machines |-> NoVM]
    /\ batch = {} /\ edits = 0

\* VSphereMachines without deletionTimestamp
Live == {m \in Machines : mach[m] \in {"live", "ready"}}
Of(d) == {m \in Machines : MDOf[m] = d}

-----------------------------------------------------------------------------
(* MachineDeployments and their machines (Cluster API).                    *)

EditMD(d, new) ==
    /\ edits < MaxEdits /\ edits' = edits + 1
    /\ md' = [md EXCEPT ![d] = new]
    /\ pinned' = IF new.fd # None THEN pinned \cup {d} ELSE pinned
    /\ UNCHANGED <<avail, machVars, vmg, cvmg, groupPass, vm, batch>>

Scale(d, n)            == ~md[d].del /\ n # md[d].replicas /\ EditMD(d, [md[d] EXCEPT !.replicas = n])
SetFailureDomain(d, f) == ~md[d].del /\ f # md[d].fd /\ EditMD(d, [md[d] EXCEPT !.fd = f])
DeleteMD(d)            == ~md[d].del /\ EditMD(d, [md[d] EXCEPT !.del = TRUE])

AddZone(z) ==
    /\ z \notin avail /\ edits < MaxEdits
    /\ edits' = edits + 1 /\ avail' = avail \cup {z}
    /\ UNCHANGED <<md, pinned, machVars, vmg, cvmg, groupPass, vm, batch>>

CreateMachine(m) ==
    LET d == MDOf[m] IN
    /\ mach[m] = "none" /\ ~md[d].del
    /\ Cardinality(Live \cap Of(d)) < md[d].replicas
    /\ mach' = [mach EXCEPT ![m] = "live"]
    /\ mfd' = [mfd EXCEPT ![m] = md[d].fd]
    /\ UNCHANGED <<mdVars, vmg, cvmg, groupPass, vm, batch>>

\* Scaled down, rolled out, remediated, or with its MachineDeployment
DeleteMachine(m) ==
    /\ m \in Live
    /\ IF md[MDOf[m]].del THEN UNCHANGED edits ELSE edits < MaxEdits /\ edits' = edits + 1
    /\ mach' = [mach EXCEPT ![m] = "deleting"]
    /\ UNCHANGED <<avail, md, pinned, mfd, vmg, cvmg, groupPass, vm, batch>>

-----------------------------------------------------------------------------
(* The VirtualMachineGroup controller.                                     *)

GroupEvent ==
    /\ cvmg # vmg
    /\ cvmg' = vmg
    /\ UNCHANGED <<mdVars, machVars, vmg, groupPass, vm, batch>>

\* The replicas asked for are there and none of them is being deleted
shouldCreateVirtualMachineGroup ==
    LET mds      == {d \in MDs : ~md[d].del}
        expected == MapThenSumSet(LAMBDA d : md[d].replicas, mds)
        current  == {m \in Machines : MDOf[m] \in mds /\ mach[m] \in {"live", "ready", "deleting"}}
    IN  /\ expected > 0
        /\ current \subseteq Live
        /\ Cardinality(current) >= expected

\* getSingleZoneName
SingleZone == IF Cardinality(avail) = 1 THEN CHOOSE z \in avail : TRUE ELSE None

\* Mutant: members of other MachineDeployments are not told apart
PlacedMembersAnyMD(g, d) == {m \in Live : g.placed[m] # None}

\* Members of group g that VM Operator reports placed, of MachineDeployment d
PlacedMembers(g, d) == {m \in Live \cap Of(d) : g.placed[m] # None}

\* getMachineDeploymentToFailureDomainMapping, for one MachineDeployment: what
\* the user says, the annotation, the placement, the only zone
Mapping(g, d) ==
    CASE md[d].del                                                   -> None
      [] ~md[d].del /\ md[d].fd # None                               -> md[d].fd
      [] ~md[d].del /\ md[d].fd = None /\ ~g.exists                  -> SingleZone
      [] ~md[d].del /\ md[d].fd = None /\ g.exists /\ g.ann[d] # None -> g.ann[d]
      [] OTHER ->
           IF PlacedMembers(g, d) # {} THEN g.placed[CHOOSE m \in PlacedMembers(g, d) : TRUE]
           ELSE IF g.members \cap Live \cap Of(d) = {} THEN SingleZone ELSE None

\* Mutant: machines are admitted before the placement of their MachineDeployment
MembersAtOnce(g) == {m \in Live : g.exists => m \in g.members \/ md[MDOf[m]].fd = None}

\* All machines at first; afterwards those with a failure domain are admitted
Members(g) == {m \in Live : g.exists => m \in g.members \/ Mapping(g, MDOf[m]) # None}

computeVirtualMachineGroup(g) ==
    [ g EXCEPT !.exists = TRUE, !.members = Members(g),
               !.ann = [d \in MDs |-> Mapping(g, d)] ]

\* The pass up to its write; one that has nothing to write is left out
ReconcileGroup ==
    /\ gpc = "idle"
    /\ cvmg.exists \/ shouldCreateVirtualMachineGroup
    /\ computeVirtualMachineGroup(cvmg) # cvmg
    /\ gpc' = "write" /\ gbase' = cvmg
    /\ gnew' = computeVirtualMachineGroup(cvmg)
    /\ UNCHANGED <<mdVars, machVars, vmg, cvmg, vm, batch>>

\* Mutant: the patch carries no version
UnlockedVersion == ~gbase.exists => ~vmg.exists

\* Mutant: the group is patched also when it does not exist
PatchedVersion == gbase.exists /\ vmg = gbase

\* A create fails when the group exists, a patch when the version is not the one
\* that was read
SameVersion == IF gbase.exists THEN vmg = gbase ELSE ~vmg.exists

\* A refused write ends the pass with an error.  VM Operator forgets members
\* that have left.
WriteGroup ==
    /\ gpc = "write"
    /\ vmg' = IF SameVersion
              THEN [gnew EXCEPT !.placed = [m \in Machines |->
                                   IF m \in gnew.members THEN vmg.placed[m] ELSE None]]
              ELSE vmg
    /\ batch' = IF SameVersion /\ ~vmg.exists THEN gnew.members ELSE batch
    /\ gpc' = "idle" /\ gbase' = NoVMG /\ gnew' = NoVMG
    /\ UNCHANGED <<mdVars, machVars, cvmg, vm>>

-----------------------------------------------------------------------------
(* The VSphereMachine controller with VmopMachineService.                  *)

\* getTopologyLabels: the failure domain of the Machine, or else the annotation;
\* getVMLabels keeps the label when there is neither
Label(m, ann) == CASE mfd[m] # None               -> mfd[m]
                   [] mfd[m] = None /\ ann # None -> ann
                   [] mfd[m] = None /\ ann = None -> vm[m].label

\* The machine waits until the group exists and lists it
checkVirtualMachineGroupMembership(m) == cvmg.exists /\ m \in cvmg.members

\* The VM is created, or patched in what differs
reconcileVMOperatorVM(m) ==
    LET label == Label(m, cvmg.ann[MDOf[m]])
    IN  IF vm[m].exists THEN [vm[m] EXCEPT !.label = label]
        ELSE [ exists |-> TRUE, del |-> FALSE, label |-> label,
               zone |-> None, bare |-> label = None ]

\* The VM is created (its zone chosen), powered on, has address and UUID
Provisioned(m) == vm[m].zone # None

\* ReconcileNormal, which is repeated until the machine is provisioned.  A pass
\* without effect is left out.
ReconcileNormal(m) ==
    LET ready == mach[m] = "live" /\ Provisioned(m) IN
    /\ m \in Live
    /\ checkVirtualMachineGroupMembership(m)
    /\ reconcileVMOperatorVM(m) # vm[m] \/ ready
    /\ vm' = [vm EXCEPT ![m] = reconcileVMOperatorVM(m)]
    /\ mach' = IF ready THEN [mach EXCEPT ![m] = "ready"] ELSE mach
    /\ UNCHANGED <<mdVars, mfd, vmg, cvmg, groupPass, batch>>

\* ReconcileDelete: delete the VM, then the finalizer goes when it is not found
ReconcileDelete(m) ==
    /\ mach[m] = "deleting"
    /\ IF vm[m].exists
       THEN ~vm[m].del /\ vm' = [vm EXCEPT ![m].del = TRUE] /\ UNCHANGED mach
       ELSE mach' = [mach EXCEPT ![m] = "gone"] /\ UNCHANGED vm
    /\ UNCHANGED <<mdVars, mfd, vmg, cvmg, groupPass, batch>>

-----------------------------------------------------------------------------
(* VM Operator.                                                            *)

\* A VM with a zone label is placed there
PlaceVM(m) ==
    /\ vm[m].exists /\ ~vm[m].del /\ vm[m].zone = None /\ vm[m].label # None
    /\ vm' = [vm EXCEPT ![m].zone = vm[m].label]
    /\ UNCHANGED <<mdVars, machVars, vmg, cvmg, groupPass, batch>>

ZonesOf(d) == {vm[m].zone : m \in Of(d)} \ {None}

\* The others are placed when all members of the group exist; the affinity term
\* of the VMs asks for one zone for each MachineDeployment
PlaceGroup(f) ==
    LET new == {m \in vmg.members : ~vm[m].del /\ vm[m].zone = None /\ vm[m].label = None} IN
    /\ \A m \in vmg.members : vm[m].exists
    /\ new # {}
    /\ \A d \in MDs : f[d] \in (IF ZonesOf(d) # {} THEN ZonesOf(d) ELSE avail)
    /\ vm' = [m \in Machines |-> IF m \in new THEN [vm[m] EXCEPT !.zone = f[MDOf[m]]] ELSE vm[m]]
    /\ UNCHANGED <<mdVars, machVars, vmg, cvmg, groupPass, batch>>

\* The status of the group: the placement of a member, old or new
ReportMember(m) ==
    /\ m \in vmg.members /\ vm[m].zone # None /\ vmg.placed[m] # vm[m].zone
    /\ vmg' = [vmg EXCEPT !.placed[m] = vm[m].zone]
    /\ UNCHANGED <<mdVars, machVars, cvmg, groupPass, vm, batch>>

RemoveVM(m) ==
    /\ vm[m].del
    /\ vm' = [vm EXCEPT ![m] = NoVM]
    /\ UNCHANGED <<mdVars, machVars, vmg, cvmg, groupPass, batch>>

-----------------------------------------------------------------------------

GroupPass == ReconcileGroup \/ WriteGroup
MachinePass(m) == ReconcileNormal(m) \/ ReconcileDelete(m)
Operator(m) == PlaceVM(m) \/ ReportMember(m) \/ RemoveVM(m)
PlaceAll == \E f \in [MDs -> avail] : PlaceGroup(f)

Next ==
    \/ \E d \in MDs : \/ DeleteMD(d)
                      \/ \E n \in 0 .. MaxReplicas : Scale(d, n)
                      \/ \E f \in Choice : SetFailureDomain(d, f)
    \/ \E z \in Zones : AddZone(z)
    \/ \E m \in Machines : CreateMachine(m) \/ DeleteMachine(m) \/ MachinePass(m) \/ Operator(m)
    \/ GroupEvent \/ GroupPass \/ PlaceAll

\* Controllers requeue and resync; informer and VM Operator work.  Nothing is
\* assumed of the user and of the MachineDeployments.
Fairness ==
    /\ WF_vars(GroupEvent) /\ WF_vars(GroupPass) /\ WF_vars(PlaceAll)
    /\ \A m \in Machines : WF_vars(MachinePass(m)) /\ WF_vars(Operator(m))

Spec == Init /\ [][Next]_vars /\ Fairness

-----------------------------------------------------------------------------
(* Properties.                                                             *)

\* The VMs of a MachineDeployment without failure domain of its own are all in
\* one zone, whenever they were created, as long as it is not deleted: a deleted
\* one loses its annotation, and with it what its late VMs would be labelled by.
SameZone ==
    \A d \in MDs \ pinned : ~md[d].del => Cardinality(ZonesOf(d)) <= 1

\* "For VM created during day-2 operation like scaling up, we should expect the
\* failureDomain to be always set" (vmopmachine.go): only VMs of the batch are
\* created without zone label, as long as the MachineDeployment is not deleted.
LateVMsHaveZone ==
    \A m \in Machines : vm[m].exists /\ vm[m].bare /\ ~md[MDOf[m]].del => m \in batch

\* The placement of a MachineDeployment is decided once: the annotation stays,
\* against the writes of VM Operator and outdated copies of the group.
PlacementStays ==
    [][\A d \in MDs \ pinned' :
          ~md'[d].del /\ vmg.ann[d] # None => vmg'.ann[d] = vmg.ann[d]]_vars

\* What makes a machine get its VM: a complete batch of which it is part, or a
\* placement of its MachineDeployment
Admitted(m) ==
    \/ vmg.ann[MDOf[m]] # None
    \/ IF vmg.exists THEN m \in batch ELSE shouldCreateVirtualMachineGroup

\* A complete batch gets its group, the group its placement, and every machine of
\* the batch or of a MachineDeployment that is placed gets ready, however late it
\* was created; unless the batch changes before the group is written.
MachinesGetReady ==
    \A m \in Machines : m \in Live /\ Admitted(m)
                            ~> (mach[m] # "live" \/ md[MDOf[m]].del \/ ~Admitted(m))
=============================================================================
