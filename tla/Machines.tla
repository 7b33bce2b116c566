------------------------------ MODULE Machines ------------------------------
(***************************************************************************)
(* One VSphereMachine and the VSphereVM that is created for it: the        *)
(* VSphereMachine controller (controllers/vspheremachine_controller.go)    *)
(* with its govmomi service (pkg/services/vimmachine.go), composed with    *)
(* what the VSphereVM controller does to the object it creates, with the   *)
(* IPAddressClaims of that controller and with the admission webhooks of   *)
(* the two kinds.                                                          *)
(*                                                                         *)
(*   idle --Reconcile--> find --FindVSphereVM--> get --Get--> patch        *)
(*        --CreateOrPatch--> end --DeferredPatch--> idle                   *)
(*                                                                         *)
(* The two controllers share one informer cache.  A pass of the VSphereVM  *)
(* controller is one step here, VSphereVM.tla has its details; it begins   *)
(* with the lookup of the owner that fails without a VSphereMachine.  A    *)
(* network device is the number of address pools it names, a claim is a    *)
(* pair of a device index and a pool index.  Server, datacenter, folder,   *)
(* resource pool and datastore are one place: that of the failure domain,  *)
(* or the one the VSphereMachine itself asks for, if they differ.          *)
(***************************************************************************)
EXTENDS Naturals, Sequences, FiniteSets

CONSTANTS
    DeviceSpecs,    \* what Spec.Network.Devices of the VSphereMachine may be
    ZoneNetworks,   \* NetworkConfigurations of its failure domain
    Scenarios       \* how often each fault may strike: a set of fault budgets

FaultKinds ==
    { "lag",        \* a pass reads a VSphereVM that is behind the API server
      "edit",       \* a user changes the network devices
      "override",   \* the deployment zone or its failure domain is not found
      "claim",      \* a call for an IPAddressClaim fails
      "patch",      \* a call that writes the VSphereMachine or VSphereVM fails
      "crash" }     \* the manager restarts

ASSUME MachinesAssumption ==
    /\ DeviceSpecs \subseteq Seq(Nat) /\ DeviceSpecs # {}
    /\ ZoneNetworks \in Seq(Nat)
    /\ Scenarios \subseteq [FaultKinds -> Nat]

VARIABLES
    mach, cmach,    \* the VSphereMachine: API server, cache
    svm, csvm,      \* the VSphereVM: API server, cache
    claims,         \* the IPAddressClaims of the VSphereVM
    disk,           \* the virtual machine exists in vCenter
    open,           \* cluster infrastructure and bootstrap data are there
    queued,         \* the VSphereMachine is in its controller's work queue
    pc, obj, base,  \* the pass: place, its copy, the copy as it was read
    first, second,  \* the VSphereVM as findVSphereVM and CreateOrPatch read it
    requeue,        \* the pass returns an error or a RequeueAfter
    misled,         \* a pass took a stale VSphereVM for a deleted one
    reshaped,       \* a patch took an index from the VSphereVM's devices
    faults          \* the faults that may still strike

machVars == <<mach, cmach>>
vmVars   == <<svm, csvm, claims, disk>>
passVars == <<pc, obj, base, first, second, requeue>>
history  == <<misled, reshaped>>
vars     == <<machVars, vmVars, open, queued, passVars, history, faults>>

Strike(f) ==
    /\ faults[f] > 0
    /\ faults' = [faults EXCEPT ![f] = @ - 1]

-----------------------------------------------------------------------------
(* The objects.                                                            *)

Places == {"zone", "own"}

NewMachine(devices, place) ==
    [ exists |-> TRUE, fin |-> FALSE, del |-> FALSE, devices |-> devices,
      place |-> place, pid |-> 0, provisioned |-> FALSE ]

NewVM(devices, place, bios) ==
    [ exists |-> TRUE, fin |-> FALSE, del |-> FALSE, devices |-> devices,
      place |-> place, bios |-> bios, ready |-> FALSE ]

NoMachine == [NewMachine(<<>>, "zone") EXCEPT !.exists = FALSE]
NoVM      == [NewVM(<<>>, "zone", 0) EXCEPT !.exists = FALSE]

\* A deleted object stays until its last finalizer is removed
Marked(o, none) ==
    CASE ~o.exists -> o [] o.exists /\ o.fin -> [o EXCEPT !.del = TRUE] [] OTHER -> none

Larger(a, b) == IF a >= b THEN a ELSE b

\* The networks replace those of the devices with the same index, where they
\* name pools, and are appended beyond the last device
overrideNetworkDeviceSpecs(devices, networks) ==
    [ i \in 1 .. Larger(Len(devices), Len(networks)) |->
        IF i <= Len(networks) /\ (i > Len(devices) \/ networks[i] > 0)
        THEN networks[i] ELSE devices[i] ]

\* The claims of a VSphereVM, by device index and pool index
IPAddressClaims(devices) ==
    { c \in (DOMAIN devices) \X (1 .. 2) : c[2] <= devices[c[1]] }

AllDevices == DeviceSpecs \cup
    { overrideNetworkDeviceSpecs(d, ZoneNetworks) : d \in DeviceSpecs }
AllClaims  == UNION { IPAddressClaims(d) : d \in AllDevices }

\* deleteIPAddressClaims walks the claims in this order
Before(a, b) == a[1] < b[1] \/ (a[1] = b[1] /\ a[2] < b[2])

TypeOK ==
    /\ LET Machine == [ exists : BOOLEAN, fin : BOOLEAN, del : BOOLEAN,
                        devices : DeviceSpecs \cup {<<>>}, place : Places,
                        pid : {0, 1}, provisioned : BOOLEAN ]
           VM == [ exists : BOOLEAN, fin : BOOLEAN, del : BOOLEAN,
                   devices : AllDevices \cup {<<>>}, place : Places,
                   bios : {0, 1}, ready : BOOLEAN ]
       IN  /\ {mach, cmach, obj, base} \subseteq Machine
           /\ {svm, csvm, first, second} \subseteq VM
    /\ claims \in [AllClaims -> {"none", "held", "free"}]
    /\ {disk, open, queued, requeue, misled, reshaped} \subseteq BOOLEAN
    /\ pc \in {"idle", "find", "get", "patch", "end"}
    /\ faults \in [FaultKinds -> Nat]

Init ==
    /\ \E d \in DeviceSpecs, p \in Places : mach = NewMachine(d, p)
    /\ cmach = mach
    /\ svm = NoVM /\ csvm = NoVM
    /\ claims = [c \in AllClaims |-> "none"]
    /\ disk = FALSE /\ open = FALSE /\ queued = TRUE
    /\ pc = "idle" /\ obj = NoMachine /\ base = NoMachine
    /\ first = NoVM /\ second = NoVM
    /\ requeue = FALSE /\ misled = FALSE /\ reshaped = FALSE
    /\ faults \in Scenarios

-----------------------------------------------------------------------------
(* Users, the API server, the garbage collector and the informers.         *)

DeleteMachine ==
    /\ mach.exists /\ ~mach.del
    /\ mach' = Marked(mach, NoMachine)
    /\ UNCHANGED <<cmach, vmVars, open, queued, passVars, history, faults>>

\* The webhook of the VSphereMachine allows changes to the devices
EditDevices ==
    /\ mach.exists /\ ~mach.del
    /\ Strike("edit")
    /\ \E d \in DeviceSpecs \ {mach.devices} : mach' = [mach EXCEPT !.devices = d]
    /\ UNCHANGED <<cmach, vmVars, open, queued, passVars, history>>

\* Cluster and Machine are watched as well: the change queues the machine
ClusterAndBootstrapReady ==
    /\ ~open
    /\ open' = TRUE
    /\ queued' = TRUE
    /\ UNCHANGED <<machVars, vmVars, passVars, history, faults>>

\* The VSphereMachine is the owner of the VSphereVM
CollectVM ==
    /\ ~mach.exists /\ svm.exists /\ ~svm.del
    /\ svm' = Marked(svm, NoVM)
    /\ UNCHANGED <<machVars, csvm, claims, disk, open, queued, passVars, history, faults>>

\* The VSphereVM is the owner of its claims; a finalizer keeps a claim
CollectClaim ==
    /\ ~svm.exists
    /\ \E c \in AllClaims : /\ claims[c] = "free"
                            /\ claims' = [claims EXCEPT ![c] = "none"]
    /\ UNCHANGED <<machVars, svm, csvm, disk, open, queued, passVars, history, faults>>

MachineEvent ==
    /\ cmach # mach
    /\ cmach' = mach
    /\ queued' = TRUE
    /\ UNCHANGED <<mach, vmVars, open, passVars, history, faults>>

\* Creation events are filtered out
VSphereVMEvent ==
    /\ csvm # svm
    /\ csvm' = svm
    /\ queued' = (queued \/ csvm.exists)
    /\ UNCHANGED <<machVars, svm, claims, disk, open, passVars, history, faults>>

Restart ==
    /\ Strike("crash")
    /\ cmach' = mach /\ csvm' = svm
    /\ queued' = TRUE
    /\ pc' = "idle" /\ obj' = NoMachine /\ base' = NoMachine
    /\ first' = NoVM /\ second' = NoVM /\ requeue' = FALSE
    /\ UNCHANGED <<mach, svm, claims, disk, open, history>>

-----------------------------------------------------------------------------
(* The VSphereMachine controller.                                          *)

EndPass(again) == pc' = "end" /\ requeue' = again

\* Reconcile: the finalizer has a pass of its own
Reconcile ==
    /\ pc = "idle" /\ queued
    /\ queued' = FALSE
    /\ IF cmach.exists /\ (cmach.fin \/ cmach.del)
       THEN /\ pc' = "find" /\ obj' = cmach /\ base' = cmach
            /\ UNCHANGED mach
       ELSE /\ mach' = IF cmach.exists /\ mach.exists /\ ~mach.del
                       THEN [mach EXCEPT !.fin = TRUE] ELSE mach
            /\ UNCHANGED <<pc, obj, base>>
    /\ UNCHANGED <<cmach, vmVars, open, first, second, requeue, history, faults>>

\* A read of the cached VSphereVM
ReadVM ==
    \/ csvm = svm /\ UNCHANGED faults
    \/ csvm # svm /\ Strike("lag")

\* As ReconcileDelete, without the wait for the VSphereVM to go
ReconcileDeleteAtOnce ==
    /\ pc = "find" /\ obj.del
    /\ ReadVM
    /\ svm' = Marked(svm, NoVM)
    /\ obj' = [obj EXCEPT !.fin = FALSE]
    /\ EndPass(FALSE)
    /\ UNCHANGED <<machVars, csvm, claims, disk, open, queued, base, first, second, history>>

\* reconcileDelete: the finalizer goes when the VSphereVM is not found
ReconcileDelete ==
    /\ pc = "find" /\ obj.del
    /\ ReadVM
    /\ IF ~csvm.exists \/ (~csvm.del /\ ~svm.exists)
       THEN /\ obj' = [obj EXCEPT !.fin = FALSE]
            /\ misled' = (misled \/ svm.exists)
            /\ EndPass(FALSE)
            /\ UNCHANGED svm
       ELSE /\ svm' = IF csvm.del THEN svm ELSE Marked(svm, NoVM)
            /\ EndPass(TRUE)
            /\ UNCHANGED <<obj, misled>>
    /\ UNCHANGED <<machVars, csvm, claims, disk, open, queued, base, first, second, reshaped>>

\* reconcileNormal up to the read of findVSphereVM
FindVSphereVM ==
    /\ pc = "find" /\ ~obj.del
    /\ IF open
       THEN ReadVM /\ first' = csvm /\ pc' = "get" /\ UNCHANGED requeue
       ELSE EndPass(FALSE) /\ UNCHANGED <<first, faults>>
    /\ UNCHANGED <<machVars, vmVars, open, queued, obj, base, second, history>>

\* CreateOrPatch reads the VSphereVM again
GetVSphereVM ==
    /\ pc = "get"
    /\ ReadVM
    /\ second' = csvm
    /\ pc' = "patch"
    /\ UNCHANGED <<machVars, vmVars, open, queued, obj, base, first, requeue, history>>

\* What the mutate function makes of the VSphereVM it is given: place and devices
\* come from the machine and its failure domain, the BIOS UUID from the first read
Mutated(vm, override) ==
    [ vm EXCEPT !.devices = IF override
                            THEN overrideNetworkDeviceSpecs(obj.devices, ZoneNetworks)
                            ELSE obj.devices,
                !.place = IF override THEN "zone" ELSE obj.place,
                !.bios = IF first.exists THEN first.bios ELSE @ ]

\* The merge patch carries the fields that differ from what was read
MergedVM(want) ==
    [ svm EXCEPT !.devices = IF want.devices # second.devices THEN want.devices ELSE @,
                 !.place = IF want.place # second.place THEN want.place ELSE @,
                 !.bios = IF want.bios # second.bios THEN want.bios ELSE @ ]

\* As ValidateUpdate, without the rule for the BIOS UUID
ValidateUpdateAnyUUID(old, new) == new.place = old.place

\* VSphereVM.ValidateUpdate: the devices may change; a BIOS UUID that is set and
\* the place stay as they are
ValidateUpdate(old, new) ==
    /\ old.bios # 0 => new.bios = old.bios
    /\ new.place = old.place

\* The machine is ready when the VSphereVM that the call returned is, and
\* then takes its BIOS UUID as provider ID
AdoptVM(vm) ==
    IF vm.ready /\ vm.bios # 0
    THEN /\ obj' = [obj EXCEPT !.pid = vm.bios, !.provisioned = TRUE]
         /\ EndPass(FALSE)
    ELSE EndPass(TRUE) /\ UNCHANGED obj

createOrPatchVSphereVM ==
    /\ pc = "patch"
    /\ \E override \in BOOLEAN :
         /\ IF override THEN UNCHANGED faults ELSE Strike("override")
         /\ LET want == Mutated(second, override)
                new  == MergedVM(want)
            IN  CASE ~second.exists /\ ~svm.exists ->      \* Create
                       /\ svm' = NewVM(want.devices, want.place, want.bios)
                       /\ AdoptVM(svm')
                       /\ UNCHANGED reshaped
                  [] ~second.exists /\ svm.exists ->       \* AlreadyExists
                       EndPass(TRUE) /\ UNCHANGED <<svm, obj, reshaped>>
                  [] second.exists /\ want = second ->     \* nothing to patch
                       AdoptVM(want) /\ UNCHANGED <<svm, reshaped>>
                  [] second.exists /\ want # second /\ svm.exists /\ ValidateUpdate(svm, new) ->
                       /\ svm' = new
                       /\ AdoptVM(new)
                       /\ reshaped' = (reshaped \/ ~ (IPAddressClaims(svm.devices)
                                                       \subseteq IPAddressClaims(new.devices)))
                  [] OTHER ->                              \* NotFound or Forbidden
                       EndPass(TRUE) /\ UNCHANGED <<svm, obj, reshaped>>
    /\ UNCHANGED <<machVars, csvm, claims, disk, open, queued, base, first, second, misled>>

\* As CreateOrPatchFails, with the error logged and forgotten
CreateOrPatchFailureIgnored ==
    /\ pc = "patch"
    /\ Strike("patch")
    /\ EndPass(FALSE)
    /\ UNCHANGED <<machVars, vmVars, open, queued, obj, base, first, second, history>>

CreateOrPatchFails ==
    /\ pc = "patch"
    /\ Strike("patch")
    /\ EndPass(TRUE)
    /\ UNCHANGED <<machVars, vmVars, open, queued, obj, base, first, second, history>>

\* The deferred patch of the VSphereMachine
DeferredPatch ==
    /\ pc = "end"
    /\ \/ /\ LET fin == IF obj.fin # base.fin THEN obj.fin ELSE mach.fin
             IN  mach' = IF ~mach.exists \/ (mach.del /\ ~fin) THEN NoMachine
                         ELSE [mach EXCEPT !.fin = fin,
                                 !.pid = IF obj.pid # base.pid THEN obj.pid ELSE @,
                                 !.provisioned = IF obj.provisioned # base.provisioned
                                                 THEN obj.provisioned ELSE @]
          /\ queued' = (queued \/ requeue)
          /\ UNCHANGED faults
       \/ Strike("patch") /\ queued' = TRUE /\ UNCHANGED mach
    /\ pc' = "idle" /\ requeue' = FALSE /\ obj' = NoMachine /\ base' = NoMachine
    /\ first' = NoVM /\ second' = NoVM
    /\ UNCHANGED <<cmach, vmVars, open, history>>

-----------------------------------------------------------------------------
(* The VSphereVM controller, one step for what a pass achieves.            *)

\* Reconcile fails without the owner, GetOwnerVSphereMachine is a cached read
Owned == csvm.exists /\ cmach.exists

AddVMFinalizer ==
    /\ csvm.exists /\ ~csvm.fin
    /\ svm.exists /\ ~svm.del /\ ~svm.fin
    /\ svm' = [svm EXCEPT !.fin = TRUE]
    /\ UNCHANGED <<machVars, csvm, claims, disk, open, queued, passVars, history, faults>>

\* Every claim is tried, whatever happens to the others
reconcileIPAddressClaims ==
    LET missing == { c \in IPAddressClaims(csvm.devices) : claims[c] # "held" }
    IN  /\ Owned /\ csvm.fin /\ ~csvm.del /\ missing # {}
        /\ \E made \in SUBSET missing :
             /\ IF made = missing THEN UNCHANGED faults ELSE Strike("claim")
             /\ claims' = [c \in AllClaims |-> IF c \in made THEN "held" ELSE claims[c]]
        /\ UNCHANGED <<machVars, svm, csvm, disk, open, queued, passVars, history>>

\* ReconcileVM clones the machine when all claims are there
CloneVM ==
    /\ Owned /\ csvm.fin /\ ~csvm.del
    /\ \A c \in IPAddressClaims(csvm.devices) : claims[c] = "held"
    /\ ~disk /\ csvm.bios = 0
    /\ disk' = TRUE
    /\ UNCHANGED <<machVars, svm, csvm, claims, open, queued, passVars, history, faults>>

\* The BIOS UUID and, when there are addresses, the ready status of a machine
ReportVM ==
    /\ Owned /\ csvm.fin /\ ~csvm.del /\ disk /\ ~csvm.ready
    /\ svm.exists
    /\ \E ready \in BOOLEAN :
         /\ svm' = [svm EXCEPT !.bios = IF csvm.bios = 0 THEN 1 ELSE @,
                               !.ready = @ \/ ready]
         /\ svm' # svm
    /\ UNCHANGED <<machVars, csvm, claims, disk, open, queued, passVars, history, faults>>

DestroyVM ==
    /\ Owned /\ csvm.del /\ disk
    /\ disk' = FALSE
    /\ UNCHANGED <<machVars, svm, csvm, claims, open, queued, passVars, history, faults>>

\* As ReleaseVM, with a return after the first device
ReleaseVMOneDevice ==
    LET mine == { c \in IPAddressClaims(csvm.devices) : claims[c] = "held" }
    IN  /\ Owned /\ csvm.del /\ ~disk
        /\ svm.exists
        /\ claims' = [c \in AllClaims |-> IF c \in mine /\ c[1] = 1 THEN "free" ELSE claims[c]]
        /\ svm' = NoVM
        /\ UNCHANGED <<machVars, csvm, disk, open, queued, passVars, history, faults>>

\* As ReleaseVM, with the finalizer left in place
ReleaseVMKeepsFinalizer ==
    LET mine == { c \in IPAddressClaims(csvm.devices) : claims[c] = "held" }
    IN  /\ Owned /\ csvm.del /\ ~disk
        /\ svm.exists /\ mine # {}
        /\ claims' = [c \in AllClaims |-> IF c \in mine THEN "free" ELSE claims[c]]
        /\ UNCHANGED <<machVars, svm, csvm, disk, open, queued, passVars, history, faults>>

\* deleteIPAddressClaims stops at the first error; the finalizer of the
\* VSphereVM goes when it has come through
ReleaseVM ==
    LET mine == { c \in IPAddressClaims(csvm.devices) : claims[c] = "held" }
    IN  /\ Owned /\ csvm.del /\ ~disk
        /\ svm.exists
        /\ \/ /\ claims' = [c \in AllClaims |-> IF c \in mine THEN "free" ELSE claims[c]]
              /\ svm' = NoVM
              /\ UNCHANGED faults
           \/ /\ \E done \in (SUBSET mine) \ {mine} :
                   /\ \A c \in done, d \in mine : Before(d, c) => d \in done
                   /\ claims' = [c \in AllClaims |-> IF c \in done THEN "free" ELSE claims[c]]
              /\ Strike("claim")
              /\ UNCHANGED svm
        /\ UNCHANGED <<machVars, csvm, disk, open, queued, passVars, history>>

-----------------------------------------------------------------------------

MachinePass ==
    \/ Reconcile \/ ReconcileDelete \/ FindVSphereVM \/ GetVSphereVM
    \/ createOrPatchVSphereVM \/ DeferredPatch

VMPass ==
    \/ AddVMFinalizer \/ reconcileIPAddressClaims \/ CloneVM \/ ReportVM
    \/ DestroyVM \/ ReleaseVM

Next ==
    \/ MachinePass \/ VMPass \/ CreateOrPatchFails \/ Restart
    \/ DeleteMachine \/ EditDevices \/ ClusterAndBootstrapReady
    \/ CollectVM \/ CollectClaim \/ MachineEvent \/ VSphereVMEvent

\* Workers take what is queued, informers deliver, the VSphereVM controller
\* reaches its next step, Kubernetes collects what lost its owner
Fairness ==
    /\ WF_vars(MachinePass)
    /\ WF_vars(AddVMFinalizer) /\ WF_vars(reconcileIPAddressClaims)
    /\ WF_vars(CloneVM) /\ WF_vars(ReportVM) /\ WF_vars(DestroyVM) /\ WF_vars(ReleaseVM)
    /\ WF_vars(CollectVM) /\ WF_vars(CollectClaim)
    /\ WF_vars(MachineEvent) /\ WF_vars(VSphereVMEvent)
    /\ WF_vars(ClusterAndBootstrapReady)

Spec == Init /\ [][Next]_vars /\ Fairness

-----------------------------------------------------------------------------
(* Properties.                                                             *)

\* ReconcileDelete waits for the VSphereVM: when the VSphereMachine is gone,
\* so are the VSphereVM and its virtual machine, unless a pass took a cache
\* that had not seen the VSphereVM yet for the proof of its deletion.
NothingLeftBehind == ~mach.exists /\ ~misled => ~svm.exists /\ ~disk

\* The provider ID of a machine is that of the virtual machine behind it, as
\* long as there is a VSphereVM: reconcileProviderID used no stale UUID.
ProviderIDMatches == mach.pid # 0 /\ svm.exists => svm.bios = mach.pid

\* deleteIPAddressClaims goes by the devices of the VSphereVM: when the
\* VSphereVM is gone, no claim keeps the finalizer, unless a change of the
\* devices took away the index of a claim.
ClaimsReleased ==
    ~svm.exists /\ ~reshaped => \A c \in AllClaims : claims[c] # "held"

\* A machine that is not deleted gets provisioned: creation events of the
\* VSphereVM are ignored, refused patches are retried, no wakeup is lost.  Not so
\* when the VSphereVM was created outside its failure domain, because a lookup
\* failed (vimmachine.go:466): every later pass wants to move it there, which the
\* webhook forbids (vspherevm.go:130), and never adopts it.
ComesUp == <>(\/ mach.provisioned \/ mach.del \/ ~mach.exists
              \/ svm.exists /\ svm.place # "zone")

\* A deletion comes to its end, with the claims collected.
GoesDown ==
    mach.del ~> /\ ~mach.exists
                /\ misled \/ reshaped \/ \A c \in AllClaims : claims[c] = "none"
=============================================================================
