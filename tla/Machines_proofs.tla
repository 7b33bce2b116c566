-------------------------- MODULE Machines_proofs --------------------------
(***************************************************************************)
(* Proofs about Machines, for all device layouts, networks and faults.     *)
(*                                                                         *)
(* The argument: the controllers work on copies that are behind, and what  *)
(* makes them safe is that a deletion is seen once and for all.  Over says *)
(* that the cache of the VSphereMachine has the deletion and that no pass  *)
(* works on an older copy; from then on no VSphereVM is created or         *)
(* patched.  A VSphereVM is marked or removed only when Over holds: so     *)
(* whatever a copy says of a VSphereVM, it says of the one and only.       *)
(***************************************************************************)
EXTENDS Machines, TLAPS

MachineType == [ exists : BOOLEAN, fin : BOOLEAN, del : BOOLEAN,
                 devices : DeviceSpecs \cup {<<>>}, place : Places,
                 pid : {0, 1}, provisioned : BOOLEAN ]
VMType == [ exists : BOOLEAN, fin : BOOLEAN, del : BOOLEAN,
            devices : AllDevices \cup {<<>>}, place : Places,
            bios : {0, 1}, ready : BOOLEAN ]

Types ==
    /\ mach \in MachineType /\ cmach \in MachineType
    /\ obj \in MachineType /\ base \in MachineType
    /\ svm \in VMType /\ csvm \in VMType /\ first \in VMType /\ second \in VMType
    /\ claims \in [AllClaims -> {"none", "held", "free"}]
    /\ disk \in BOOLEAN /\ open \in BOOLEAN /\ queued \in BOOLEAN
    /\ requeue \in BOOLEAN /\ misled \in BOOLEAN /\ reshaped \in BOOLEAN
    /\ pc \in {"idle", "find", "get", "patch", "end"}
    /\ faults \in [FaultKinds -> Nat]

\* The deletion of the VSphereMachine is in the cache and in the running pass
Over == (cmach.del \/ ~cmach.exists) /\ (pc # "idle" => obj.del)

\* Nothing has been done for the VSphereMachine
Fresh == pc = "idle" /\ ~cmach.fin /\ ~cmach.del /\ svm = NoVM /\ csvm = NoVM

\* The VSphereMachine and its copy: the finalizer comes first and goes last
InvMachine ==
    /\ (mach.exists => mach.devices \in DeviceSpecs)
    /\ (cmach.exists => cmach.devices \in DeviceSpecs)
    /\ (~cmach.exists => ~mach.exists)
    /\ (cmach.del => cmach.exists /\ (~mach.exists \/ mach.del))
    /\ (mach.exists /\ mach.del => mach.fin)
    /\ (mach.exists /\ ~mach.fin => Fresh)
    /\ (~mach.exists => mach = NoMachine /\ (Fresh \/ Over))

\* The pass: a finalizer that it takes away has nothing left to protect
InvPass ==
    /\ (pc # "idle" => obj.devices \in DeviceSpecs)
    /\ (pc # "idle" /\ obj.del => cmach.del \/ ~cmach.exists)
    /\ (pc \in {"get", "patch"} => ~obj.del)
    /\ (obj.fin # base.fin => pc = "end" /\ obj.del /\ (misled \/ ~svm.exists))
    /\ (pc = "idle" => obj = NoMachine /\ base = NoMachine)
    /\ (~mach.exists /\ ~misled => ~svm.exists)

\* The VSphereVM goes only when the deletion has been seen, and does not come back
InvGone ==
    /\ (svm.del \/ csvm.del => Over)
    /\ (~svm.exists => svm = NoVM)
    /\ (csvm.exists /\ ~svm.exists => Over)
    /\ (first.exists /\ ~svm.exists => Over)
    /\ (second.exists /\ ~svm.exists => Over)
    /\ (~csvm.exists => csvm = NoVM)
    /\ (~first.exists => first = NoVM)
    /\ (~second.exists => second = NoVM)

\* A UUID that some copy holds is that of the VSphereVM
InvUUID ==
    /\ (csvm.bios # 0 => Over \/ svm.exists) /\ (csvm.bios # 0 /\ svm.exists => svm.bios # 0)
    /\ (first.bios # 0 /\ svm.exists => svm.bios # 0)
    /\ (second.bios # 0 /\ svm.exists => svm.bios # 0)
    /\ (mach.pid # 0 => Over \/ svm.exists) /\ (mach.pid # 0 /\ svm.exists => svm.bios # 0)
    /\ (cmach.pid # 0 => Over \/ svm.exists) /\ (cmach.pid # 0 /\ svm.exists => svm.bios # 0)
    /\ (obj.pid # 0 => Over \/ svm.exists) /\ (obj.pid # 0 /\ svm.exists => svm.bios # 0)

\* The VSphereVM has its finalizer before there is anything to clean up
InvFin ==
    /\ (csvm.exists /\ csvm.fin /\ ~csvm.del => svm.exists /\ svm.fin)
    /\ (disk => svm.exists /\ svm.fin)
    /\ (svm.exists /\ ~svm.fin => \A c \in AllClaims : claims[c] # "held")

\* Unless a patch took an index away, every claim that is held is one of the
\* devices of the VSphereVM, which do not change once its deletion is cached
InvClaims ==
    /\ ((\E c \in AllClaims : claims[c] = "held") => svm.exists \/ Over)
    /\ (~svm.exists /\ ~reshaped => \A c \in AllClaims : claims[c] # "held")
    /\ (svm.exists /\ ~reshaped =>
           \A c \in AllClaims : claims[c] = "held" => c \in IPAddressClaims(svm.devices))
    /\ (svm.exists /\ csvm.exists /\ ~reshaped =>
           IPAddressClaims(csvm.devices) \subseteq IPAddressClaims(svm.devices))
    /\ (svm.exists /\ csvm.del => csvm.devices = svm.devices)

IInv ==
    /\ Types /\ InvMachine /\ InvPass /\ InvGone /\ InvUUID /\ InvFin /\ InvClaims

-----------------------------------------------------------------------------
(* Helpers.                                                                *)

\* The type invariant, with its sets written out.
LEMMA TypesOK == Types => TypeOK
  BY DEF Types, TypeOK, MachineType, VMType

\* The objects that stand for nothing have the right types.
LEMMA EmptyTypes ==
    /\ NoMachine \in MachineType /\ NoVM \in VMType
    /\ ~NoMachine.exists /\ ~NoMachine.fin /\ ~NoMachine.del /\ NoMachine.pid = 0
    /\ ~NoVM.exists /\ ~NoVM.fin /\ ~NoVM.del /\ NoVM.bios = 0 /\ ~NoVM.ready
  BY DEF NoMachine, NoVM, NewMachine, NewVM, Places, MachineType, VMType

\* What deleting an object makes of it: with finalizer it is marked.
LEMMA MarkedVM ==
    ASSUME NEW o \in VMType
    PROVE  /\ Marked(o, NoVM) \in VMType
           /\ (~o.exists => Marked(o, NoVM) = o)
           /\ (o.exists /\ o.fin => Marked(o, NoVM) = [o EXCEPT !.del = TRUE])
           /\ (o.exists /\ ~o.fin => Marked(o, NoVM) = NoVM)
  <1>1. o.exists \in BOOLEAN /\ o.fin \in BOOLEAN
    BY DEF VMType
  <1>2. NoVM \in VMType
    BY EmptyTypes
  <1>3. [o EXCEPT !.del = TRUE] \in VMType
    BY DEF VMType
  <1>4. CASE ~o.exists
    BY <1>4, <1>1 DEF Marked
  <1>5. CASE o.exists /\ o.fin
    BY <1>5, <1>1, <1>3 DEF Marked
  <1>6. CASE o.exists /\ ~o.fin
    BY <1>6, <1>1, <1>2 DEF Marked
  <1>. QED BY <1>1, <1>4, <1>5, <1>6

\* The same of the VSphereMachine.
LEMMA MarkedMachine ==
    ASSUME NEW o \in MachineType, o.exists
    PROVE  /\ Marked(o, NoMachine) \in MachineType
           /\ (o.fin => Marked(o, NoMachine) = [o EXCEPT !.del = TRUE])
           /\ (~o.fin => Marked(o, NoMachine) = NoMachine)
  <1>1. o.exists \in BOOLEAN /\ o.fin \in BOOLEAN
    BY DEF MachineType
  <1>2. NoMachine \in MachineType
    BY EmptyTypes
  <1>3. [o EXCEPT !.del = TRUE] \in MachineType
    BY DEF MachineType
  <1>5. CASE o.fin
    BY <1>5, <1>1, <1>3 DEF Marked
  <1>6. CASE ~o.fin
    BY <1>6, <1>1, <1>2 DEF Marked
  <1>. QED BY <1>1, <1>5, <1>6

\* A fault leaves a budget of faults.
LEMMA StrikeType ==
    ASSUME NEW f \in FaultKinds, faults \in [FaultKinds -> Nat], Strike(f)
    PROVE  faults' \in [FaultKinds -> Nat]
  BY DEF Strike

\* A read of the cache keeps the budget a budget.
LEMMA ReadType ==
    ASSUME faults \in [FaultKinds -> Nat], ReadVM
    PROVE  faults' \in [FaultKinds -> Nat]
  BY StrikeType DEF ReadVM, FaultKinds

-----------------------------------------------------------------------------
(* The first state.                                                        *)

\* The inductive invariant holds at first.
LEMMA InitIInv == Init => IInv
  <1> SUFFICES ASSUME Init PROVE IInv
    OBVIOUS
  <1>1. PICK d \in DeviceSpecs, p \in Places : mach = NewMachine(d, p)
    BY DEF Init
  <1>2. mach \in MachineType /\ mach.exists /\ ~mach.fin /\ ~mach.del /\ mach.pid = 0
            /\ mach.devices \in DeviceSpecs
    BY <1>1 DEF NewMachine, MachineType
  <1>3. faults \in [FaultKinds -> Nat]
    BY MachinesAssumption DEF Init
  <1>4. claims \in [AllClaims -> {"none", "held", "free"}] /\ \A c \in AllClaims : claims[c] = "none"
    BY DEF Init
  <1>5. Types
    BY <1>2, <1>3, <1>4, EmptyTypes DEF Types, Init
  <1>6. InvMachine
    BY <1>2, EmptyTypes DEF InvMachine, Init, Fresh
  <1>7. InvPass /\ InvGone /\ InvUUID /\ InvFin
    BY <1>2, EmptyTypes DEF InvPass, InvGone, InvUUID, InvFin, Init
  <1>8. InvClaims
    BY <1>4, EmptyTypes DEF InvClaims, Init
  <1>. QED BY <1>5, <1>6, <1>7, <1>8 DEF IInv

-----------------------------------------------------------------------------
(* Users, the garbage collector and the informers keep the invariant.      *)

\* Deleting the VSphereMachine.
LEMMA DeleteMachineStep == IInv /\ DeleteMachine => IInv'
  <1> SUFFICES ASSUME IInv, DeleteMachine PROVE IInv'
    OBVIOUS
  <1>11. Types'
    BY MarkedMachine DEF IInv, Types, vmVars, passVars, history, DeleteMachine
  <1>12. InvMachine'
    <2>1. mach \in MachineType /\ mach.exists
      BY DEF DeleteMachine, IInv, Types
    <2>2. CASE mach.fin
      <3>1. mach' = [mach EXCEPT !.del = TRUE]
        BY <2>1, <2>2, MarkedMachine DEF DeleteMachine
      <3>2. mach' \in MachineType /\ mach'.exists /\ mach'.fin /\ mach'.del
              /\ mach'.devices = mach.devices
        BY <2>1, <2>2, <3>1 DEF MachineType
      <3>. QED BY <2>1, <3>2 DEF IInv, InvMachine, DeleteMachine
    <2>3. CASE ~mach.fin
      BY <2>1, <2>3, MarkedMachine, EmptyTypes DEF IInv, InvMachine, Fresh,
         DeleteMachine, vmVars, passVars
    <2>. QED BY <2>1, <2>2, <2>3 DEF MachineType
  <1>13. InvPass'
    BY MarkedMachine, EmptyTypes DEF IInv, Types, InvMachine, InvPass, Fresh,
       vmVars, passVars, DeleteMachine, MachineType
  <1>14. InvGone'
    BY DEF IInv, Types, InvGone, Over, vmVars, passVars, DeleteMachine
  <1>15. InvUUID'
    BY MarkedMachine DEF IInv, Types, InvMachine, InvPass, InvUUID, Over, Fresh,
       vmVars, passVars, DeleteMachine, MachineType
  <1>16. InvFin'
    BY DEF IInv, Types, InvFin, vmVars, DeleteMachine
  <1>17. InvClaims'
    BY DEF IInv, Types, InvClaims, Over, vmVars, passVars, history, DeleteMachine
  <1>. QED BY <1>11, <1>12, <1>13, <1>14, <1>15, <1>16, <1>17 DEF IInv

\* Changing its devices.
LEMMA EditDevicesStep == IInv /\ EditDevices => IInv'
  <1> SUFFICES ASSUME IInv, EditDevices PROVE IInv'
    OBVIOUS
  <1>1. faults' \in [FaultKinds -> Nat]
    BY StrikeType DEF IInv, Types, EditDevices, FaultKinds
  <1>11. Types'
    <2>1. mach' \in MachineType
      BY DEF IInv, Types, EditDevices, MachineType
    <2>. QED BY <1>1, <2>1 DEF IInv, Types, EditDevices, vmVars, passVars, history
  <1>12. InvMachine'
    BY <1>1 DEF IInv, Types, InvMachine, Fresh, vmVars, passVars, EditDevices
  <1>13. InvPass'
    BY <1>1 DEF IInv, Types, InvPass, vmVars, passVars, history, EditDevices
  <1>14. InvGone'
    BY <1>1 DEF IInv, Types, InvGone, Over, vmVars, passVars, EditDevices
  <1>15. InvUUID'
    BY <1>1 DEF IInv, Types, InvUUID, Over, vmVars, passVars, EditDevices
  <1>16. InvFin'
    BY <1>1 DEF IInv, Types, InvFin, vmVars, EditDevices
  <1>17. InvClaims'
    BY <1>1 DEF IInv, Types, InvClaims, Over, vmVars, passVars, history, EditDevices
  <1>. QED BY <1>11, <1>12, <1>13, <1>14, <1>15, <1>16, <1>17 DEF IInv

\* The cluster and the bootstrap data get ready.
LEMMA ClusterAndBootstrapReadyStep == IInv /\ ClusterAndBootstrapReady => IInv'
  <1> SUFFICES ASSUME IInv, ClusterAndBootstrapReady PROVE IInv'
    OBVIOUS
  <1>11. Types'
    BY DEF IInv, Types, machVars, vmVars, passVars, history,
       ClusterAndBootstrapReady
  <1>12. InvMachine'
    BY DEF IInv, Types, InvMachine, Over, Fresh, machVars, vmVars, passVars,
       ClusterAndBootstrapReady
  <1>13. InvPass'
    BY DEF IInv, Types, InvPass, machVars, vmVars, passVars, history,
       ClusterAndBootstrapReady
  <1>14. InvGone'
    BY DEF IInv, Types, InvGone, Over, machVars, vmVars, passVars,
       ClusterAndBootstrapReady
  <1>15. InvUUID'
    BY DEF IInv, Types, InvUUID, Over, machVars, vmVars, passVars,
       ClusterAndBootstrapReady
  <1>16. InvFin'
    BY DEF IInv, Types, InvFin, vmVars, ClusterAndBootstrapReady
  <1>17. InvClaims'
    BY DEF IInv, Types, InvClaims, Over, machVars, vmVars, passVars, history,
       ClusterAndBootstrapReady
  <1>. QED BY <1>11, <1>12, <1>13, <1>14, <1>15, <1>16, <1>17 DEF IInv

\* The garbage collector deletes the VSphereVM.
LEMMA CollectVMStep == IInv /\ CollectVM => IInv'
  <1> SUFFICES ASSUME IInv, CollectVM PROVE IInv'
    OBVIOUS
  <1>11. Types'
    BY MarkedVM DEF IInv, Types, machVars, passVars, history, CollectVM
  <1>12. InvMachine'
    BY EmptyTypes DEF IInv, Types, InvMachine, Over, Fresh, machVars, passVars,
       CollectVM
  <1>13. InvPass'
    BY DEF IInv, Types, InvPass, machVars, passVars, history, CollectVM
  <1>14. InvGone'
    BY MarkedVM, EmptyTypes DEF IInv, Types, InvMachine, InvGone, Over, Fresh,
       machVars, passVars, CollectVM, VMType
  <1>15. InvUUID'
    BY MarkedVM, EmptyTypes DEF IInv, Types, InvMachine, InvUUID, Over, Fresh,
       machVars, passVars, CollectVM, VMType
  <1>16. InvFin'
    BY MarkedVM DEF IInv, Types, InvFin, CollectVM, VMType
  <1>17. InvClaims'
    BY MarkedVM, EmptyTypes DEF IInv, Types, InvFin, InvClaims, history, CollectVM,
       VMType
  <1>. QED BY <1>11, <1>12, <1>13, <1>14, <1>15, <1>16, <1>17 DEF IInv

\* The garbage collector removes a claim.
LEMMA CollectClaimStep == IInv /\ CollectClaim => IInv'
  <1> SUFFICES ASSUME IInv, CollectClaim PROVE IInv'
    OBVIOUS
  <1>11. Types'
    BY DEF IInv, Types, machVars, passVars, history, CollectClaim
  <1>12. InvMachine'
    BY DEF IInv, Types, InvMachine, Over, Fresh, machVars, passVars, CollectClaim
  <1>13. InvPass'
    BY DEF IInv, Types, InvPass, machVars, passVars, CollectClaim
  <1>14. InvGone'
    BY DEF IInv, Types, InvGone, Over, machVars, passVars, CollectClaim
  <1>15. InvUUID'
    BY DEF IInv, Types, InvUUID, Over, machVars, passVars, CollectClaim
  <1>16. InvFin'
    BY DEF IInv, Types, InvFin, CollectClaim
  <1>17. InvClaims'
    BY DEF IInv, Types, InvClaims, Over, machVars, passVars, history, CollectClaim
  <1>. QED BY <1>11, <1>12, <1>13, <1>14, <1>15, <1>16, <1>17 DEF IInv

\* The cache of the VSphereMachine catches up.
LEMMA MachineEventStep == IInv /\ MachineEvent => IInv'
  <1> SUFFICES ASSUME IInv, MachineEvent PROVE IInv'
    OBVIOUS
  <1>11. Types'
    BY DEF IInv, Types, vmVars, passVars, history, MachineEvent
  <1>12. InvMachine'
    BY EmptyTypes DEF IInv, Types, InvMachine, Over, Fresh, vmVars, passVars,
       MachineEvent
  <1>13. InvPass'
    BY DEF IInv, Types, InvMachine, InvPass, vmVars, passVars, history, MachineEvent
  <1>14. InvGone'
    BY DEF IInv, Types, InvMachine, InvGone, Over, vmVars, passVars, MachineEvent
  <1>15. InvUUID'
    BY DEF IInv, Types, InvMachine, InvUUID, Over, vmVars, passVars, MachineEvent
  <1>16. InvFin'
    BY DEF IInv, Types, InvFin, vmVars, MachineEvent
  <1>17. InvClaims'
    BY DEF IInv, Types, InvMachine, InvClaims, Over, vmVars, passVars, history,
       MachineEvent
  <1>. QED BY <1>11, <1>12, <1>13, <1>14, <1>15, <1>16, <1>17 DEF IInv

\* The cache of the VSphereVM catches up.
LEMMA VSphereVMEventStep == IInv /\ VSphereVMEvent => IInv'
  <1> SUFFICES ASSUME IInv, VSphereVMEvent PROVE IInv'
    OBVIOUS
  <1>11. Types'
    BY DEF IInv, Types, machVars, passVars, history, VSphereVMEvent
  <1>12. InvMachine'
    BY DEF IInv, Types, InvMachine, Over, Fresh, machVars, passVars, VSphereVMEvent
  <1>13. InvPass'
    BY DEF IInv, Types, InvPass, machVars, passVars, history, VSphereVMEvent
  <1>14. InvGone'
    BY DEF IInv, Types, InvGone, Over, machVars, passVars, VSphereVMEvent
  <1>15. InvUUID'
    BY DEF IInv, Types, InvGone, InvUUID, Over, machVars, passVars, VSphereVMEvent
  <1>16. InvFin'
    BY DEF IInv, Types, InvFin, VSphereVMEvent
  <1>17. InvClaims'
    BY DEF IInv, Types, InvClaims, Over, machVars, passVars, history, VSphereVMEvent
  <1>. QED BY <1>11, <1>12, <1>13, <1>14, <1>15, <1>16, <1>17 DEF IInv

\* The manager restarts.
LEMMA RestartStep == IInv /\ Restart => IInv'
  <1> SUFFICES ASSUME IInv, Restart PROVE IInv'
    OBVIOUS
  <1>1. faults' \in [FaultKinds -> Nat]
    BY StrikeType DEF IInv, Types, Restart, FaultKinds
  <1>11. Types'
    BY <1>1, EmptyTypes DEF IInv, Types, Restart, history
  <1>12. InvMachine'
    BY <1>1, EmptyTypes DEF IInv, Types, InvMachine, Over, Fresh, Restart
  <1>13. InvPass'
    BY <1>1 DEF IInv, Types, InvPass, history, Restart
  <1>14. InvGone'
    BY <1>1 DEF IInv, Types, InvMachine, InvGone, Over, Restart
  <1>15. InvUUID'
    BY <1>1, EmptyTypes DEF IInv, Types, InvMachine, InvGone, InvUUID, Over, Restart
  <1>16. InvFin'
    BY <1>1 DEF IInv, Types, InvFin, Restart
  <1>17. InvClaims'
    BY <1>1 DEF IInv, Types, InvMachine, InvClaims, Over, history, Restart
  <1>. QED BY <1>11, <1>12, <1>13, <1>14, <1>15, <1>16, <1>17 DEF IInv

-----------------------------------------------------------------------------
(* The passes of the VSphereMachine controller keep it.                    *)

\* A pass begins, or the finalizer is added.
LEMMA ReconcileStep == IInv /\ Reconcile => IInv'
  <1> SUFFICES ASSUME IInv, Reconcile PROVE IInv'
    OBVIOUS
  <1>11. Types'
    <2>1. mach' \in MachineType
      BY DEF IInv, Types, Reconcile, MachineType
    <2>. QED BY <2>1 DEF IInv, Types, Reconcile, vmVars, history
  <1>12. InvMachine'
    BY DEF IInv, Types, InvMachine, Over, Fresh, vmVars, Reconcile, MachineType
  <1>13. InvPass'
    BY DEF IInv, Types, InvMachine, InvPass, vmVars, history, Reconcile, MachineType
  <1>14. InvGone'
    BY DEF IInv, Types, InvGone, Over, vmVars, Reconcile
  <1>15. InvUUID'
    BY DEF IInv, Types, InvUUID, Over, vmVars, Reconcile, MachineType
  <1>16. InvFin'
    BY DEF IInv, Types, InvFin, vmVars, Reconcile
  <1>17. InvClaims'
    BY DEF IInv, Types, InvClaims, Over, vmVars, history, Reconcile
  <1>. QED BY <1>11, <1>12, <1>13, <1>14, <1>15, <1>16, <1>17 DEF IInv

\* The deletion of a VSphereMachine.
LEMMA ReconcileDeleteStep == IInv /\ ReconcileDelete => IInv'
  <1> SUFFICES ASSUME IInv, ReconcileDelete PROVE IInv'
    OBVIOUS
  <1>1. faults' \in [FaultKinds -> Nat]
    BY ReadType DEF IInv, Types, ReconcileDelete
  <1>2. /\ svm \in VMType /\ obj \in MachineType /\ pc = "find" /\ obj.del /\ pc' = "end"
        /\ UNCHANGED <<mach, cmach, csvm, claims, disk, open, queued, base, first, second, reshaped>>
        /\ requeue' \in BOOLEAN
    BY DEF IInv, Types, ReconcileDelete, EndPass, machVars
  <1>3. Over
    BY <1>2 DEF IInv, InvPass, Over
  <1>4. /\ obj' \in MachineType /\ obj'.del /\ obj'.pid = obj.pid /\ obj'.devices = obj.devices
        /\ (obj'.fin # obj.fin => misled' \/ ~svm.exists)
        /\ (obj'.fin # obj.fin => svm' = svm)
        /\ misled' \in BOOLEAN /\ (misled => misled')
    BY <1>2 DEF IInv, Types, ReconcileDelete, MachineType
  <1>5. \/ svm' = svm
        \/ svm.exists /\ svm.fin /\ svm' = [svm EXCEPT !.del = TRUE]
        \/ svm.exists /\ ~svm.fin /\ svm' = NoVM
    BY <1>2, MarkedVM DEF ReconcileDelete, VMType
  <1>6. svm' \in VMType /\ (svm'.exists => svm.exists /\ svm'.bios = svm.bios /\ svm'.fin = svm.fin
                                            /\ svm'.devices = svm.devices)
    BY <1>2, <1>5, EmptyTypes DEF VMType
  <1>7. (~svm'.exists => svm' = NoVM \/ svm' = svm) /\ (svm.exists /\ ~svm'.exists => ~svm.fin)
    BY <1>2, <1>5, EmptyTypes DEF VMType
  <1>8. Over'
    BY <1>2, <1>3, <1>4 DEF Over
  <1>11. Types'
    BY <1>1, <1>2, <1>4, <1>6 DEF IInv, Types
  <1>12. InvMachine'
    BY <1>2, <1>3, <1>4, <1>6, <1>7, <1>8 DEF IInv, Types, InvMachine, Over
  <1>13. InvPass'
    BY <1>2, <1>3, <1>4, <1>6, <1>7, <1>8 DEF IInv, Types, InvPass
  <1>14. InvGone'
    BY <1>2, <1>3, <1>4, <1>6, <1>7, <1>8 DEF IInv, Types, InvGone
  <1>15. InvUUID'
    BY <1>2, <1>3, <1>4, <1>6, <1>7, <1>8 DEF IInv, Types, InvUUID
  <1>16. InvFin'
    BY <1>2, <1>3, <1>4, <1>6, <1>7, <1>8 DEF IInv, Types, InvFin
  <1>17. InvClaims'
    BY <1>2, <1>3, <1>4, <1>6, <1>7, <1>8 DEF IInv, Types, InvFin, InvClaims
  <1>. QED BY <1>11, <1>12, <1>13, <1>14, <1>15, <1>16, <1>17 DEF IInv

\* The first read of the VSphereVM.
LEMMA FindVSphereVMStep == IInv /\ FindVSphereVM => IInv'
  <1> SUFFICES ASSUME IInv, FindVSphereVM PROVE IInv'
    OBVIOUS
  <1>1. faults' \in [FaultKinds -> Nat]
    BY ReadType DEF IInv, Types, FindVSphereVM
  <1>11. Types'
    <2>1. first' \in VMType /\ requeue' \in BOOLEAN /\ pc' \in {"get", "end"}
      BY DEF IInv, Types, FindVSphereVM, EndPass
    <2>. QED BY <1>1, <2>1 DEF IInv, Types, FindVSphereVM, machVars, vmVars, history
  <1>12. InvMachine'
    BY <1>1 DEF IInv, Types, InvMachine, Over, Fresh, machVars, FindVSphereVM
  <1>13. InvPass'
    BY <1>1 DEF IInv, Types, InvPass, machVars, vmVars, history, FindVSphereVM,
       EndPass
  <1>14. InvGone'
    BY <1>1 DEF IInv, Types, InvGone, Over, vmVars, FindVSphereVM
  <1>15. InvUUID'
    BY <1>1 DEF IInv, Types, InvUUID, Over, machVars, vmVars, FindVSphereVM
  <1>16. InvFin'
    BY <1>1 DEF IInv, Types, InvFin, vmVars, FindVSphereVM
  <1>17. InvClaims'
    BY <1>1 DEF IInv, Types, InvClaims, Over, vmVars, history, FindVSphereVM
  <1>. QED BY <1>11, <1>12, <1>13, <1>14, <1>15, <1>16, <1>17 DEF IInv

\* The second read of the VSphereVM.
LEMMA GetVSphereVMStep == IInv /\ GetVSphereVM => IInv'
  <1> SUFFICES ASSUME IInv, GetVSphereVM PROVE IInv'
    OBVIOUS
  <1>1. faults' \in [FaultKinds -> Nat]
    BY ReadType DEF IInv, Types, GetVSphereVM
  <1>11. Types'
    BY <1>1 DEF IInv, Types, machVars, vmVars, history, GetVSphereVM
  <1>12. InvMachine'
    BY <1>1 DEF IInv, Types, InvMachine, Over, Fresh, machVars, GetVSphereVM
  <1>13. InvPass'
    BY <1>1 DEF IInv, Types, InvPass, machVars, vmVars, history, GetVSphereVM
  <1>14. InvGone'
    BY <1>1 DEF IInv, Types, InvGone, Over, machVars, vmVars, GetVSphereVM
  <1>15. InvUUID'
    BY <1>1 DEF IInv, Types, InvUUID, Over, machVars, vmVars, GetVSphereVM
  <1>16. InvFin'
    BY <1>1 DEF IInv, Types, InvFin, vmVars, GetVSphereVM
  <1>17. InvClaims'
    BY <1>1 DEF IInv, Types, InvClaims, Over, machVars, vmVars, history,
       GetVSphereVM
  <1>. QED BY <1>11, <1>12, <1>13, <1>14, <1>15, <1>16, <1>17 DEF IInv

\* What a call of CreateOrPatch makes of the VSphereVM and of the copy of the
\* VSphereMachine, for the devices, the place and the UUID that the mutate
\* function sets
Outcome(devices, place, bios) ==
    \/ UNCHANGED <<svm, obj, reshaped>>
    \/ /\ ~second.exists /\ ~svm.exists
       /\ svm' = NewVM(devices, place, bios)
       /\ AdoptVM(svm') /\ UNCHANGED reshaped
    \/ /\ second.exists /\ second.bios = bios
       /\ AdoptVM(second) /\ UNCHANGED <<svm, reshaped>>
    \/ /\ second.exists /\ svm.exists
       /\ svm' = [svm EXCEPT !.devices = IF devices # second.devices THEN devices ELSE @,
                             !.place = IF place # second.place THEN place ELSE @,
                             !.bios = IF bios # second.bios THEN bios ELSE @]
       /\ (svm.bios # 0 => svm'.bios = svm.bios)
       /\ AdoptVM(svm')
       /\ reshaped' = (reshaped \/ ~ (IPAddressClaims(svm.devices)
                                       \subseteq IPAddressClaims(svm'.devices)))

\* CreateOrPatch.
LEMMA CreateOrPatchStep == IInv /\ createOrPatchVSphereVM => IInv'
  <1> SUFFICES ASSUME IInv, createOrPatchVSphereVM PROVE IInv'
    OBVIOUS
  <1>1. /\ pc = "patch" /\ pc' = "end" /\ ~obj.del
        /\ UNCHANGED <<mach, cmach, csvm, claims, disk, open, queued, base, first, second, misled>>
        /\ obj \in MachineType /\ svm \in VMType /\ first \in VMType /\ second \in VMType
        /\ obj.devices \in DeviceSpecs
    <2>1. pc' = "end"
      BY DEF createOrPatchVSphereVM, AdoptVM, EndPass
    <2>. QED BY <2>1 DEF createOrPatchVSphereVM, machVars, IInv, Types, InvPass
  <1>2. ~Over
    BY <1>1 DEF Over
  <1>3. faults' \in [FaultKinds -> Nat]
    BY StrikeType DEF IInv, Types, createOrPatchVSphereVM, FaultKinds
  <1>4. PICK devices, place, bios :
          /\ devices \in AllDevices /\ place \in Places /\ bios = (IF first.exists THEN first.bios ELSE second.bios)
          /\ Outcome(devices, place, bios)
    <2>1. PICK override \in BOOLEAN :
            LET want == Mutated(second, override)
                new  == MergedVM(want)
            IN  CASE ~second.exists /\ ~svm.exists ->
                       /\ svm' = NewVM(want.devices, want.place, want.bios)
                       /\ AdoptVM(svm')
                       /\ UNCHANGED reshaped
                  [] ~second.exists /\ svm.exists ->
                       EndPass(TRUE) /\ UNCHANGED <<svm, obj, reshaped>>
                  [] second.exists /\ want = second ->
                       AdoptVM(want) /\ UNCHANGED <<svm, reshaped>>
                  [] second.exists /\ want # second /\ svm.exists /\ ValidateUpdate(svm, new) ->
                       /\ svm' = new
                       /\ AdoptVM(new)
                       /\ reshaped' = (reshaped \/ ~ (IPAddressClaims(svm.devices)
                                                       \subseteq IPAddressClaims(new.devices)))
                  [] OTHER ->
                       EndPass(TRUE) /\ UNCHANGED <<svm, obj, reshaped>>
      BY DEF createOrPatchVSphereVM
    <2>. DEFINE devices == IF override THEN overrideNetworkDeviceSpecs(obj.devices, ZoneNetworks)
                           ELSE obj.devices
                place == IF override THEN "zone" ELSE obj.place
                bios == IF first.exists THEN first.bios ELSE second.bios
                want == Mutated(second, override)
                new == MergedVM(want)
    <2>2. devices \in AllDevices /\ place \in Places
      BY <1>1 DEF AllDevices, MachineType, Places
    <2>3. want = [second EXCEPT !.devices = devices, !.place = place, !.bios = bios]
      BY DEF Mutated
    <2>4. want.devices = devices /\ want.place = place /\ want.bios = bios /\ want.ready = second.ready /\ want \in VMType
      BY <1>1, <2>2, <2>3 DEF VMType
    <2>. HIDE DEF want, devices, place, bios
    <2>5. Outcome(devices, place, bios)
      <3>1. CASE ~second.exists /\ ~svm.exists
        BY <2>1, <2>4, <3>1 DEF Outcome, want
      <3>2. CASE ~second.exists /\ svm.exists
        BY <2>1, <3>2 DEF Outcome
      <3>3. CASE second.exists /\ want = second
        BY <2>1, <2>4, <3>3 DEF Outcome, want
      <3>4. CASE second.exists /\ want # second /\ svm.exists /\ ValidateUpdate(svm, new)
        BY <2>1, <2>4, <3>4 DEF Outcome, want, MergedVM, ValidateUpdate
      <3>5. CASE second.exists /\ want # second /\ ~(svm.exists /\ ValidateUpdate(svm, new))
        BY <2>1, <3>5 DEF Outcome, want, new
      <3>. QED BY <3>1, <3>2, <3>3, <3>4, <3>5
    <2>. QED BY <2>2, <2>5 DEF bios
  <1>5. bios \in {0, 1} /\ (~svm.exists => bios = 0 /\ ~csvm.exists /\ ~first.exists)
    BY <1>1, <1>2, <1>4, EmptyTypes DEF IInv, InvGone, VMType
  <1>6. \/ svm' = svm /\ reshaped' = reshaped
        \/ /\ ~svm.exists /\ svm' \in VMType /\ svm'.exists /\ ~svm'.fin /\ ~svm'.del
           /\ reshaped' = reshaped
        \/ /\ svm.exists /\ svm' \in VMType /\ svm'.exists
           /\ svm'.fin = svm.fin /\ svm'.del = svm.del
           /\ (svm.bios # 0 => svm'.bios = svm.bios)
           /\ reshaped' = (reshaped \/ ~ (IPAddressClaims(svm.devices)
                                           \subseteq IPAddressClaims(svm'.devices)))
    <2>1. CASE UNCHANGED <<svm, reshaped>>
      BY <2>1
    <2>2. CASE ~second.exists /\ ~svm.exists /\ svm' = NewVM(devices, place, bios) /\ UNCHANGED reshaped
      BY <1>4, <1>5, <2>2 DEF NewVM, VMType
    <2>3. CASE /\ second.exists /\ svm.exists
               /\ svm' = [svm EXCEPT !.devices = IF devices # second.devices THEN devices ELSE @,
                                     !.place = IF place # second.place THEN place ELSE @,
                                     !.bios = IF bios # second.bios THEN bios ELSE @]
               /\ (svm.bios # 0 => svm'.bios = svm.bios)
               /\ reshaped' = (reshaped \/ ~ (IPAddressClaims(svm.devices)
                                               \subseteq IPAddressClaims(svm'.devices)))
      BY <1>1, <1>4, <1>5, <2>3 DEF VMType
    <2>. QED BY <1>4, <2>1, <2>2, <2>3 DEF Outcome
  <1>7. svm' \in VMType /\ reshaped' \in BOOLEAN
    BY <1>1, <1>6 DEF IInv, Types
  <1>8. /\ obj' \in MachineType /\ obj'.del = obj.del /\ obj'.fin = obj.fin
        /\ obj'.devices = obj.devices /\ requeue' \in BOOLEAN
        /\ (obj'.pid = obj.pid \/ (svm'.exists /\ svm'.bios # 0))
    <2>1. \/ obj' = obj
          \/ second.exists /\ svm' = svm /\ AdoptVM(second)
          \/ svm'.exists /\ AdoptVM(svm')
      <3>1. NewVM(devices, place, bios).exists
        BY DEF NewVM
      <3>2. svm.exists => svm'.exists
        BY <1>6
      <3>. QED BY <1>4, <3>1, <3>2 DEF Outcome
    <2>2. requeue' \in BOOLEAN
      BY DEF createOrPatchVSphereVM, AdoptVM, EndPass
    <2>3. second.exists /\ second.bios # 0 => svm.exists /\ svm.bios # 0
      BY <1>1, <1>2 DEF IInv, InvGone, InvUUID
    <2>4. \A vm \in VMType : AdoptVM(vm) =>
             \/ obj' = obj
             \/ vm.bios # 0 /\ obj' = [obj EXCEPT !.pid = vm.bios, !.provisioned = TRUE]
      BY DEF AdoptVM
    <2>5. \/ obj' = obj
          \/ \E b \in {0, 1} : /\ b # 0 /\ svm'.exists /\ svm'.bios # 0
                                /\ obj' = [obj EXCEPT !.pid = b, !.provisioned = TRUE]
      BY <1>1, <1>7, <2>1, <2>3, <2>4 DEF VMType
    <2>. QED BY <1>1, <2>2, <2>5 DEF MachineType
  <1>9. Over' <=> Over
    BY <1>1, <1>8 DEF Over
  <1>11. Types'
    BY <1>1, <1>3, <1>7, <1>8 DEF IInv, Types
  <1>12. InvMachine'
    BY <1>1, <1>2, <1>6, <1>7, <1>8, <1>9 DEF IInv, Types, InvMachine, Fresh
  <1>13. InvPass'
    BY <1>1, <1>2, <1>6, <1>7, <1>8, <1>9 DEF IInv, InvMachine, InvPass, Fresh
  <1>14. InvGone'
    BY <1>1, <1>2, <1>6, <1>7, <1>8, <1>9 DEF IInv, Types, InvMachine, InvGone, Fresh
  <1>15. InvUUID'
    BY <1>1, <1>2, <1>6, <1>7, <1>8, <1>9, <1>5 DEF IInv, Types, InvGone, InvUUID
  <1>16. InvFin'
    BY <1>1, <1>2, <1>6, <1>7, <1>8, <1>9, <1>5 DEF IInv, InvClaims, InvFin
  <1>17. InvClaims'
    BY <1>1, <1>2, <1>6, <1>7, <1>8, <1>9 DEF IInv, Types, InvGone, InvClaims
  <1>. QED BY <1>11, <1>12, <1>13, <1>14, <1>15, <1>16, <1>17 DEF IInv

\* The call that writes the VSphereVM fails.
LEMMA CreateOrPatchFailsStep == IInv /\ CreateOrPatchFails => IInv'
  <1> SUFFICES ASSUME IInv, CreateOrPatchFails PROVE IInv'
    OBVIOUS
  <1>1. faults' \in [FaultKinds -> Nat]
    BY StrikeType DEF IInv, Types, CreateOrPatchFails, FaultKinds
  <1>11. Types'
    BY <1>1 DEF IInv, Types, machVars, vmVars, history, CreateOrPatchFails, EndPass
  <1>12. InvMachine'
    BY <1>1 DEF IInv, Types, InvMachine, Over, Fresh, machVars, CreateOrPatchFails
  <1>13. InvPass'
    BY <1>1 DEF IInv, Types, InvPass, machVars, vmVars, history, CreateOrPatchFails,
       EndPass
  <1>14. InvGone'
    BY <1>1 DEF IInv, Types, InvGone, Over, machVars, vmVars, CreateOrPatchFails
  <1>15. InvUUID'
    BY <1>1 DEF IInv, Types, InvUUID, Over, machVars, vmVars, CreateOrPatchFails
  <1>16. InvFin'
    BY <1>1 DEF IInv, Types, InvFin, vmVars, CreateOrPatchFails
  <1>17. InvClaims'
    BY <1>1 DEF IInv, Types, InvClaims, Over, machVars, vmVars, history,
       CreateOrPatchFails
  <1>. QED BY <1>11, <1>12, <1>13, <1>14, <1>15, <1>16, <1>17 DEF IInv

\* The deferred patch.
LEMMA DeferredPatchStep == IInv /\ DeferredPatch => IInv'
  <1> SUFFICES ASSUME IInv, DeferredPatch PROVE IInv'
    OBVIOUS
  <1>1. faults' \in [FaultKinds -> Nat]
    BY StrikeType DEF IInv, Types, DeferredPatch, FaultKinds
  <1>2. /\ mach \in MachineType /\ obj \in MachineType /\ base \in MachineType /\ pc = "end" /\ pc' = "idle"
        /\ requeue' = FALSE /\ obj' = NoMachine /\ base' = NoMachine /\ first' = NoVM /\ second' = NoVM
        /\ UNCHANGED <<cmach, svm, csvm, claims, disk, open, misled, reshaped>>
    BY DEF IInv, Types, DeferredPatch, vmVars, history
  <1>3. queued' \in BOOLEAN
    BY DEF IInv, Types, DeferredPatch
  <1>4. \/ mach' = mach
        \/ mach' = NoMachine /\ (mach.exists => obj.fin # base.fin \/ ~mach.fin)
        \/ /\ mach.exists /\ mach' \in MachineType /\ mach'.exists /\ mach'.del = mach.del
           /\ mach'.devices = mach.devices /\ (mach'.pid = mach.pid \/ mach'.pid = obj.pid)
           /\ (mach'.fin = mach.fin \/ obj.fin # base.fin) /\ (mach.del => mach'.fin)
    <2>. DEFINE fin == IF obj.fin # base.fin THEN obj.fin ELSE mach.fin
                pid == IF obj.pid # base.pid THEN obj.pid ELSE mach.pid
                done == IF obj.provisioned # base.provisioned
                        THEN obj.provisioned ELSE mach.provisioned
    <2>1. \/ mach' = mach
          \/ mach' = NoMachine /\ (~mach.exists \/ (mach.del /\ ~fin))
          \/ /\ mach.exists /\ ~(mach.del /\ ~fin)
             /\ mach' = [mach EXCEPT !.fin = fin, !.pid = pid, !.provisioned = done]
      BY DEF DeferredPatch
    <2>2. fin \in BOOLEAN /\ pid \in {0, 1} /\ done \in BOOLEAN
      BY <1>2 DEF MachineType
    <2>3. (fin = mach.fin \/ obj.fin # base.fin) /\ (pid = mach.pid \/ pid = obj.pid)
      OBVIOUS
    <2>. HIDE DEF fin, pid, done
    <2>4. CASE /\ mach.exists /\ ~(mach.del /\ ~fin)
               /\ mach' = [mach EXCEPT !.fin = fin, !.pid = pid, !.provisioned = done]
      <3>1. mach' \in MachineType
        BY <1>2, <2>2, <2>4 DEF MachineType
      <3>2. /\ mach'.exists = mach.exists /\ mach'.del = mach.del /\ mach'.devices = mach.devices
            /\ mach'.fin = fin /\ mach'.pid = pid
        BY <1>2, <2>4 DEF MachineType
      <3>. QED BY <2>2, <2>3, <2>4, <3>1, <3>2
    <2>5. CASE mach' = NoMachine /\ (~mach.exists \/ (mach.del /\ ~fin))
      BY <2>2, <2>3, <2>5
    <2>. QED BY <2>1, <2>4, <2>5
  <1>5. mach' \in MachineType
    BY <1>2, <1>4, EmptyTypes
  <1>6. Over => Over'
    BY <1>2 DEF Over
  <1>7. mach.exists => mach.fin
    BY <1>2 DEF IInv, InvMachine, Fresh
  <1>8. mach.exists /\ ~mach'.exists => Over /\ (misled \/ ~svm.exists)
    BY <1>2, <1>4, <1>7 DEF IInv, InvPass, Over
  <1>9. obj.fin # base.fin => ~mach.exists \/ mach.del
    BY <1>2 DEF IInv, InvMachine, InvPass
  <1>10. mach'.exists => mach.exists /\ mach'.fin /\ mach'.del = mach.del /\ mach'.devices = mach.devices
    BY <1>2, <1>4, <1>7, <1>9, EmptyTypes DEF MachineType
  <1>11. Types'
    BY <1>1, <1>2, <1>3, <1>5, EmptyTypes DEF IInv, Types
  <1>12. InvMachine'
    BY <1>2, <1>4, <1>5, <1>6, <1>7, <1>8, <1>10 DEF IInv, InvMachine, Fresh
  <1>13. InvPass'
    BY <1>2, <1>4, <1>5, <1>6, <1>7, <1>8, <1>10 DEF IInv, InvPass
  <1>14. InvGone'
    BY <1>2, <1>4, <1>5, <1>6, <1>7, <1>8, <1>10 DEF IInv, InvGone
  <1>15. InvUUID'
    BY <1>2, <1>4, <1>5, <1>6, <1>7, <1>8, <1>10, EmptyTypes DEF IInv, InvUUID
  <1>16. InvFin'
    BY <1>2, <1>4, <1>5, <1>6, <1>7, <1>8, <1>10 DEF IInv, InvFin
  <1>17. InvClaims'
    BY <1>2, <1>4, <1>5, <1>6, <1>7, <1>8, <1>10 DEF IInv, InvClaims
  <1>. QED BY <1>11, <1>12, <1>13, <1>14, <1>15, <1>16, <1>17 DEF IInv

-----------------------------------------------------------------------------
(* The passes of the VSphereVM controller keep it.                         *)

\* The finalizer of the VSphereVM is added.
LEMMA AddVMFinalizerStep == IInv /\ AddVMFinalizer => IInv'
  <1> SUFFICES ASSUME IInv, AddVMFinalizer PROVE IInv'
    OBVIOUS
  <1>11. Types'
    <2>1. svm' \in VMType
      BY DEF IInv, Types, AddVMFinalizer, VMType
    <2>. QED BY <2>1 DEF IInv, Types, AddVMFinalizer, machVars, passVars, history
  <1>12. InvMachine'
    BY EmptyTypes DEF IInv, Types, InvMachine, Over, Fresh, machVars, passVars,
       AddVMFinalizer
  <1>13. InvPass'
    BY DEF IInv, Types, InvPass, machVars, passVars, history, AddVMFinalizer
  <1>14. InvGone'
    BY DEF IInv, Types, InvGone, Over, machVars, passVars, AddVMFinalizer
  <1>15. InvUUID'
    BY DEF IInv, Types, InvUUID, machVars, passVars, AddVMFinalizer
  <1>16. InvFin'
    BY DEF IInv, Types, InvFin, AddVMFinalizer
  <1>17. InvClaims'
    BY DEF IInv, Types, InvClaims, history, AddVMFinalizer
  <1>. QED BY <1>11, <1>12, <1>13, <1>14, <1>15, <1>16, <1>17 DEF IInv

\* Claims are made.
LEMMA reconcileIPAddressClaimsStep == IInv /\ reconcileIPAddressClaims => IInv'
  <1> SUFFICES ASSUME IInv, reconcileIPAddressClaims PROVE IInv'
    OBVIOUS
  <1>1. faults' \in [FaultKinds -> Nat]
    BY StrikeType DEF IInv, Types, reconcileIPAddressClaims, FaultKinds
  <1>11. Types'
    BY <1>1 DEF IInv, Types, machVars, passVars, history, reconcileIPAddressClaims
  <1>12. InvMachine'
    BY <1>1 DEF IInv, Types, InvMachine, Over, Fresh, machVars, passVars,
       reconcileIPAddressClaims
  <1>13. InvPass'
    BY <1>1 DEF IInv, Types, InvPass, machVars, passVars, history,
       reconcileIPAddressClaims
  <1>14. InvGone'
    BY <1>1 DEF IInv, Types, InvGone, Over, machVars, passVars,
       reconcileIPAddressClaims
  <1>15. InvUUID'
    BY <1>1 DEF IInv, Types, InvUUID, Over, machVars, passVars,
       reconcileIPAddressClaims
  <1>16. InvFin'
    BY <1>1, EmptyTypes DEF IInv, Types, InvGone, InvFin, reconcileIPAddressClaims
  <1>17. InvClaims'
    BY <1>1, EmptyTypes DEF IInv, Types, InvGone, InvFin, InvClaims, history,
       reconcileIPAddressClaims
  <1>. QED BY <1>11, <1>12, <1>13, <1>14, <1>15, <1>16, <1>17 DEF IInv

\* The virtual machine is cloned.
LEMMA CloneVMStep == IInv /\ CloneVM => IInv'
  <1> SUFFICES ASSUME IInv, CloneVM PROVE IInv'
    OBVIOUS
  <1>11. Types'
    BY DEF IInv, Types, machVars, passVars, history, CloneVM
  <1>12. InvMachine'
    BY DEF IInv, Types, InvMachine, Over, Fresh, machVars, passVars, CloneVM
  <1>13. InvPass'
    BY DEF IInv, Types, InvPass, machVars, passVars, history, CloneVM
  <1>14. InvGone'
    BY DEF IInv, Types, InvGone, Over, machVars, passVars, CloneVM
  <1>15. InvUUID'
    BY DEF IInv, Types, InvUUID, Over, machVars, passVars, CloneVM
  <1>16. InvFin'
    BY EmptyTypes DEF IInv, Types, InvGone, InvFin, CloneVM
  <1>17. InvClaims'
    BY DEF IInv, Types, InvClaims, Over, machVars, passVars, history, CloneVM
  <1>. QED BY <1>11, <1>12, <1>13, <1>14, <1>15, <1>16, <1>17 DEF IInv

\* The UUID and the status of the VSphereVM are written.
LEMMA ReportVMStep == IInv /\ ReportVM => IInv'
  <1> SUFFICES ASSUME IInv, ReportVM PROVE IInv'
    OBVIOUS
  <1>11. Types'
    <2>1. svm' \in VMType
      <3>1. PICK ready \in BOOLEAN : svm' = [svm EXCEPT !.bios = IF csvm.bios = 0 THEN 1 ELSE @,
                                                      !.ready = @ \/ ready]
        BY DEF ReportVM
      <3>2. (svm.ready \/ ready) \in BOOLEAN /\ (IF csvm.bios = 0 THEN 1 ELSE svm.bios) \in {0, 1}
        BY DEF IInv, Types, VMType
      <3>. QED BY <3>1, <3>2, Zenon DEF IInv, Types, VMType
    <2>. QED BY <2>1 DEF IInv, Types, ReportVM, machVars, passVars, history
  <1>12. InvMachine'
    BY EmptyTypes DEF IInv, Types, InvMachine, Over, Fresh, machVars, passVars,
       ReportVM
  <1>13. InvPass'
    BY DEF IInv, Types, InvPass, machVars, passVars, history, ReportVM
  <1>14. InvGone'
    BY DEF IInv, Types, InvGone, Over, machVars, passVars, ReportVM
  <1>15. InvUUID'
    BY DEF IInv, Types, InvUUID, ReportVM
  <1>16. InvFin'
    BY DEF IInv, Types, InvFin, ReportVM
  <1>17. InvClaims'
    BY DEF IInv, Types, InvClaims, history, ReportVM
  <1>. QED BY <1>11, <1>12, <1>13, <1>14, <1>15, <1>16, <1>17 DEF IInv

\* The virtual machine is destroyed.
LEMMA DestroyVMStep == IInv /\ DestroyVM => IInv'
  <1> SUFFICES ASSUME IInv, DestroyVM PROVE IInv'
    OBVIOUS
  <1>11. Types'
    BY DEF IInv, Types, DestroyVM, machVars, passVars, history
  <1>12. InvMachine'
    BY DEF IInv, Types, InvMachine, Over, Fresh, machVars, passVars, DestroyVM
  <1>13. InvPass'
    BY DEF IInv, Types, InvPass, machVars, passVars, history, DestroyVM
  <1>14. InvGone'
    BY DEF IInv, Types, InvGone, Over, machVars, passVars, DestroyVM
  <1>15. InvUUID'
    BY DEF IInv, Types, InvUUID, InvFin, machVars, passVars, DestroyVM
  <1>16. InvFin'
    BY DEF IInv, Types, InvFin, DestroyVM
  <1>17. InvClaims'
    BY DEF IInv, Types, InvFin, InvClaims, history, DestroyVM
  <1>. QED BY <1>11, <1>12, <1>13, <1>14, <1>15, <1>16, <1>17 DEF IInv

\* The claims and the finalizer of the VSphereVM are given back.
LEMMA ReleaseVMStep == IInv /\ ReleaseVM => IInv'
  <1> SUFFICES ASSUME IInv, ReleaseVM PROVE IInv'
    OBVIOUS
  <1>1. faults' \in [FaultKinds -> Nat]
    BY StrikeType DEF IInv, Types, ReleaseVM, FaultKinds
  <1>11. Types'
    BY <1>1, EmptyTypes DEF IInv, Types, machVars, passVars, history, ReleaseVM
  <1>12. InvMachine'
    BY <1>1 DEF IInv, Types, InvMachine, Over, Fresh, machVars, passVars, ReleaseVM
  <1>13. InvPass'
    BY <1>1 DEF IInv, Types, InvPass, machVars, passVars, history, ReleaseVM
  <1>14. InvGone'
    BY <1>1 DEF IInv, Types, InvGone, Over, machVars, passVars, ReleaseVM
  <1>15. InvUUID'
    BY <1>1, EmptyTypes DEF IInv, Types, InvGone, InvUUID, Over, machVars, passVars,
       ReleaseVM
  <1>16. InvFin'
    BY <1>1, EmptyTypes DEF IInv, Types, InvFin, ReleaseVM
  <1>17. InvClaims'
    BY <1>1, EmptyTypes DEF IInv, Types, InvGone, InvClaims, Over, machVars,
       passVars, history, ReleaseVM
  <1>. QED BY <1>11, <1>12, <1>13, <1>14, <1>15, <1>16, <1>17 DEF IInv

-----------------------------------------------------------------------------
(* The theorems.                                                           *)

\* Every step keeps the inductive invariant.
LEMMA NextIInv == IInv /\ [Next]_vars => IInv'
  <1> SUFFICES ASSUME IInv, [Next]_vars PROVE IInv'
    OBVIOUS
  <1>1. CASE UNCHANGED vars
    BY <1>1 DEF IInv, Types, InvMachine, InvPass, InvGone, InvUUID, InvFin,
       InvClaims, Over, Fresh, vars, machVars, vmVars, passVars, history
  <1>2. CASE MachinePass
    BY <1>2, ReconcileStep, ReconcileDeleteStep, FindVSphereVMStep,
       GetVSphereVMStep, CreateOrPatchStep, DeferredPatchStep DEF MachinePass
  <1>3. CASE VMPass
    BY <1>3, AddVMFinalizerStep, reconcileIPAddressClaimsStep, CloneVMStep,
       ReportVMStep, DestroyVMStep, ReleaseVMStep DEF VMPass
  <1>4. CASE CreateOrPatchFails \/ Restart \/ DeleteMachine \/ EditDevices
             \/ ClusterAndBootstrapReady \/ CollectVM \/ CollectClaim
             \/ MachineEvent \/ VSphereVMEvent
    BY <1>4, CreateOrPatchFailsStep, RestartStep, DeleteMachineStep,
       EditDevicesStep, ClusterAndBootstrapReadyStep, CollectVMStep,
       CollectClaimStep, MachineEventStep, VSphereVMEventStep
  <1>. QED BY <1>1, <1>2, <1>3, <1>4 DEF Next

\* The inductive invariant holds in every reachable state.
THEOREM Inductive == Spec => []IInv
  <1>. QED BY InitIInv, NextIInv, PTL DEF Spec

\* Type correctness: the devices of the VSphereVM are always those of a
\* VSphereMachine, with or without the networks of the failure domain.
THEOREM TypeCorrect == Spec => []TypeOK
  <1>1. IInv => TypeOK
    BY TypesOK DEF IInv
  <1>. QED BY <1>1, Inductive, PTL

\* reconcileDelete: the VSphereMachine does not go before its VSphereVM and its
\* virtual machine, however far behind the caches are, unless a cache that had
\* not seen the VSphereVM yet was taken for the proof of its deletion.
THEOREM MachineLeavesNothing == Spec => []NothingLeftBehind
  <1>1. IInv => NothingLeftBehind
    BY DEF IInv, InvPass, InvFin, NothingLeftBehind
  <1>. QED BY <1>1, Inductive, PTL

\* reconcileProviderID: the provider ID of a machine is the UUID of the virtual
\* machine behind its VSphereVM.
THEOREM ProviderIDIsUUID == Spec => []ProviderIDMatches
  <1>1. IInv => ProviderIDMatches
    BY DEF IInv, Types, MachineType, VMType, InvUUID, ProviderIDMatches
  <1>. QED BY <1>1, Inductive, PTL

\* deleteIPAddressClaims: a VSphereVM that is gone holds no claim, unless a
\* patch of its devices took the index of a claim away.
THEOREM NoClaimKept == Spec => []ClaimsReleased
  <1>1. IInv => ClaimsReleased
    BY DEF IInv, InvClaims, ClaimsReleased
  <1>. QED BY <1>1, Inductive, PTL
=============================================================================
