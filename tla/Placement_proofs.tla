-------------------------- MODULE Placement_proofs --------------------------
(***************************************************************************)
(* Proofs about Placement, for any number of MachineDeployments, machines, *)
(* zones and edits.                                                        *)
(*                                                                         *)
(* The argument: for a MachineDeployment that is free (never given a       *)
(* failure domain, not deleted) there is one zone that every annotation,   *)
(* label, reported placement and VM names, if it names any.  New values    *)
(* enter at two places only.  The controller writes the only zone of the   *)
(* namespace when it creates the group; a group without annotation shows   *)
(* that there were more zones.  VM Operator chooses when all members have  *)
(* their VM; that happens once, as members that join later find the        *)
(* annotation and are labelled.                                            *)
(***************************************************************************)
EXTENDS Placement, FiniteSetTheorems, TLAPS

\* Placement is left to the controller and VM Operator
Free(d) == d \notin pinned /\ ~md[d].del

\* A MachineDeployment that is not pinned says nothing of failure domains
InvFree ==
    /\ \A d \in MDs : d \notin pinned => md[d].fd = None
    /\ \A m \in Machines : MDOf[m] \notin pinned => mfd[m] = None

\* Nothing comes before the group
InvStart ==
    /\ (~vmg.exists => vmg = NoVMG /\ cvmg = NoVMG /\ batch = {})
    /\ (~cvmg.exists => cvmg = NoVMG /\ \A m \in Machines : vm[m] = NoVM)
    /\ (gpc = "write" /\ gbase.exists => vmg.exists)

\* Who group g lists: the live machines of the batch, and others when their
\* MachineDeployment is placed; without placement there is a choice of zones
Listed(g) ==
    /\ \A m \in batch \cap Live : m \in g.members
    /\ \A m \in g.members \ batch : ~md[MDOf[m]].del => g.ann[MDOf[m]] # None
    /\ \A d \in MDs : Free(d) /\ g.ann[d] = None => SingleZone = None

InvListed == (vmg.exists => Listed(vmg)) /\ (cvmg.exists => Listed(cvmg))

\* What the pass is about to write, compared with the version it read
Update ==
    /\ \A m \in batch \cap Live : m \in gnew.members
    /\ \A m \in batch \cap gnew.members : m \in gbase.members
    /\ \A m \in gnew.members \ batch : ~md[MDOf[m]].del => gnew.ann[MDOf[m]] # None
    /\ \A d \in MDs : Free(d) /\ gbase.ann[d] # None => gnew.ann[d] = gbase.ann[d]
    /\ \A d \in MDs : Free(d) /\ gbase.ann[d] = None /\ gnew.ann[d] # None =>
          \E m \in Of(d) : gnew.ann[d] = gbase.placed[m]

InvWrite == gpc = "write" =>
    /\ gnew.exists
    /\ \A d \in MDs : Free(d) /\ gnew.ann[d] = None => SingleZone = None
    /\ \A m \in gnew.members : mach[m] # "none"
    /\ (gbase.exists => Update)

\* A VM of a machine that joined later has a label
InvVM ==
    /\ \A m \in batch : mach[m] # "none"
    /\ \A m \in Machines : (vm[m].del => mach[m] = "deleting")
    /\ \A m \in Machines : (~vm[m].exists => vm[m] = NoVM)
    /\ \A m \in Machines : vm[m].exists /\ m \notin batch /\ ~md[MDOf[m]].del =>
                              vm[m].label # None /\ ~vm[m].bare

\* Whatever is said of the zone of d, it is z
Values(d, z) ==
    /\ vmg.ann[d] \in {None, z} /\ cvmg.ann[d] \in {None, z}
    /\ \A m \in Of(d) : /\ vmg.placed[m] \in {None, z}
                        /\ vm[m].zone \in {None, z} /\ vm[m].label \in {None, z}

InvAgree == \A d \in MDs : Free(d) => \E z \in Zones : Values(d, z)

\* The group was annotated before a machine could see it
Preset(d) == vmg.ann[d] # None /\ (cvmg.exists => cvmg.ann[d] # None)

\* Once there is a zone, VM Operator has none to choose for members of the batch
Settled(d) ==
    \A m \in batch \cap Of(d) \cap vmg.members :
        /\ (vm[m].exists /\ ~vm[m].del => vm[m].zone # None \/ vm[m].label # None)
        /\ (m \in Live /\ ~vm[m].exists => Preset(d))

InvDecided == \A d \in MDs : Free(d) /\ ~Values(d, None) => Settled(d)

IInv ==
    /\ TypeOK /\ InvFree /\ InvStart /\ InvListed /\ InvWrite /\ InvVM
    /\ InvAgree /\ InvDecided

-----------------------------------------------------------------------------
(* Helpers.                                                                *)

\* The empty group and the missing VM have the right types.
LEMMA EmptyTypes ==
    /\ NoVMG \in VMGType /\ ~NoVMG.exists
    /\ (\A d \in MDs : NoVMG.ann[d] = None) /\ NoVMG.members = {}
    /\ (\A m \in Machines : NoVMG.placed[m] = None)
    /\ NoVM \in VMType /\ ~NoVM.exists /\ ~NoVM.del /\ NoVM.label = None
    /\ NoVM.zone = None /\ ~NoVM.bare
  BY DEF NoVMG, VMGType, NoVM, VMType, Choice

\* getSingleZoneName gives a zone of the namespace, if any.
LEMMA SingleZoneType ==
    ASSUME avail \in (SUBSET Zones) \ {{}}
    PROVE  SingleZone \in Choice /\ (SingleZone = None <=> Cardinality(avail) # 1)
  <1>1. \E z \in avail : TRUE
    OBVIOUS
  <1>2. (CHOOSE z \in avail : TRUE) \in avail
    BY <1>1
  <1>. QED BY <1>2, PlacementAssumption DEF SingleZone, Choice

\* Once there are several zones, there are several: zones are only added.
LEMMA SeveralZonesStay ==
    ASSUME avail \in (SUBSET Zones) \ {{}}, NEW z \in Zones, z \notin avail,
           avail' = avail \cup {z}, SingleZone = None
    PROVE  SingleZone' = None
  <1>1. IsFiniteSet(avail)
    BY PlacementAssumption, FS_Subset
  <1>2. Cardinality(avail) \in Nat /\ Cardinality(avail) # 0
    BY <1>1, FS_CardinalityType, FS_EmptySet
  <1>3. Cardinality(avail') = Cardinality(avail) + 1
    BY <1>1, FS_AddElement
  <1>4. Cardinality(avail') # 1
    BY <1>2, <1>3
  <1>5. (SingleZone)' = None
    BY <1>4 DEF SingleZone
  <1>. QED BY <1>5

\* The failure domain of a MachineDeployment is a zone or none.
LEMMA MappingType ==
    ASSUME TypeOK, NEW g \in VMGType, NEW d \in MDs
    PROVE  Mapping(g, d) \in Choice
  <1>1. md[d] \in MDType /\ md[d].fd \in Choice /\ g.ann[d] \in Choice /\ md[d].del \in BOOLEAN
    BY DEF TypeOK, MDType, VMGType
  <1>2. SingleZone \in Choice
    BY SingleZoneType DEF TypeOK
  <1>3. None \in Choice
    BY DEF Choice
  <1>4. ASSUME PlacedMembers(g, d) # {}
        PROVE  g.placed[CHOOSE m \in PlacedMembers(g, d) : TRUE] \in Choice
    <2>1. (CHOOSE m \in PlacedMembers(g, d) : TRUE) \in PlacedMembers(g, d)
      BY <1>4
    <2>. QED BY <2>1 DEF PlacedMembers, Live, VMGType
  <1>. QED BY <1>1, <1>2, <1>3, <1>4 DEF Mapping

\* What the pass computes is a group.
LEMMA ComputeType ==
    ASSUME TypeOK, NEW g \in VMGType
    PROVE  /\ computeVirtualMachineGroup(g) \in VMGType
           /\ computeVirtualMachineGroup(g).exists
           /\ computeVirtualMachineGroup(g).members = Members(g)
           /\ \A d \in MDs : computeVirtualMachineGroup(g).ann[d] = Mapping(g, d)
           /\ computeVirtualMachineGroup(g).placed = g.placed
  <1>1. Members(g) \in SUBSET Machines
    BY DEF Members, Live
  <1>2. [d \in MDs |-> Mapping(g, d)] \in [MDs -> Choice]
    BY MappingType
  <1>. QED BY <1>1, <1>2 DEF computeVirtualMachineGroup, VMGType

-----------------------------------------------------------------------------
(* The first state.                                                        *)

\* The inductive invariant holds at first.
LEMMA InitIInv == Init => IInv
  <1> SUFFICES ASSUME Init PROVE IInv
    OBVIOUS
  <1>1. TypeOK
    <2>1. md \in [MDs -> MDType]
      <3>1. 1 \in 0 .. MaxReplicas
        BY PlacementAssumption
      <3>. QED BY <3>1 DEF Init, MDType, Choice
    <2>2. mach \in [Machines -> {"none", "live", "ready", "deleting", "gone"}] /\ mfd \in [Machines -> Choice]
      BY DEF Init, Choice
    <2>3. vm \in [Machines -> VMType]
      BY EmptyTypes DEF Init
    <2>4. avail \in (SUBSET Zones) \ {{}} /\ edits \in 0 .. MaxEdits
      BY PlacementAssumption DEF Init
    <2>. QED BY <2>1, <2>2, <2>3, <2>4, EmptyTypes DEF Init, TypeOK
  <1>2. InvFree /\ InvStart /\ InvListed /\ InvWrite /\ InvVM
    BY <1>1, EmptyTypes DEF Init, InvFree, InvStart, InvListed, InvWrite, InvVM
  <1>3. \A d \in MDs, z \in Zones \cup {None} : Values(d, z)
    BY EmptyTypes DEF Init, Values, Of
  <1>4. \E z \in Zones : TRUE
    BY <1>1 DEF TypeOK
  <1>. QED BY <1>1, <1>2, <1>3, <1>4 DEF IInv, InvAgree, InvDecided

-----------------------------------------------------------------------------
(* Users, MachineDeployments and machines keep the invariant.              *)

\* What others than the controllers and VM Operator may change
Outside ==
    /\ UNCHANGED <<vmg, cvmg, gpc, gbase, gnew, vm, batch>>
    /\ \A d \in MDs : Free(d)' => Free(d)
    /\ \A d \in MDs : ~md'[d].del => ~md[d].del
    /\ \A m \in Machines : mach[m] # "none" => mach'[m] # "none" /\ (m \in Live' => m \in Live)
    /\ \A m \in Machines : mach[m] = "deleting" => mach'[m] = "deleting"
    /\ (SingleZone = None => SingleZone' = None)

\* Such a change leaves the group, the pass and the VMs consistent.
LEMMA OutsideKeeps ==
    ASSUME IInv, TypeOK', InvFree', Outside
    PROVE  IInv'
  <1>. DEFINE Rest == /\ vmg' = vmg /\ cvmg' = cvmg /\ gpc' = gpc /\ gbase' = gbase
                      /\ gnew' = gnew /\ vm' = vm /\ batch' = batch
  <1>0. Rest
    BY DEF Outside
  <1>1. InvStart'
    BY <1>0 DEF IInv, InvStart
  <1>2. \A m \in batch : m \in Machines /\ (m \in Live' => m \in Live)
    BY DEF IInv, TypeOK, InvVM, Outside
  <1>3. ASSUME NEW g \in VMGType, Listed(g)
        PROVE  /\ \A m \in batch' \cap Live' : m \in g.members
               /\ \A m \in g.members \ batch' : ~md'[MDOf[m]].del => g.ann[MDOf[m]] # None
               /\ \A d \in MDs : Free(d)' /\ g.ann[d] = None => SingleZone' = None
    <2>1. \A m \in g.members : m \in Machines /\ MDOf[m] \in MDs
      BY PlacementAssumption DEF VMGType
    <2>. QED BY <1>0, <1>2, <1>3, <2>1 DEF Listed, Outside
  <1>4. InvListed'
    <2>1. vmg \in VMGType /\ cvmg \in VMGType
      BY DEF IInv, TypeOK
    <2>2. vmg.exists => Listed(vmg)'
      BY <1>0, <1>3, <2>1 DEF IInv, InvListed, Listed
    <2>3. cvmg.exists => Listed(cvmg)'
      BY <1>0, <1>3, <2>1 DEF IInv, InvListed, Listed
    <2>. QED BY <1>0, <2>2, <2>3 DEF InvListed
  <1>5. InvWrite'
    <2>. SUFFICES ASSUME gpc = "write" PROVE InvWrite'
      BY <1>0 DEF InvWrite
    <2>0. \A m \in gnew.members : m \in Machines /\ MDOf[m] \in MDs
      BY PlacementAssumption DEF IInv, TypeOK, VMGType
    <2>1. \A d \in MDs : Free(d)' /\ gnew.ann[d] = None => SingleZone' = None
      BY DEF IInv, InvWrite, Outside
    <2>2. \A m \in gnew.members : mach'[m] # "none"
      BY <2>0 DEF IInv, InvWrite, Outside
    <2>3. Update => Update'
      <3>. SUFFICES ASSUME Update PROVE Update'
        OBVIOUS
      <3>1. \A m \in batch' \cap Live' : m \in gnew'.members
        BY <1>0, <1>2 DEF Update
      <3>2. \A m \in gnew'.members \ batch' : ~md'[MDOf[m]].del => gnew'.ann[MDOf[m]] # None
        BY <1>0, <2>0 DEF Update, Outside
      <3>3. \A d \in MDs : Free(d)' /\ gbase'.ann[d] # None => gnew'.ann[d] = gbase'.ann[d]
        BY <1>0 DEF Update, Outside
      <3>4. \A d \in MDs : Free(d)' /\ gbase'.ann[d] = None /\ gnew'.ann[d] # None =>
               \E m \in Of(d)' : gnew'.ann[d] = gbase'.placed[m]
        BY <1>0 DEF Update, Outside, Of
      <3>. QED BY <1>0, <3>1, <3>2, <3>3, <3>4 DEF Update
    <2>. QED BY <1>0, <2>1, <2>2, <2>3 DEF IInv, InvWrite
  <1>6. InvVM'
    <2>1. \A m \in Machines : MDOf[m] \in MDs
      BY PlacementAssumption
    <2>. QED BY <1>0, <1>2, <2>1 DEF IInv, InvVM, Outside
  <1>7. \A d \in MDs : \A z : Values(d, z)' <=> Values(d, z)
    BY <1>0 DEF Values, Of
  <1>8. InvAgree'
    BY <1>7 DEF IInv, InvAgree, Outside
  <1>9. InvDecided'
    <2>. SUFFICES ASSUME NEW d \in MDs, Free(d)', ~Values(d, None)' PROVE Settled(d)'
      BY DEF InvDecided
    <2>1. Settled(d)
      BY <1>7 DEF IInv, InvDecided, Outside
    <2>. QED BY <1>0, <1>2, <2>1 DEF Settled, Preset, Of
  <1>. QED BY <1>1, <1>4, <1>5, <1>6, <1>8, <1>9 DEF IInv

\* A MachineDeployment is scaled, given a failure domain or deleted.
LEMMA EditMDStep ==
    ASSUME IInv, NEW d \in MDs, NEW new \in MDType, ~md[d].del, EditMD(d, new)
    PROVE  IInv'
  <1>1. TypeOK'
    BY PlacementAssumption DEF IInv, TypeOK, EditMD, machVars, groupPass
  <1>2. InvFree'
    BY <1>1, PlacementAssumption DEF IInv, TypeOK, InvFree, EditMD, machVars, groupPass
  <1>3. Outside
    BY DEF IInv, TypeOK, EditMD, Outside, machVars, groupPass, Free, Live, SingleZone
  <1>. QED BY <1>1, <1>2, <1>3, OutsideKeeps

\* The namespace gets another zone.
LEMMA AddZoneStep ==
    ASSUME IInv, NEW z \in Zones, AddZone(z)
    PROVE  IInv'
  <1>1. TypeOK'
    BY PlacementAssumption DEF IInv, TypeOK, AddZone, machVars, groupPass
  <1>2. InvFree'
    BY DEF IInv, InvFree, AddZone, machVars, groupPass
  <1>3. SingleZone = None => SingleZone' = None
    BY SeveralZonesStay DEF IInv, TypeOK, AddZone
  <1>4. Outside
    BY <1>3 DEF AddZone, Outside, machVars, groupPass, Free, Live
  <1>. QED BY <1>1, <1>2, <1>4, OutsideKeeps

\* A machine is created.
LEMMA CreateMachineStep ==
    ASSUME IInv, NEW m \in Machines, CreateMachine(m)
    PROVE  IInv'
  <1>1. TypeOK'
    BY PlacementAssumption DEF IInv, TypeOK, MDType, CreateMachine, mdVars, groupPass
  <1>2. InvFree'
    BY PlacementAssumption DEF IInv, TypeOK, InvFree, CreateMachine, mdVars, groupPass
  <1>3. Outside
    BY DEF IInv, TypeOK, CreateMachine, Outside, mdVars, groupPass, Free, Live, SingleZone
  <1>. QED BY <1>1, <1>2, <1>3, OutsideKeeps

\* A machine is deleted.
LEMMA DeleteMachineStep ==
    ASSUME IInv, NEW m \in Machines, DeleteMachine(m)
    PROVE  IInv'
  <1>1. TypeOK'
    BY PlacementAssumption DEF IInv, TypeOK, DeleteMachine, groupPass
  <1>2. InvFree'
    BY DEF IInv, InvFree, DeleteMachine, groupPass
  <1>3. Outside
    BY DEF IInv, TypeOK, DeleteMachine, Outside, groupPass, Free, Live, SingleZone
  <1>. QED BY <1>1, <1>2, <1>3, OutsideKeeps

-----------------------------------------------------------------------------
(* The VirtualMachineGroup controller keeps it.                            *)

\* getMachineDeploymentToFailureDomainMapping for a free MachineDeployment.
LEMMA MappingFree ==
    ASSUME TypeOK, InvFree, NEW g \in VMGType, NEW d \in MDs, Free(d)
    PROVE  /\ (~g.exists => Mapping(g, d) = SingleZone)
           /\ (g.exists /\ g.ann[d] # None => Mapping(g, d) = g.ann[d])
           /\ (g.exists /\ g.ann[d] = None => \/ Mapping(g, d) \in {SingleZone, None}
                                              \/ \E m \in Of(d) : Mapping(g, d) = g.placed[m])
  <1>1. ~md[d].del /\ md[d].fd = None
    BY DEF Free, InvFree
  <1>2. ASSUME PlacedMembers(g, d) # {}
        PROVE  \E m \in Of(d) : g.placed[CHOOSE x \in PlacedMembers(g, d) : TRUE] = g.placed[m]
    <2>1. (CHOOSE m \in PlacedMembers(g, d) : TRUE) \in PlacedMembers(g, d)
      BY <1>2
    <2>. QED BY <2>1 DEF PlacedMembers
  <1>3. g.exists \in BOOLEAN
    BY DEF VMGType
  <1>4. CASE ~g.exists
    BY <1>1, <1>4 DEF Mapping
  <1>5. CASE g.exists /\ g.ann[d] # None
    BY <1>1, <1>5 DEF Mapping
  <1>6. CASE g.exists /\ g.ann[d] = None
    BY <1>1, <1>2, <1>6 DEF Mapping
  <1>. QED BY <1>3, <1>4, <1>5, <1>6

\* A MachineDeployment that is placed and not deleted stays placed.
LEMMA MappingKept ==
    ASSUME NEW g \in VMGType, NEW d \in MDs, ~md[d].del, g.exists, g.ann[d] # None
    PROVE  Mapping(g, d) # None
  <1>1. CASE md[d].fd # None
    BY <1>1 DEF Mapping
  <1>2. CASE md[d].fd = None
    BY <1>2 DEF Mapping
  <1>. QED BY <1>1, <1>2

\* The cache of the group catches up.
LEMMA GroupEventStep ==
    ASSUME IInv, GroupEvent
    PROVE  IInv'
  <1>0. /\ UNCHANGED <<avail, md, pinned, edits, mach, mfd, vmg, gpc, gbase, gnew, vm, batch>>
        /\ cvmg' = vmg /\ cvmg # vmg
    BY DEF GroupEvent, mdVars, machVars, groupPass
  <1>1. TypeOK'
    BY <1>0 DEF IInv, TypeOK
  <1>2. vmg.exists
    BY <1>0 DEF IInv, InvStart
  <1>3. InvFree' /\ InvStart'
    BY <1>0, <1>2 DEF IInv, InvFree, InvStart
  <1>4. Live' = Live /\ SingleZone' = SingleZone /\ \A d \in MDs : (Free(d)' <=> Free(d)) /\ Of(d)' = Of(d)
    BY <1>0 DEF Live, SingleZone, Free, Of
  <1>5. InvListed'
    BY <1>0, <1>2, <1>4 DEF IInv, InvListed, Listed
  <1>6. InvWrite'
    BY <1>0, <1>4 DEF IInv, InvWrite, Update
  <1>7. InvVM'
    BY <1>0 DEF IInv, InvVM
  <1>8. \A d \in MDs : \A z : Values(d, z) => Values(d, z)'
    BY <1>0, <1>4 DEF Values
  <1>9. InvAgree'
    BY <1>4, <1>8 DEF IInv, InvAgree
  <1>10. InvDecided'
    <2>. SUFFICES ASSUME NEW d \in MDs, Free(d)', ~Values(d, None)' PROVE Settled(d)'
      BY DEF InvDecided
    <2>1. Settled(d)
      BY <1>4, <1>8 DEF IInv, InvDecided
    <2>. QED BY <1>0, <1>4, <2>1 DEF Settled, Preset
  <1>. QED BY <1>1, <1>3, <1>5, <1>6, <1>7, <1>9, <1>10 DEF IInv

\* The pass computes the group from the cached one.
LEMMA ReconcileGroupStep ==
    ASSUME IInv, ReconcileGroup
    PROVE  IInv'
  <1>0. /\ UNCHANGED <<avail, md, pinned, edits, mach, mfd, vmg, cvmg, vm, batch>>
        /\ gpc' = "write" /\ gbase' = cvmg /\ gnew' = computeVirtualMachineGroup(cvmg)
    BY DEF ReconcileGroup, mdVars, machVars
  <1>. DEFINE new == computeVirtualMachineGroup(cvmg)
  <1>1. TypeOK /\ InvFree /\ cvmg \in VMGType
    BY DEF IInv, TypeOK
  <1>2. /\ new \in VMGType /\ new.exists /\ new.members = Members(cvmg)
        /\ \A d \in MDs : new.ann[d] = Mapping(cvmg, d)
    BY <1>1, ComputeType
  <1>. HIDE DEF new
  <1>3. TypeOK'
    BY <1>0, <1>1, <1>2 DEF TypeOK, new
  <1>4. Live' = Live /\ SingleZone' = SingleZone /\ \A d \in MDs : (Free(d)' <=> Free(d)) /\ Of(d)' = Of(d)
    BY <1>0 DEF Live, SingleZone, Free, Of
  <1>5. InvFree' /\ InvStart' /\ InvVM'
    BY <1>0 DEF IInv, InvFree, InvStart, InvVM
  <1>6. InvListed'
    BY <1>0, <1>4 DEF IInv, InvListed, Listed
  <1>7. \A d \in MDs : \A z : Values(d, z)' <=> Values(d, z)
    BY <1>0, <1>4 DEF Values
  <1>8. InvAgree' /\ InvDecided'
    BY <1>0, <1>4, <1>7 DEF IInv, InvAgree, InvDecided, Settled, Preset
  <1>9. \A d \in MDs : Free(d) /\ new.ann[d] = None => SingleZone = None
    BY <1>1, <1>2, MappingFree DEF IInv, InvListed, Listed, VMGType
  <1>10. Members(cvmg) \subseteq Live
    BY DEF Members
  <1>11. ASSUME cvmg.exists PROVE Update'
    <2>1. Listed(cvmg)
      BY <1>11 DEF IInv, InvListed
    <2>2. \A m \in batch \cap Live : m \in new.members
      BY <1>2, <2>1 DEF Listed, Members
    <2>3. \A m \in batch \cap new.members : m \in cvmg.members
      BY <1>2, <1>10, <2>1 DEF Listed
    <2>4. \A m \in new.members \ batch : ~md[MDOf[m]].del => new.ann[MDOf[m]] # None
      <3>. SUFFICES ASSUME NEW m \in new.members \ batch, ~md[MDOf[m]].del
                    PROVE  Mapping(cvmg, MDOf[m]) # None
        BY <1>2, <1>10, PlacementAssumption DEF Live
      <3>1. MDOf[m] \in MDs
        BY <1>2, <1>10, PlacementAssumption DEF Live
      <3>2. CASE m \in cvmg.members
        BY <1>1, <1>11, <2>1, <3>1, <3>2, MappingKept DEF Listed
      <3>3. CASE m \notin cvmg.members
        BY <1>2, <1>11, <3>3 DEF Members
      <3>. QED BY <3>2, <3>3
    <2>5. \A d \in MDs : Free(d) /\ cvmg.ann[d] # None => new.ann[d] = cvmg.ann[d]
      BY <1>1, <1>2, <1>11, MappingFree
    <2>6. \A d \in MDs : Free(d) /\ cvmg.ann[d] = None /\ new.ann[d] # None =>
             \E m \in Of(d) : new.ann[d] = cvmg.placed[m]
      BY <1>1, <1>2, <1>11, <2>1, MappingFree DEF Listed
    <2>. QED BY <1>0, <1>4, <2>2, <2>3, <2>4, <2>5, <2>6 DEF Update, new
  <1>12. InvWrite'
    <2>1. \A m \in new.members : mach[m] # "none"
      BY <1>2, <1>10 DEF Live
    <2>. QED BY <1>0, <1>2, <1>4, <1>9, <1>11, <2>1 DEF InvWrite, new
  <1>. QED BY <1>3, <1>5, <1>6, <1>8, <1>12 DEF IInv

\* The group is created, patched, or the write is refused.
LEMMA WriteGroupStep ==
    ASSUME IInv, WriteGroup
    PROVE  IInv'
  <1>0. /\ UNCHANGED <<avail, md, pinned, edits, mach, mfd, cvmg, vm>>
        /\ gpc = "write" /\ gpc' = "idle" /\ gbase' = NoVMG /\ gnew' = NoVMG
    BY DEF WriteGroup, mdVars, machVars
  <1>1. Live' = Live /\ SingleZone' = SingleZone /\ \A d \in MDs : (Free(d)' <=> Free(d)) /\ Of(d)' = Of(d)
    BY <1>0 DEF Live, SingleZone, Free, Of
  <1>2. InvFree' /\ InvWrite'
    BY <1>0 DEF IInv, InvFree, InvWrite
  <1>3. CASE ~SameVersion
    <2>1. vmg' = vmg /\ batch' = batch
      BY <1>3 DEF WriteGroup
    <2>2. TypeOK' /\ InvStart' /\ InvVM'
      BY <1>0, <2>1, EmptyTypes DEF IInv, TypeOK, InvStart, InvVM
    <2>3. InvListed'
      BY <1>0, <1>1, <2>1 DEF IInv, InvListed, Listed
    <2>4. \A d \in MDs : \A z : Values(d, z)' <=> Values(d, z)
      BY <1>0, <1>1, <2>1 DEF Values
    <2>5. InvAgree' /\ InvDecided'
      BY <1>0, <1>1, <2>1, <2>4 DEF IInv, InvAgree, InvDecided, Settled, Preset
    <2>. QED BY <1>2, <2>2, <2>3, <2>5 DEF IInv
  <1>4. CASE SameVersion
    <2>. DEFINE placed == [m \in Machines |-> IF m \in gnew.members THEN vmg.placed[m] ELSE None]
    <2>1. vmg' = [gnew EXCEPT !.placed = placed]
      BY <1>4 DEF WriteGroup
    <2>2. placed \in [Machines -> Choice] /\ gnew \in VMGType /\ vmg \in VMGType
      BY DEF IInv, TypeOK, VMGType, Choice
    <2>3. /\ vmg' \in VMGType /\ vmg'.exists /\ vmg'.ann = gnew.ann
          /\ vmg'.members = gnew.members /\ vmg'.placed = placed
      BY <1>0, <2>1, <2>2 DEF IInv, InvWrite, VMGType
    <2>4. \A m \in Machines : vmg'.placed[m] \in {None, vmg.placed[m]}
      BY <2>3
    <2>. HIDE DEF placed
    <2>5. CASE ~vmg.exists
      <3>1. batch' = gnew.members /\ batch' \subseteq Machines
        BY <1>4, <2>2, <2>5 DEF WriteGroup, VMGType
      <3>2. /\ cvmg = NoVMG /\ vmg = NoVMG /\ ~cvmg.exists /\ \A m \in Machines : vm[m] = NoVM
        BY <2>5, EmptyTypes DEF IInv, InvStart
      <3>3. TypeOK' /\ InvStart'
        BY <1>0, <2>3, <3>1, <3>2, EmptyTypes DEF IInv, TypeOK, InvStart
      <3>4. InvListed'
        BY <1>0, <1>1, <2>3, <3>1, <3>2 DEF IInv, InvListed, Listed, InvWrite
      <3>5. InvVM'
        BY <1>0, <3>1, <3>2, EmptyTypes DEF IInv, InvVM, InvWrite
      <3>6. \A m \in Machines : vmg'.placed[m] = None
        BY <2>4, <3>2, EmptyTypes
      <3>7. ASSUME NEW d \in MDs PROVE \E z \in Zones : Values(d, z)'
        <4>1. gnew.ann[d] \in Zones \cup {None}
          BY <2>2 DEF VMGType, Choice
        <4>2. PICK z \in Zones : gnew.ann[d] \in {None, z}
          BY <4>1 DEF IInv, TypeOK
        <4>3. Values(d, z)'
          BY <1>0, <2>3, <3>2, <3>6, <4>2, EmptyTypes DEF Values, Of
        <4>. QED BY <4>3
      <3>8. InvAgree'
        BY <3>7 DEF InvAgree
      <3>9. InvDecided'
        <4>. SUFFICES ASSUME NEW d \in MDs, ~Values(d, None)' PROVE Settled(d)'
          BY DEF InvDecided
        <4>1. vmg'.ann[d] # None
          BY <1>0, <3>2, <3>6, EmptyTypes DEF Values, Of
        <4>. QED BY <1>0, <3>1, <3>2, <4>1, EmptyTypes DEF Settled, Preset
      <3>. QED BY <1>2, <3>3, <3>4, <3>5, <3>8, <3>9 DEF IInv
    <2>6. CASE vmg.exists
      <3>1. gbase.exists /\ vmg = gbase /\ batch' = batch
        BY <1>4, <2>6 DEF SameVersion, WriteGroup
      <3>2. Update
        BY <1>0, <3>1 DEF IInv, InvWrite
      <3>3. TypeOK' /\ InvStart' /\ InvVM'
        BY <1>0, <2>3, <2>6, <3>1, EmptyTypes DEF IInv, TypeOK, InvStart, InvVM
      <3>4. InvListed'
        <4>1. Listed(vmg)'
          BY <1>0, <1>1, <2>3, <3>1, <3>2 DEF IInv, InvWrite, Update, Listed
        <4>2. cvmg.exists => Listed(cvmg)'
          BY <1>0, <1>1, <3>1 DEF IInv, InvListed, Listed
        <4>. QED BY <1>0, <4>1, <4>2 DEF InvListed
      <3>5. ASSUME NEW d \in MDs, Free(d), NEW z, Values(d, z) PROVE Values(d, z)'
        <4>1. vmg'.ann[d] \in {None, z}
          BY <2>3, <3>1, <3>2, <3>5 DEF Update, Values
        <4>2. \A m \in Of(d) : vmg'.placed[m] \in {None, z}
          BY <2>4, <3>5 DEF Values, Of
        <4>. QED BY <1>0, <1>1, <3>5, <4>1, <4>2 DEF Values
      <3>6. InvAgree'
        BY <1>1, <3>5 DEF IInv, InvAgree
      <3>7. InvDecided'
        <4>. SUFFICES ASSUME NEW d \in MDs, Free(d), ~Values(d, None)' PROVE Settled(d)'
          BY <1>1 DEF InvDecided
        <4>1. Settled(d)
          BY <3>5 DEF IInv, InvDecided
        <4>2. Preset(d) => Preset(d)'
          BY <1>0, <2>3, <3>1, <3>2 DEF Preset, Update
        <4>. QED BY <1>0, <1>1, <2>3, <3>1, <3>2, <4>1, <4>2 DEF Settled, Update
      <3>. QED BY <1>2, <3>3, <3>4, <3>6, <3>7 DEF IInv
    <2>. QED BY <2>5, <2>6
  <1>. QED BY <1>3, <1>4

-----------------------------------------------------------------------------
(* The machines and VM Operator keep it.                                   *)

\* A step that changes VMs and machines only.
LEMMA VMsKeep ==
    ASSUME IInv, TypeOK', InvVM', InvAgree', InvDecided', cvmg.exists \/ vm' = vm,
           UNCHANGED <<avail, md, pinned, edits, mfd, vmg, cvmg, gpc, gbase, gnew, batch>>,
           \A m \in Machines : mach[m] # "none" => mach'[m] # "none" /\ (m \in Live' => m \in Live)
    PROVE  IInv'
  <1>1. SingleZone' = SingleZone /\ \A d \in MDs : (Free(d)' <=> Free(d)) /\ Of(d)' = Of(d)
    BY DEF SingleZone, Free, Of
  <1>2. InvFree' /\ InvStart'
    BY DEF IInv, InvFree, InvStart
  <1>3. \A m \in batch : m \in Live' => m \in Live
    BY DEF IInv, TypeOK, InvVM
  <1>4. InvListed'
    BY <1>1, <1>3 DEF IInv, InvListed, Listed
  <1>5. InvWrite'
    <2>1. \A m \in gnew.members : m \in Machines
      BY DEF IInv, TypeOK, VMGType
    <2>2. Update => Update'
      BY <1>1, <1>3 DEF Update
    <2>. QED BY <1>1, <2>1, <2>2 DEF IInv, InvWrite
  <1>. QED BY <1>2, <1>4, <1>5 DEF IInv

\* What a step must keep of a VM for the zone of its MachineDeployment to be
\* agreed on and settled.
LEMMA LabelsStay ==
    ASSUME IInv, TypeOK', NEW m \in Machines, NEW new \in VMType,
           vm' = [vm EXCEPT ![m] = new],
           UNCHANGED <<md, pinned, vmg, cvmg, batch>>,
           \A x \in batch : x \in Live' => x \in Live,
           \A z \in Zones : Free(MDOf[m]) /\ Values(MDOf[m], z) =>
                               new.zone \in {None, z} /\ new.label \in {None, z},
           Free(MDOf[m]) /\ Values(MDOf[m], None) => new.zone = None /\ new.label = None,
           Free(MDOf[m]) /\ ~Values(MDOf[m], None) /\ Settled(MDOf[m]) =>
              /\ m \in batch /\ m \in vmg.members /\ new.exists /\ ~new.del =>
                    new.zone # None \/ new.label # None
              /\ m \in batch /\ m \in vmg.members /\ m \in Live' /\ ~new.exists =>
                    Preset(MDOf[m])
    PROVE  InvAgree' /\ InvDecided'
  <1>1. \A d \in MDs : (Free(d)' <=> Free(d)) /\ Of(d)' = Of(d) /\ (Preset(d)' <=> Preset(d))
    BY DEF Free, Of, Preset
  <1>2. \A x \in Machines : vm'[x] = IF x = m THEN new ELSE vm[x]
    BY DEF IInv, TypeOK
  <1>3. ASSUME NEW d \in MDs, Free(d), NEW z \in Zones \cup {None}, Values(d, z)
        PROVE  Values(d, z)'
    <2>1. \A x \in Of(d) : vm'[x].zone \in {None, z} /\ vm'[x].label \in {None, z}
      BY <1>2, <1>3 DEF Values, Of
    <2>. QED BY <1>1, <1>3, <2>1 DEF Values
  <1>4. InvAgree'
    BY <1>1, <1>3 DEF IInv, InvAgree
  <1>5. InvDecided'
    <2>. SUFFICES ASSUME NEW d \in MDs, Free(d), ~Values(d, None)' PROVE Settled(d)'
      BY <1>1 DEF InvDecided
    <2>1. ~Values(d, None) /\ Settled(d)
      BY <1>3 DEF IInv, InvDecided
    <2>2. ASSUME NEW x \in batch, x \in Of(d), x \in vmg.members
          PROVE  /\ (vm'[x].exists /\ ~vm'[x].del => vm'[x].zone # None \/ vm'[x].label # None)
                 /\ (x \in Live' /\ ~vm'[x].exists => Preset(d))
      <3>1. x \in Machines /\ MDOf[x] = d
        BY <2>2 DEF Of
      <3>2. CASE x = m
        BY <1>2, <2>1, <2>2, <3>1, <3>2
      <3>3. CASE x # m
        BY <1>2, <2>1, <2>2, <3>1, <3>3 DEF Settled
      <3>. QED BY <3>2, <3>3
    <2>. QED BY <1>1, <2>2 DEF Settled
  <1>. QED BY <1>4, <1>5

\* A pass of a machine that lives.
LEMMA ReconcileNormalStep ==
    ASSUME IInv, NEW m \in Machines, ReconcileNormal(m)
    PROVE  IInv'
  <1>. DEFINE d == MDOf[m]
              new == reconcileVMOperatorVM(m)
              label == Label(m, cvmg.ann[d])
  <1>0. /\ UNCHANGED <<avail, md, pinned, edits, mfd, vmg, cvmg, gpc, gbase, gnew, batch>>
        /\ m \in Live /\ cvmg.exists /\ m \in cvmg.members
        /\ vm' = [vm EXCEPT ![m] = new]
        /\ (mach' = mach \/ (mach[m] = "live" /\ mach' = [mach EXCEPT ![m] = "ready"]))
    <2>1. mach' = mach \/ (mach[m] = "live" /\ mach' = [mach EXCEPT ![m] = "ready"])
      BY Zenon DEF ReconcileNormal
    <2>. QED BY <2>1 DEF ReconcileNormal, checkVirtualMachineGroupMembership, mdVars, groupPass
  <1>1. /\ vm[m] \in VMType /\ cvmg \in VMGType /\ d \in MDs /\ mfd[m] \in Choice
        /\ cvmg.ann[d] \in Choice
    BY PlacementAssumption DEF IInv, TypeOK, VMGType
  <1>2. label \in Choice
    BY <1>1 DEF Label, VMType
  <1>. HIDE DEF label
  <1>3. /\ new \in VMType /\ new.exists /\ new.label = label
        /\ (vm[m].exists => new.zone = vm[m].zone /\ new.del = vm[m].del /\ new.bare = vm[m].bare)
        /\ (~vm[m].exists => new.zone = None /\ ~new.del /\ (new.bare <=> label = None))
    <2>1. CASE vm[m].exists
      BY <1>1, <1>2, <2>1 DEF reconcileVMOperatorVM, VMType, label
    <2>2. CASE ~vm[m].exists
      <3>1. PICK bare \in BOOLEAN : bare <=> label = None
        OBVIOUS
      <3>2. new = [ exists |-> TRUE, del |-> FALSE, label |-> label, zone |-> None, bare |-> bare ]
        BY <2>2, <3>1 DEF reconcileVMOperatorVM, label
      <3>3. None \in Choice
        BY DEF Choice
      <3>. HIDE DEF new
      <3>4. new \in VMType
        BY <1>2, <3>1, <3>2, <3>3 DEF VMType
      <3>. QED BY <2>2, <3>1, <3>2, <3>4
    <2>. QED BY <2>1, <2>2
  <1>. HIDE DEF new
  <1>4. TypeOK'
    BY <1>0, <1>3 DEF IInv, TypeOK
  <1>5. /\ \A x \in Machines : /\ mach[x] # "none" => mach'[x] # "none"
                               /\ x \in Live' => x \in Live
                               /\ mach[x] = "deleting" => mach'[x] = "deleting"
        /\ \A x \in batch : x \in Live' => x \in Live
    BY <1>0 DEF IInv, TypeOK, Live
  <1>6. \/ mfd[m] # None /\ label = mfd[m]
        \/ mfd[m] = None /\ cvmg.ann[d] # None /\ label = cvmg.ann[d]
        \/ mfd[m] = None /\ cvmg.ann[d] = None /\ label = vm[m].label
    BY DEF Label, label
  <1>7. \A x \in Machines : vm'[x] = IF x = m THEN new ELSE vm[x]
    BY <1>0 DEF IInv, TypeOK
  <1>8. m \notin batch /\ ~md[d].del => cvmg.ann[d] # None
    BY <1>0 DEF IInv, InvListed, Listed
  <1>9. InvVM'
    <2>1. new.del => mach'[m] = "deleting"
      BY <1>0, <1>3, <1>5 DEF IInv, InvVM
    <2>2. m \notin batch /\ ~md[d].del => new.label # None /\ ~new.bare
      BY <1>3, <1>6, <1>8 DEF IInv, InvVM
    <2>. QED BY <1>0, <1>3, <1>5, <1>7, <2>1, <2>2, PlacementAssumption DEF IInv, TypeOK, InvVM
  <1>10. Free(d) => mfd[m] = None
    BY DEF IInv, InvFree, Free
  <1>11. m \in Of(d) /\ (~vm[m].exists => vm[m].label = None /\ vm[m].zone = None)
    BY EmptyTypes DEF Of, IInv, InvVM
  <1>12. \A z \in Zones \cup {None} : Free(d) /\ Values(d, z) =>
            new.zone \in {None, z} /\ new.label \in {None, z}
    BY <1>3, <1>6, <1>10, <1>11 DEF Values
  <1>13. Free(d) /\ ~Values(d, None) /\ Settled(d) =>
            (m \in batch /\ m \in vmg.members /\ new.exists /\ ~new.del =>
                    new.zone # None \/ new.label # None)
    <2>. SUFFICES ASSUME Free(d), Settled(d), m \in batch, m \in vmg.members, ~new.del
                  PROVE  new.zone # None \/ new.label # None
      OBVIOUS
    <2>1. CASE vm[m].exists
      BY <1>3, <1>6, <1>10, <1>11, <2>1 DEF Settled
    <2>2. CASE ~vm[m].exists
      BY <1>0, <1>3, <1>6, <1>10, <1>11, <2>2 DEF Settled, Preset
    <2>. QED BY <2>1, <2>2
  <1>14. InvAgree' /\ InvDecided'
    BY <1>0, <1>3, <1>4, <1>5, <1>12, <1>13, LabelsStay
  <1>. QED BY <1>0, <1>4, <1>5, <1>9, <1>14, VMsKeep

\* A VM exists only when the group is in the cache.
LEMMA VMsAfterGroup ==
    ASSUME IInv, NEW m \in Machines, vm[m].exists \/ vm[m].del \/ vm[m].zone # None
    PROVE  cvmg.exists /\ vmg.exists
  BY EmptyTypes DEF IInv, InvStart

\* A pass of a machine that is deleted.
LEMMA ReconcileDeleteStep ==
    ASSUME IInv, NEW m \in Machines, ReconcileDelete(m)
    PROVE  IInv'
  <1>0. /\ UNCHANGED <<avail, md, pinned, edits, mfd, vmg, cvmg, gpc, gbase, gnew, batch>>
        /\ mach[m] = "deleting"
    BY DEF ReconcileDelete, mdVars, groupPass
  <1>1. vm[m] \in VMType /\ MDOf[m] \in MDs
    BY PlacementAssumption DEF IInv, TypeOK
  <1>2. CASE vm[m].exists
    <2>. DEFINE new == [vm[m] EXCEPT !.del = TRUE]
    <2>1. mach' = mach /\ vm' = [vm EXCEPT ![m] = new] /\ ~vm[m].del
      BY <1>2 DEF ReconcileDelete
    <2>2. /\ new \in VMType /\ new.exists /\ new.del /\ new.zone = vm[m].zone
          /\ new.label = vm[m].label /\ new.bare = vm[m].bare
      BY <1>1, <1>2 DEF VMType
    <2>. HIDE DEF new
    <2>3. TypeOK'
      BY <1>0, <2>1, <2>2 DEF IInv, TypeOK
    <2>4. Live' = Live
      BY <2>1 DEF Live
    <2>5. \A x \in Machines : vm'[x] = IF x = m THEN new ELSE vm[x]
      BY <2>1 DEF IInv, TypeOK
    <2>6. InvVM'
      BY <1>0, <1>2, <2>1, <2>2, <2>5 DEF IInv, InvVM
    <2>7. \A z \in Zones \cup {None} : Values(MDOf[m], z) =>
             new.zone \in {None, z} /\ new.label \in {None, z}
      BY <2>2 DEF Values, Of
    <2>8. InvAgree' /\ InvDecided'
      BY <1>0, <2>1, <2>2, <2>3, <2>4, <2>7, LabelsStay
    <2>. QED BY <1>0, <1>2, <2>1, <2>3, <2>4, <2>6, <2>8, VMsAfterGroup, VMsKeep
  <1>3. CASE ~vm[m].exists
    <2>1. vm' = vm /\ mach' = [mach EXCEPT ![m] = "gone"] /\ ~vm[m].del
      BY <1>3, EmptyTypes DEF ReconcileDelete, IInv, InvVM
    <2>2. TypeOK' /\ InvVM'
      BY <1>0, <2>1 DEF IInv, TypeOK, InvVM
    <2>3. \A x \in Machines : (mach[x] # "none" => mach'[x] # "none") /\ (x \in Live' => x \in Live)
      BY <2>1 DEF IInv, TypeOK, Live
    <2>4. \A d \in MDs : \A z : (Values(d, z)' <=> Values(d, z)) /\ (Free(d)' <=> Free(d))
      BY <1>0, <2>1 DEF Values, Of, Free
    <2>5. InvAgree'
      BY <2>4 DEF IInv, InvAgree
    <2>6. InvDecided'
      BY <1>0, <2>1, <2>3, <2>4 DEF IInv, InvDecided, Settled, Preset, Of
    <2>. QED BY <1>0, <2>1, <2>2, <2>3, <2>5, <2>6, VMsKeep
  <1>. QED BY <1>2, <1>3

\* VM Operator places a VM with a label.
LEMMA PlaceVMStep ==
    ASSUME IInv, NEW m \in Machines, PlaceVM(m)
    PROVE  IInv'
  <1>. DEFINE new == [vm[m] EXCEPT !.zone = vm[m].label]
  <1>0. /\ UNCHANGED <<avail, md, pinned, edits, mach, mfd, vmg, cvmg, gpc, gbase, gnew, batch>>
        /\ vm[m].exists /\ ~vm[m].del /\ vm[m].label # None
        /\ vm' = [vm EXCEPT ![m] = new]
    BY DEF PlaceVM, mdVars, machVars, groupPass
  <1>1. vm[m] \in VMType
    BY DEF IInv, TypeOK
  <1>2. /\ new \in VMType /\ new.exists /\ ~new.del /\ new.zone = vm[m].label
        /\ new.label = vm[m].label /\ new.bare = vm[m].bare
    BY <1>0, <1>1 DEF VMType
  <1>. HIDE DEF new
  <1>3. TypeOK'
    BY <1>0, <1>2 DEF IInv, TypeOK
  <1>4. Live' = Live
    BY <1>0 DEF Live
  <1>5. \A x \in Machines : vm'[x] = IF x = m THEN new ELSE vm[x]
    BY <1>0 DEF IInv, TypeOK
  <1>6. InvVM'
    BY <1>0, <1>2, <1>5 DEF IInv, InvVM
  <1>7. \A z \in Zones \cup {None} : Values(MDOf[m], z) =>
           new.zone \in {None, z} /\ new.label \in {None, z}
    BY <1>2 DEF Values, Of
  <1>8. InvAgree' /\ InvDecided'
    <2>1. ~Values(MDOf[m], None)
      BY <1>0 DEF Values, Of
    <2>. QED BY <1>0, <1>2, <1>3, <1>4, <1>7, <2>1, LabelsStay
  <1>. QED BY <1>0, <1>3, <1>4, <1>6, <1>8, VMsAfterGroup, VMsKeep

\* A deleted VM is removed.
LEMMA RemoveVMStep ==
    ASSUME IInv, NEW m \in Machines, RemoveVM(m)
    PROVE  IInv'
  <1>0. /\ UNCHANGED <<avail, md, pinned, edits, mach, mfd, vmg, cvmg, gpc, gbase, gnew, batch>>
        /\ vm[m].del /\ vm' = [vm EXCEPT ![m] = NoVM]
    BY DEF RemoveVM, mdVars, machVars, groupPass
  <1>1. TypeOK'
    BY <1>0, EmptyTypes DEF IInv, TypeOK
  <1>2. Live' = Live /\ m \notin Live
    BY <1>0 DEF Live, IInv, InvVM
  <1>3. \A x \in Machines : vm'[x] = IF x = m THEN NoVM ELSE vm[x]
    BY <1>0 DEF IInv, TypeOK
  <1>4. InvVM'
    BY <1>0, <1>3, EmptyTypes DEF IInv, InvVM
  <1>5. InvAgree' /\ InvDecided'
    BY <1>0, <1>1, <1>2, EmptyTypes, LabelsStay
  <1>. QED BY <1>0, <1>1, <1>2, <1>4, <1>5, VMsAfterGroup, VMsKeep

\* VM Operator reports the placement of a member.
LEMMA ReportMemberStep ==
    ASSUME IInv, NEW m \in Machines, ReportMember(m)
    PROVE  IInv'
  <1>0. /\ UNCHANGED <<avail, md, pinned, edits, mach, mfd, cvmg, gpc, gbase, gnew, vm, batch>>
        /\ vm[m].zone # None
        /\ vmg' = [vmg EXCEPT !.placed = [vmg.placed EXCEPT ![m] = vm[m].zone]]
    BY DEF ReportMember, mdVars, machVars, groupPass
  <1>1. vmg \in VMGType /\ vm[m] \in VMType /\ vmg.exists /\ cvmg.exists
    BY <1>0, VMsAfterGroup DEF IInv, TypeOK
  <1>2. /\ vmg' \in VMGType /\ vmg'.exists /\ vmg'.ann = vmg.ann /\ vmg'.members = vmg.members
        /\ \A x \in Machines : vmg'.placed[x] = IF x = m THEN vm[m].zone ELSE vmg.placed[x]
    BY <1>0, <1>1 DEF VMGType, VMType
  <1>3. TypeOK' /\ InvFree' /\ InvStart' /\ InvVM'
    BY <1>0, <1>1, <1>2 DEF IInv, TypeOK, InvFree, InvStart, InvVM
  <1>4. Live' = Live /\ SingleZone' = SingleZone /\ \A d \in MDs : (Free(d)' <=> Free(d)) /\ Of(d)' = Of(d)
    BY <1>0 DEF Live, SingleZone, Free, Of
  <1>5. InvListed'
    BY <1>0, <1>1, <1>2, <1>4 DEF IInv, InvListed, Listed
  <1>6. InvWrite'
    BY <1>0, <1>4 DEF IInv, InvWrite, Update
  <1>7. \A d \in MDs : \A z : Values(d, z) => Values(d, z)'
    BY <1>0, <1>2, <1>4 DEF Values, Of
  <1>8. InvAgree' /\ InvDecided'
    BY <1>0, <1>2, <1>4, <1>7 DEF IInv, InvAgree, InvDecided, Settled, Preset
  <1>. QED BY <1>3, <1>5, <1>6, <1>8 DEF IInv

\* VM Operator places the members without label, all of them at once.
LEMMA PlaceGroupStep ==
    ASSUME IInv, NEW f \in [MDs -> avail], PlaceGroup(f)
    PROVE  IInv'
  <1>. DEFINE new == {m \in vmg.members : ~vm[m].del /\ vm[m].zone = None /\ vm[m].label = None}
  <1>0. /\ UNCHANGED <<avail, md, pinned, edits, mach, mfd, vmg, cvmg, gpc, gbase, gnew, batch>>
        /\ \A m \in vmg.members : vm[m].exists
        /\ \E m : m \in new
        /\ \A d \in MDs : ZonesOf(d) # {} => f[d] \in ZonesOf(d)
        /\ vm' = [m \in Machines |-> IF m \in new THEN [vm[m] EXCEPT !.zone = f[MDOf[m]]] ELSE vm[m]]
    BY DEF PlaceGroup, mdVars, machVars, groupPass
  <1>1. \A d \in MDs : f[d] \in Zones /\ f[d] # None
    BY PlacementAssumption DEF IInv, TypeOK
  <1>2. vmg.members \subseteq Machines /\ vm \in [Machines -> VMType] /\ MDOf \in [Machines -> MDs]
    BY PlacementAssumption DEF IInv, TypeOK, VMGType
  <1>3. ASSUME NEW m \in Machines
        PROVE  /\ vm'[m] \in VMType /\ vm'[m].exists = vm[m].exists /\ vm'[m].del = vm[m].del
               /\ vm'[m].label = vm[m].label /\ vm'[m].bare = vm[m].bare
               /\ (m \notin new => vm'[m] = vm[m])
               /\ (m \in new => vm'[m].zone = f[MDOf[m]] /\ vm[m].exists)
    <2>1. MDOf[m] \in MDs /\ vm[m] \in VMType /\ f[MDOf[m]] \in Choice
      BY <1>1, <1>2 DEF Choice
    <2>2. [vm[m] EXCEPT !.zone = f[MDOf[m]]] \in VMType
      BY <2>1 DEF VMType
    <2>3. vm'[m] = IF m \in new THEN [vm[m] EXCEPT !.zone = f[MDOf[m]]] ELSE vm[m]
      BY <1>0
    <2>. QED BY <1>0, <2>1, <2>2, <2>3 DEF VMType
  <1>4. TypeOK'
    <2>1. vm' \in [Machines -> VMType]
      BY <1>0, <1>3
    <2>. QED BY <1>0, <2>1 DEF IInv, TypeOK
  <1>5. InvVM'
    BY <1>0, <1>3, EmptyTypes DEF IInv, InvVM
  <1>6. Live' = Live /\ \A d \in MDs : (Free(d)' <=> Free(d)) /\ Of(d)' = Of(d) /\ (Preset(d)' <=> Preset(d))
    BY <1>0 DEF Live, Free, Of, Preset
  <1>7. ASSUME NEW d \in MDs, Free(d), ~Values(d, None), NEW m \in new, m \in Of(d)
        PROVE  FALSE
    <2>1. m \in Machines /\ MDOf[m] = d /\ vm[m].exists
      BY <1>0, <1>7 DEF Of
    <2>2. CASE m \in batch
      BY <1>7, <2>1, <2>2 DEF IInv, InvDecided, Settled
    <2>3. CASE m \notin batch
      BY <1>7, <2>1, <2>3 DEF IInv, InvVM, Free
    <2>. QED BY <2>2, <2>3
  <1>. HIDE DEF new
  <1>8. InvAgree'
    <2>. SUFFICES ASSUME NEW d \in MDs, Free(d) PROVE \E z \in Zones : Values(d, z)'
      BY <1>6 DEF InvAgree
    <2>1. CASE Values(d, None)
      <3>1. \A m \in Of(d) : vm'[m].zone \in {None, f[d]} /\ vm'[m].label = None
        BY <1>3, <2>1 DEF Values, Of
      <3>2. Values(d, f[d])'
        BY <1>0, <1>6, <2>1, <3>1 DEF Values
      <3>. QED BY <1>1, <3>2
    <2>2. CASE ~Values(d, None)
      <3>1. PICK z \in Zones : Values(d, z)
        BY DEF IInv, InvAgree
      <3>2. \A m \in Of(d) : vm'[m] = vm[m]
        BY <1>3, <1>7, <2>2 DEF Of
      <3>3. Values(d, z)'
        BY <1>0, <1>6, <3>1, <3>2 DEF Values
      <3>. QED BY <3>3
    <2>. QED BY <2>1, <2>2
  <1>9. InvDecided'
    <2>. SUFFICES ASSUME NEW d \in MDs, Free(d) PROVE Settled(d)'
      BY <1>6 DEF InvDecided
    <2>. SUFFICES ASSUME NEW m \in batch, m \in Of(d), m \in vmg.members
                  PROVE  /\ (vm'[m].exists /\ ~vm'[m].del => vm'[m].zone # None \/ vm'[m].label # None)
                         /\ vm'[m].exists
      BY <1>0, <1>6 DEF Settled
    <2>1. m \in Machines /\ MDOf[m] = d
      BY DEF Of
    <2>2. CASE m \in new
      BY <1>0, <1>1, <1>3, <2>1, <2>2
    <2>3. CASE m \notin new
      BY <1>0, <1>3, <2>1, <2>3 DEF new
    <2>. QED BY <2>2, <2>3
  <1>10. cvmg.exists
    <2>1. \E m \in Machines : vm[m].exists
      BY <1>0, <1>2 DEF new
    <2>. QED BY <2>1, VMsAfterGroup
  <1>. QED BY <1>0, <1>4, <1>5, <1>6, <1>8, <1>9, <1>10, VMsKeep

-----------------------------------------------------------------------------
(* The theorems.                                                           *)

\* Every step keeps the inductive invariant.
LEMMA NextIInv == IInv /\ [Next]_vars => IInv'
  <1> SUFFICES ASSUME IInv, [Next]_vars PROVE IInv'
    OBVIOUS
  <1>1. CASE UNCHANGED vars
    <2>1. UNCHANGED <<avail, md, pinned, edits, mach, mfd, vmg, cvmg, gpc, gbase, gnew, vm, batch>>
      BY <1>1 DEF vars, mdVars, machVars, groupPass
    <2>2. TypeOK' /\ InvFree'
      BY <2>1 DEF IInv, TypeOK, InvFree
    <2>3. Outside
      BY <2>1 DEF Outside, Free, Live, SingleZone
    <2>. QED BY <2>2, <2>3, OutsideKeeps
  <1>2. ASSUME NEW d \in MDs, DeleteMD(d) PROVE IInv'
    <2>1. [md[d] EXCEPT !.del = TRUE] \in MDType
      BY DEF IInv, TypeOK, MDType
    <2>. QED BY <1>2, <2>1, EditMDStep DEF DeleteMD
  <1>3. ASSUME NEW d \in MDs, NEW n \in 0 .. MaxReplicas, Scale(d, n) PROVE IInv'
    <2>1. [md[d] EXCEPT !.replicas = n] \in MDType
      BY DEF IInv, TypeOK, MDType
    <2>. QED BY <1>3, <2>1, EditMDStep DEF Scale
  <1>4. ASSUME NEW d \in MDs, NEW f \in Choice, SetFailureDomain(d, f) PROVE IInv'
    <2>1. [md[d] EXCEPT !.fd = f] \in MDType
      BY DEF IInv, TypeOK, MDType
    <2>. QED BY <1>4, <2>1, EditMDStep DEF SetFailureDomain
  <1>5. ASSUME NEW m \in Machines,
               CreateMachine(m) \/ DeleteMachine(m) \/ MachinePass(m) \/ Operator(m)
        PROVE  IInv'
    BY <1>5, CreateMachineStep, DeleteMachineStep, ReconcileNormalStep, ReconcileDeleteStep,
       PlaceVMStep, ReportMemberStep, RemoveVMStep DEF MachinePass, Operator
  <1>6. CASE GroupEvent \/ GroupPass
    BY <1>6, GroupEventStep, ReconcileGroupStep, WriteGroupStep DEF GroupPass
  <1>7. CASE PlaceAll
    BY <1>7, PlaceGroupStep DEF PlaceAll
  <1>. QED BY <1>1, <1>2, <1>3, <1>4, <1>5, <1>6, <1>7, AddZoneStep DEF Next

\* The inductive invariant holds in every reachable state.
THEOREM Inductive == Spec => []IInv
  <1>. QED BY InitIInv, NextIInv, PTL DEF Spec

\* Type correctness of the placement.
THEOREM TypeCorrect == Spec => []TypeOK
  <1>1. IInv => TypeOK
    BY DEF IInv
  <1>. QED BY <1>1, Inductive, PTL

\* The VMs of a free MachineDeployment are all in one zone, although the
\* controller, the machines and VM Operator each choose from what they last saw.
THEOREM OneZone == Spec => []SameZone
  <1>1. ASSUME IInv, NEW d \in MDs \ pinned, ~md[d].del
        PROVE  Cardinality(ZonesOf(d)) <= 1
    <2>1. PICK z \in Zones : Values(d, z)
      BY <1>1 DEF IInv, InvAgree, Free
    <2>2. ZonesOf(d) \subseteq {z}
      BY <2>1 DEF Values, ZonesOf
    <2>3. ZonesOf(d) = {} \/ ZonesOf(d) = {z}
      BY <2>2
    <2>4. Cardinality({}) = 0 /\ Cardinality({z}) = 1
      BY FS_EmptySet, FS_Singleton
    <2>. QED BY <2>3, <2>4
  <1>2. IInv => SameZone
    BY <1>1 DEF SameZone
  <1>. QED BY <1>2, Inductive, PTL

\* A VM without zone label belongs to the batch the group was created with:
\* what joins later finds the placement.
THEOREM LateVMsAreLabelled == Spec => []LateVMsHaveZone
  <1>1. IInv => LateVMsHaveZone
    BY DEF IInv, InvVM, LateVMsHaveZone
  <1>. QED BY <1>1, Inductive, PTL

\* The annotation of a free MachineDeployment is written once, whatever version
\* of the group the pass started from.
THEOREM AnnotationStays == Spec => PlacementStays
  <1>1. ASSUME IInv, [Next]_vars
        PROVE  [\A d \in MDs \ pinned' :
                  ~md'[d].del /\ vmg.ann[d] # None => vmg'.ann[d] = vmg.ann[d]]_vars
    <2>. SUFFICES ASSUME Next, NEW d \in MDs \ pinned', ~md'[d].del, vmg.ann[d] # None
                  PROVE  vmg'.ann[d] = vmg.ann[d]
      BY <1>1
    <2>1. vmg' = vmg \/ WriteGroup \/ \E m \in Machines : ReportMember(m)
      BY DEF Next, DeleteMD, Scale, SetFailureDomain, EditMD, AddZone, CreateMachine, DeleteMachine,
           MachinePass, ReconcileNormal, ReconcileDelete, Operator, PlaceVM, RemoveVM, GroupEvent,
           GroupPass, ReconcileGroup, PlaceAll, PlaceGroup
    <2>2. CASE WriteGroup
      <3>1. pinned' = pinned /\ md' = md /\ gpc = "write"
        BY <2>2 DEF WriteGroup, mdVars
      <3>2. vmg.exists
        BY <1>1, EmptyTypes DEF IInv, InvStart
      <3>3. CASE SameVersion
        <4>1. gbase.exists /\ vmg = gbase
          BY <3>2, <3>3 DEF SameVersion
        <4>2. gnew.ann[d] = vmg.ann[d]
          BY <1>1, <3>1, <4>1 DEF IInv, InvWrite, Update, Free
        <4>3. vmg'.ann = gnew.ann
          BY <1>1, <2>2, <3>3 DEF WriteGroup, IInv, TypeOK, VMGType
        <4>. QED BY <4>2, <4>3
      <3>4. CASE ~SameVersion
        BY <2>2, <3>4 DEF WriteGroup
      <3>. QED BY <3>3, <3>4
    <2>3. ASSUME NEW m \in Machines, ReportMember(m) PROVE vmg'.ann = vmg.ann
      BY <1>1, <2>3 DEF ReportMember, IInv, TypeOK, VMGType
    <2>. QED BY <2>1, <2>2, <2>3
  <1>. QED BY <1>1, Inductive, PTL DEF Spec, PlacementStays
=============================================================================
