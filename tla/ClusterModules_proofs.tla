----------------------- MODULE ClusterModules_proofs -----------------------
(***************************************************************************)
(* Cluster modules, for any owners, machines and numbers of changes and    *)
(* faults: the types, and that every fault leaks at most one module of     *)
(* each owner, the deletion of the cluster included.                       *)
(***************************************************************************)
EXTENDS ClusterModules, FiniteSetTheorems, TLAPS

\* The types hold at first
LEMMA InitTypeOK == Init => TypeOK
  <1> SUFFICES ASSUME Init PROVE TypeOK
    OBVIOUS
  <1>1. NewCluster \in Clusters
    BY DEF NewCluster, Clusters
  <1>2. failed \in BOOLEAN
    BY DEF Init
  <1> QED
    BY <1>1, <1>2, ClusterModulesAssumption DEF Init, TypeOK

\* and after every step
LEMMA TypeStep == TypeOK /\ [Next]_vars => TypeOK'
  <1> SUFFICES ASSUME TypeOK, [Next]_vars PROVE TypeOK'
    OBVIOUS
  <1> USE ClusterModulesAssumption DEF TypeOK, Clusters, k8s, rec, vc, Fault
  <1>1. CASE OwnersChange
    BY <1>1 DEF OwnersChange
  <1>2. CASE CacheSync
    BY <1>2 DEF CacheSync
  <1>3. CASE ModuleVanishes
    <2>1. modules' \subseteq Modules /\ members' \subseteq modules' \X VMs /\ faults' \in 0 .. MaxFaults
      BY <1>3 DEF ModuleVanishes, Gone
    <2> QED
      BY <1>3, <2>1 DEF ModuleVanishes
  <1>4. CASE Start
    <2>1. failed' \in BOOLEAN
      BY <1>4 DEF Start
    <2>2. faults' \in 0 .. MaxFaults
      BY <1>4 DEF Start
    <2> QED
      BY <1>4, <2>1, <2>2 DEF Start, FetchMachineOwnerObjects
  <1>5. CASE Verify
    <2>1. todo' \subseteq Modules /\ objectMap' \subseteq Owners /\ out' \subseteq Modules
      BY <1>5 DEF Verify
    <2>2. modules' \subseteq Modules /\ members' \subseteq modules' \X VMs
      BY <1>5 DEF Verify, Remove, DoesExist, Gone
    <2>3. failed' \in BOOLEAN
      BY <1>5 DEF Verify
    <2>4. faults' \in 0 .. MaxFaults
      BY <1>5 DEF Verify
    <2> QED
      BY <1>5, <2>1, <2>2, <2>3, <2>4 DEF Verify
  <1>6. CASE Verified
    BY <1>6 DEF Verified
  <1>7. CASE Create
    <2>1. \/ /\ \E m \in Modules : modules' = modules \cup {m} /\ out' = out \cup {m}
             /\ failed' = failed /\ faults' = faults
          \/ modules' = modules /\ out' = out /\ failed' = failed /\ faults' = faults
          \/ Fault /\ failed' = TRUE /\ modules' = modules /\ out' = out
      BY <1>7 DEF Create, CreateModule
    <2>2. modules \subseteq modules' /\ modules' \subseteq Modules /\ out' \subseteq Modules
      BY <2>1
    <2>3. failed' \in BOOLEAN
      BY <2>1
    <2>4. faults' \in 0 .. MaxFaults
      BY <2>1
    <2>5. objectMap' \subseteq Owners /\ members' \subseteq modules' \X VMs
      BY <1>7, <2>2 DEF Create
    <2> QED
      BY <1>7, <2>2, <2>3, <2>4, <2>5 DEF Create
  <1>8. CASE Patch
    <2>1. failed' \in BOOLEAN /\ base' \in Clusters
      BY <1>8 DEF Patch, Return, NewCluster
    <2>2. api' \in Clusters /\ faults' \in 0 .. MaxFaults
      BY <1>8 DEF Patch
    <2> QED
      BY <1>8, <2>1, <2>2 DEF Patch, Return
  <1>9. CASE Crash
    <2>1. failed' \in BOOLEAN /\ base' \in Clusters
      BY <1>9 DEF Crash, Return, NewCluster
    <2> QED
      BY <1>9, <2>1 DEF Crash, Return
  <1>10. ASSUME NEW v \in VMs, Join(v) PROVE TypeOK'
    BY <1>10 DEF Join
  <1>11. CASE UNCHANGED vars
    BY <1>11 DEF vars
  <1> QED
    BY <1>1, <1>2, <1>3, <1>4, <1>5, <1>6, <1>7, <1>8, <1>9, <1>10, <1>11 DEF Next, Reconcile

\* Every variable keeps its type: the records of the VSphereCluster in the API
\* server, the cache and a reconcile, and memberships of existing modules only
\* (clustermodule_reconciler.go:68-199)
THEOREM TypeCorrect == Spec => []TypeOK
  BY InitTypeOK, TypeStep, PTL DEF Spec

-----------------------------------------------------------------------------
(* A fault leaks at most one module of each owner.                         *)

\* One module of each owner
OneEach(S) == \A m, n \in S : m.owner = n.owner => m = n

\* Whatever is on record is of an owner that gets modules, and the reconcile has
\* no owner twice
Recorded ==
    /\ OneEach(out) /\ OneEach(api.mods)
    /\ \A m \in out : m.owner \notin objectMap
    /\ \A m \in out \cup todo \cup api.mods \cup cache.mods \cup base.mods : m.owner \notin Skipped
    /\ pc = "idle" => out = {} /\ todo = {}
    /\ pc = "create" => todo = {}
    /\ IsFiniteSet(modules)

\* The cluster is deleted after its owners, and a pass that sees the deletion has
\* no owner to keep a module for
Emptied ==
    /\ api.stage # "live" => live = {}
    /\ cache.stage # "live" \/ base.stage # "live" => api.stage # "live"
    /\ base.stage # "live" \/ api.stage = "gone" => objectMap = {} /\ out = {}

\* A pass that has met no fault knows every module of the VSphereCluster: when it
\* ends nothing is lost
Settled ==
    pc # "idle" =>
      /\ api.stage # "gone" /\ base.mods = api.mods
      /\ modules \cap base.mods \subseteq todo \cup out

PerFault == Cardinality(Owners \ Skipped)

\* A pass that met a fault may lose one module of each owner when it ends: that
\* loss is set aside until then
LeakInv ==
    /\ Settled => Cardinality(Leaked) <= PerFault * faults
    /\ ~Settled => faults > 0 /\ Cardinality(Leaked) <= PerFault * (faults - 1)

\* The limit grows with the faults
LEMMA Limits ==
    ASSUME NEW f \in Nat
    PROVE  /\ PerFault \in Nat
           /\ PerFault * (f + 1) = PerFault * f + PerFault
           /\ f > 0 => PerFault * f = PerFault * (f - 1) + PerFault
           /\ PerFault * f \in Nat
  <1>1. PerFault \in Nat
    BY ClusterModulesAssumption, FS_Difference, FS_CardinalityType DEF PerFault
  <1> QED BY <1>1

\* One module of each owner is not more than there are owners
LEMMA OneEachBounded ==
    ASSUME NEW X, X \subseteq Modules, OneEach(X), \A m \in X : m.owner \notin Skipped
    PROVE  IsFiniteSet(X) /\ Cardinality(X) <= PerFault
  <1> DEFINE f == [m \in X |-> m.owner]
  <1>1. f \in Injection(X, Owners \ Skipped)
    BY DEF OneEach, Modules, Injection, IsInjective
  <1>2. IsFiniteSet(Owners \ Skipped)
    BY ClusterModulesAssumption, FS_Difference
  <1> HIDE DEF f
  <1> QED BY <1>1, <1>2, FS_Injection DEF PerFault

\* What is leaked when one module of each owner is lost
LEMMA LeakGrows ==
    ASSUME NEW A, IsFiniteSet(A), NEW B, NEW X, X \subseteq Modules, OneEach(X),
           \A m \in X : m.owner \notin Skipped, B \subseteq A \cup X
    PROVE  Cardinality(B) <= Cardinality(A) + PerFault
  <1>1. IsFiniteSet(X) /\ Cardinality(X) <= PerFault
    BY OneEachBounded
  <1>2. /\ IsFiniteSet(A \cup X)
        /\ Cardinality(A \cup X) = Cardinality(A) + Cardinality(X) - Cardinality(A \cap X)
    BY <1>1, FS_Union
  <1>3. IsFiniteSet(B) /\ Cardinality(B) <= Cardinality(A \cup X)
    BY <1>2, FS_Subset
  <1>4. IsFiniteSet(A \cap X)
    BY FS_Subset
  <1>5. /\ Cardinality(A) \in Nat /\ Cardinality(X) \in Nat /\ Cardinality(B) \in Nat
        /\ Cardinality(A \cap X) \in Nat /\ Cardinality(A \cup X) \in Nat
    BY <1>1, <1>2, <1>3, <1>4, FS_CardinalityType
  <1>6. PerFault \in Nat
    BY Limits
  <1> QED BY <1>1, <1>2, <1>3, <1>5, <1>6

\* The owners of the modules on record, after every step
LEMMA RecordedStep ==
    ASSUME TypeOK, Recorded, [Next]_vars
    PROVE  Recorded'
  <1> USE DEF Recorded, OneEach, k8s, rec, vc
  <1>1. CASE OwnersChange
    BY <1>1 DEF OwnersChange, TypeOK, Clusters
  <1>2. CASE CacheSync
    BY <1>2 DEF CacheSync
  <1>3. CASE ModuleVanishes
    <2>1. IsFiniteSet(modules')
      BY <1>3, FS_Subset DEF ModuleVanishes, Gone
    <2> QED BY <1>3, <2>1 DEF ModuleVanishes
  <1>4. CASE Start
    BY <1>4 DEF Start
  <1>5. CASE Verify
    <2>1. PICK m \in todo :
            /\ todo' = todo \ {m}
            /\ modules' \subseteq modules
            /\ \/ out' = out /\ objectMap' = objectMap
               \/ /\ m.owner \in objectMap
                  /\ out' = out \cup {m} /\ objectMap' = objectMap \ {m.owner}
      BY <1>5 DEF Verify, Remove, Gone
    <2>2. IsFiniteSet(modules')
      BY <2>1, FS_Subset
    <2>3. OneEach(out') /\ \A n \in out' : n.owner \notin objectMap'
      BY <2>1
    <2> QED BY <1>5, <2>1, <2>2, <2>3 DEF Verify
  <1>6. CASE Verified
    BY <1>6 DEF Verified
  <1>7. CASE Create
    <2>1. PICK o \in objectMap :
            /\ objectMap' = objectMap \ {o}
            /\ \/ \E m \in Modules : /\ m.owner = o /\ o \notin Skipped
                                     /\ modules' = modules \cup {m} /\ out' = out \cup {m}
               \/ modules' = modules /\ out' = out
      BY <1>7 DEF Create, CreateModule
    <2>2. IsFiniteSet(modules')
      BY <2>1, FS_AddElement
    <2>3. /\ OneEach(out')
          /\ \A n \in out' : n.owner \notin objectMap' /\ n.owner \notin Skipped
      BY <2>1
    <2> QED BY <1>7, <2>2, <2>3 DEF Create
  <1>8. CASE Patch
    <2>1. /\ out' = {} /\ todo' = {} /\ base'.mods = {} /\ pc' = "idle"
          /\ UNCHANGED <<cache, modules>> /\ api'.mods \in {out, api.mods}
      BY <1>8 DEF Patch, Return, NewCluster
    <2> QED BY <2>1
  <1>9. CASE Crash
    <2>1. /\ out' = {} /\ todo' = {} /\ base'.mods = {} /\ pc' = "idle"
          /\ cache' = api /\ UNCHANGED <<api, modules>>
      BY <1>9 DEF Crash, Return, NewCluster
    <2> QED BY <2>1
  <1>10. ASSUME NEW v \in VMs, Join(v) PROVE Recorded'
    BY <1>10 DEF Join
  <1>11. CASE UNCHANGED vars
    BY <1>11 DEF vars
  <1> QED
    BY <1>1, <1>2, <1>3, <1>4, <1>5, <1>6, <1>7, <1>8, <1>9, <1>10, <1>11 DEF Next, Reconcile

\* An emptied cluster stays so, and a pass that finds it empty adds nothing
LEMMA EmptiedStep ==
    ASSUME TypeOK, Emptied, [Next]_vars
    PROVE  Emptied'
  <1> USE DEF Emptied, k8s, rec, vc
  <1>0. api.stage \in {"live", "deleting", "gone"}
    BY DEF TypeOK, Clusters
  <1>1. CASE OwnersChange
    <2>1. \/ api.stage = "live" /\ api' = api
          \/ live' \subseteq live /\ api' = api
          \/ live = {} /\ live' = {} /\ api.stage = "live" /\ api'.stage = "deleting"
      BY <1>1 DEF OwnersChange, TypeOK, Clusters
    <2> QED BY <1>1, <2>1 DEF OwnersChange
  <1>2. CASE CacheSync
    BY <1>2 DEF CacheSync
  <1>3. CASE ModuleVanishes
    BY <1>3 DEF ModuleVanishes
  <1>4. CASE Start
    BY <1>0, <1>4 DEF Start, FetchMachineOwnerObjects
  <1>5. CASE Verify
    <2>1. \/ out' = out /\ objectMap' = objectMap
          \/ \E m \in todo : m.owner \in objectMap
      BY <1>5 DEF Verify
    <2> QED BY <1>5, <2>1 DEF Verify
  <1>6. CASE Verified
    BY <1>6 DEF Verified
  <1>7. CASE Create
    BY <1>7 DEF Create
  <1>8. CASE Patch
    <2>1. /\ objectMap' = {} /\ out' = {} /\ base'.stage = "live" /\ UNCHANGED <<live, cache>>
          /\ \/ api' = api
             \/ api'.stage = api.stage
             \/ base.stage = "deleting" /\ api'.stage = "gone"
      BY <1>8 DEF Patch, Return, NewCluster
    <2> QED BY <2>1
  <1>9. CASE Crash
    <2>1. /\ objectMap' = {} /\ out' = {} /\ base'.stage = "live" /\ UNCHANGED <<live, api>>
          /\ cache' = api
      BY <1>9 DEF Crash, Return, NewCluster
    <2> QED BY <2>1
  <1>10. ASSUME NEW v \in VMs, Join(v) PROVE Emptied'
    BY <1>10 DEF Join
  <1>11. CASE UNCHANGED vars
    BY <1>11 DEF vars
  <1> QED
    BY <1>1, <1>2, <1>3, <1>4, <1>5, <1>6, <1>7, <1>8, <1>9, <1>10, <1>11 DEF Next, Reconcile

\* What is leaked can be counted
LEMMA LeakedFinite ==
    ASSUME Recorded
    PROVE  IsFiniteSet(Leaked)
  <1>1. IsFiniteSet(modules)
    BY DEF Recorded
  <1>2. Leaked \subseteq modules
    BY DEF Leaked
  <1> QED BY <1>1, <1>2, FS_Subset

\* A step that loses no module keeps the limit
LEMMA LeakKept ==
    ASSUME TypeOK, Recorded, LeakInv, Leaked' \subseteq Leaked,
           \/ faults' = faults /\ (Settled => Settled')
           \/ Fault
    PROVE  LeakInv'
  <1>1. faults \in Nat /\ faults' \in Nat /\ IsFiniteSet(Leaked)
    <2>1. faults \in Nat
      BY ClusterModulesAssumption DEF TypeOK
    <2>2. faults' \in Nat
      BY <2>1 DEF Fault
    <2> QED BY <2>1, <2>2, LeakedFinite
  <1>2. /\ Cardinality(Leaked') \in Nat /\ Cardinality(Leaked) \in Nat
        /\ Cardinality(Leaked') <= Cardinality(Leaked)
    BY <1>1, FS_Subset, FS_CardinalityType
  <1>3. /\ PerFault \in Nat
        /\ PerFault * (faults + 1) = PerFault * faults + PerFault
        /\ faults > 0 => PerFault * faults = PerFault * (faults - 1) + PerFault
        /\ PerFault * faults \in Nat
    BY <1>1, Limits
  <1>4. CASE Fault
    <2>1. faults' = faults + 1 /\ faults' - 1 = faults
      BY <1>1, <1>4 DEF Fault
    <2>2. Cardinality(Leaked') <= PerFault * faults
      <3>1. CASE Settled
        BY <1>2, <1>3, <3>1 DEF LeakInv
      <3>2. CASE ~Settled
        <4>1. faults > 0 /\ Cardinality(Leaked) <= PerFault * (faults - 1) /\ faults - 1 \in Nat
          BY <1>1, <3>2 DEF LeakInv
        <4>2. PerFault * (faults - 1) \in Nat
          BY <4>1, Limits
        <4> QED BY <1>2, <1>3, <4>1, <4>2
      <3> QED BY <3>1, <3>2
    <2>3. PerFault * faults <= PerFault * faults'
      BY <1>3, <2>1
    <2> QED BY <1>1, <1>2, <1>3, <2>1, <2>2, <2>3 DEF LeakInv, PerFault
  <1>5. CASE faults' = faults /\ (Settled => Settled')
    <2>1. Settled /\ Settled' => Cardinality(Leaked') <= PerFault * faults'
      BY <1>2, <1>3, <1>5 DEF LeakInv
    <2>2. ~Settled => /\ faults > 0 /\ Cardinality(Leaked') <= PerFault * (faults - 1)
                      /\ PerFault * (faults - 1) \in Nat
      <3>1. ~Settled => faults > 0 /\ faults - 1 \in Nat
        BY <1>1 DEF LeakInv
      <3> QED BY <1>2, <3>1, Limits DEF LeakInv
    <2>3. ~Settled /\ Settled' => Cardinality(Leaked') <= PerFault * faults'
      BY <1>2, <1>3, <1>5, <2>2
    <2> QED BY <1>5, <2>1, <2>2, <2>3 DEF LeakInv, PerFault
  <1> QED BY <1>4, <1>5

\* The end of a pass: it was settled and loses nothing, or it had met a fault, or
\* the fault is its end
LEMMA LeakEnds ==
    ASSUME TypeOK, Recorded, LeakInv, pc' = "idle", faults' \in Nat,
           NEW X, X \subseteq Modules, OneEach(X), \A m \in X : m.owner \notin Skipped,
           Leaked' \subseteq Leaked \cup X,
           \/ faults' = faults /\ ~Settled
           \/ Fault
    PROVE  LeakInv'
  <1>1. faults \in Nat /\ IsFiniteSet(Leaked)
    <2>1. faults \in Nat
      BY ClusterModulesAssumption DEF TypeOK
    <2> QED BY <2>1, LeakedFinite
  <1>2. Settled'
    BY DEF Settled
  <1>3. Cardinality(Leaked') <= Cardinality(Leaked) + PerFault
    BY <1>1, LeakGrows
  <1>4. /\ PerFault \in Nat
        /\ PerFault * (faults + 1) = PerFault * faults + PerFault
        /\ faults > 0 => PerFault * faults = PerFault * (faults - 1) + PerFault
    BY <1>1, Limits
  <1>5. /\ Cardinality(Leaked) \in Nat /\ Cardinality(Leaked') \in Nat
    <2>1. IsFiniteSet(X)
      BY OneEachBounded
    <2>2. IsFiniteSet(Leaked')
      BY <1>1, <2>1, FS_Union, FS_Subset
    <2> QED BY <1>1, <2>2, FS_CardinalityType
  <1>6. ~Settled => /\ faults > 0 /\ Cardinality(Leaked) <= PerFault * (faults - 1)
                    /\ PerFault * (faults - 1) \in Nat
    <2>1. ~Settled => faults > 0 /\ faults - 1 \in Nat
      BY <1>1 DEF LeakInv
    <2> QED BY <2>1, Limits DEF LeakInv
  <1>7. Cardinality(Leaked') <= PerFault * faults'
    <2>1. CASE faults' = faults /\ ~Settled
      BY <1>3, <1>4, <1>5, <1>6, <2>1
    <2>2. CASE Fault
      <3>1. faults' = faults + 1
        BY <2>2 DEF Fault
      <3>2. Cardinality(Leaked) <= PerFault * faults
        <4>1. CASE Settled
          BY <4>1 DEF LeakInv
        <4>2. CASE ~Settled
          BY <1>4, <1>5, <1>6, <4>2
        <4> QED BY <4>1, <4>2
      <3>3. PerFault * faults \in Nat
        BY <1>1, Limits
      <3> QED BY <1>3, <1>4, <1>5, <3>1, <3>2, <3>3
    <2> QED BY <2>1, <2>2
  <1> QED BY <1>2, <1>7 DEF LeakInv, PerFault

\* The limit is kept by every step
LEMMA LeakStep ==
    ASSUME TypeOK, TypeOK', Recorded, Emptied, LeakInv, [Next]_vars
    PROVE  LeakInv'
  <1> USE DEF k8s, rec, vc, OnRecord
  <1>0. faults' \in Nat
    BY ClusterModulesAssumption DEF TypeOK
  <1>1. CASE OwnersChange
    <2>1. Leaked' \subseteq Leaked /\ faults' = faults /\ (Settled => Settled')
      BY <1>1 DEF OwnersChange, Leaked, Settled, TypeOK, Clusters
    <2> QED BY <2>1, LeakKept
  <1>2. CASE CacheSync
    <2>1. Leaked' \subseteq Leaked /\ faults' = faults /\ (Settled => Settled')
      BY <1>2 DEF CacheSync, Leaked, Settled
    <2> QED BY <2>1, LeakKept
  <1>3. CASE ModuleVanishes
    <2>1. Leaked' \subseteq Leaked /\ Fault
      BY <1>3 DEF ModuleVanishes, Gone, Leaked
    <2> QED BY <2>1, LeakKept
  <1>4. CASE Start
    <2>1. Leaked' \subseteq Leaked
      BY <1>4 DEF Start, Leaked, Recorded
    <2>2. Fault \/ (faults' = faults /\ Settled')
      BY <1>4 DEF Start, Settled
    <2> QED BY <2>1, <2>2, LeakKept
  <1>5. CASE Verify
    <2>1. PICK m \in todo :
            /\ todo' = todo \ {m}
            /\ \/ modules' = modules \ {m} /\ out' = out /\ faults' = faults
               \/ Fault /\ (out' = out \/ out' = out \cup {m}) /\ modules' = modules
               \/ modules' = modules /\ out' = out \cup {m} /\ faults' = faults
               \/ m \notin modules /\ modules' = modules /\ out' = out /\ faults' = faults
      BY <1>5 DEF Verify, Remove, DoesExist, Gone
    <2>2. Leaked' \subseteq Leaked
      BY <1>5, <2>1 DEF Verify, Leaked
    <2>3. Fault \/ (faults' = faults /\ (Settled => Settled'))
      BY <1>5, <2>1 DEF Verify, Settled
    <2> QED BY <2>2, <2>3, LeakKept
  <1>6. CASE Verified
    <2>1. Leaked' \subseteq Leaked /\ faults' = faults /\ (Settled => Settled')
      BY <1>6 DEF Verified, Leaked, Settled
    <2> QED BY <2>1, LeakKept
  <1>7. CASE Create
    <2>1. \/ \E m : modules' = modules \cup {m} /\ out' = out \cup {m} /\ faults' = faults
          \/ modules' = modules /\ out' = out /\ faults' = faults
          \/ Fault /\ modules' = modules /\ out' = out
      BY <1>7 DEF Create, CreateModule
    <2>2. Leaked' \subseteq Leaked
      BY <1>7, <2>1 DEF Create, Leaked
    <2>3. Fault \/ (faults' = faults /\ (Settled => Settled'))
      BY <1>7, <2>1 DEF Create, Settled
    <2> QED BY <2>2, <2>3, LeakKept
  <1>8. CASE Patch
    <2>1. /\ pc = "create" /\ pc' = "idle" /\ out' = {} /\ modules' = modules
          /\ \/ /\ api.stage # "gone" /\ faults' = faults
                /\ api'.mods = IF out # base.mods THEN out ELSE api.mods
                /\ \/ api'.stage = api.stage
                   \/ base.stage = "deleting" /\ api'.stage = "gone"
             \/ api.stage = "gone" /\ api' = api /\ faults' = faults
             \/ Fault /\ api' = api
      BY <1>8 DEF Patch, Return
    <2>2. todo = {} /\ out \subseteq Modules /\ api.mods \subseteq Modules
      BY <2>1 DEF Recorded, TypeOK, Clusters
    <2>3. CASE Settled /\ faults' = faults
      <3>1. ~Fault
        BY <2>3, ClusterModulesAssumption DEF Fault, TypeOK
      <3>2. /\ base.mods = api.mods /\ modules \cap base.mods \subseteq out /\ api.stage # "gone"
            /\ api'.mods = IF out # base.mods THEN out ELSE api.mods
            /\ \/ api'.stage = api.stage
               \/ base.stage = "deleting" /\ api'.stage = "gone"
        BY <2>1, <2>2, <2>3, <3>1 DEF Settled
      <3>3. base.stage = "deleting" => out = {}
        BY DEF Emptied
      <3>4. Leaked' \subseteq Leaked
        BY <2>1, <3>2, <3>3 DEF Leaked
      <3> QED BY <2>1, <2>3, <3>4, LeakKept DEF Settled
    <2>4. CASE api' = api /\ (Fault \/ (faults' = faults /\ ~Settled))
      <3>1. Leaked' \subseteq Leaked \cup out
        BY <2>1, <2>4 DEF Leaked
      <3> QED BY <1>0, <2>1, <2>2, <2>4, <3>1, LeakEnds DEF Recorded
    <2>5. CASE ~Settled /\ faults' = faults /\ api'.mods \in {out, api.mods} /\ api'.stage = api.stage
      <3>1. CASE api'.mods = out
        <4>1. Leaked' \subseteq Leaked \cup api.mods
          BY <2>1, <2>5, <3>1 DEF Leaked
        <4> QED BY <1>0, <2>1, <2>2, <2>5, <4>1, LeakEnds DEF Recorded
      <3>2. CASE api'.mods = api.mods
        <4>1. Leaked' \subseteq Leaked \cup out
          BY <2>1, <2>5, <3>2 DEF Leaked
        <4> QED BY <1>0, <2>1, <2>2, <2>5, <4>1, LeakEnds DEF Recorded
      <3> QED BY <2>5, <3>1, <3>2
    <2>6. CASE ~Settled /\ faults' = faults /\ base.stage = "deleting" /\ api'.stage = "gone"
      <3>1. out = {}
        BY <2>6 DEF Emptied
      <3>2. Leaked' \subseteq Leaked \cup api.mods
        BY <2>1, <2>6, <3>1 DEF Leaked
      <3> QED BY <1>0, <2>1, <2>2, <2>6, <3>2, LeakEnds DEF Recorded
    <2> QED BY <2>1, <2>3, <2>4, <2>5, <2>6
  <1>9. CASE Crash
    <2>1. Fault /\ pc' = "idle" /\ out' = {} /\ UNCHANGED <<api, modules>>
      BY <1>9 DEF Crash, Return
    <2>2. Leaked' \subseteq Leaked \cup out
      BY <2>1 DEF Leaked
    <2> QED BY <1>0, <2>1, <2>2, LeakEnds DEF Recorded, TypeOK
  <1>10. ASSUME NEW v \in VMs, Join(v) PROVE LeakInv'
    <2>1. Leaked' \subseteq Leaked /\ faults' = faults /\ (Settled => Settled')
      BY <1>10 DEF Join, Leaked, Settled
    <2> QED BY <2>1, LeakKept
  <1>11. CASE UNCHANGED vars
    <2>1. Leaked' \subseteq Leaked /\ faults' = faults /\ (Settled => Settled')
      BY <1>11 DEF vars, Leaked, Settled
    <2> QED BY <2>1, LeakKept
  <1> QED
    BY <1>1, <1>2, <1>3, <1>4, <1>5, <1>6, <1>7, <1>8, <1>9, <1>10, <1>11 DEF Next, Reconcile

\* A fault leaks at most one module of each owner that gets modules, whatever it is
\* and wherever it meets the pass: a stale VSphereCluster, a failing call, a refused
\* patch or a restart, and also when the cluster is gone (clustermodule_reconciler.go:110,
\* 151, 167, vspherecluster_reconciler.go:219)
THEOREM LeaksAreBounded == Spec => []LeakBounded
  <1> DEFINE Inv == TypeOK /\ Recorded /\ Emptied /\ LeakInv
  <1>1. Init => Inv
    <2> SUFFICES ASSUME Init PROVE Recorded /\ Emptied /\ LeakInv
      BY InitTypeOK
    <2>1. modules = {} /\ IsFiniteSet(modules) /\ Leaked = {} /\ Cardinality(Leaked) = 0
      BY FS_EmptySet DEF Init, Leaked
    <2>2. Recorded
      BY <2>1 DEF Init, Recorded, OneEach, NewCluster
    <2>6. Emptied
      BY DEF Init, Emptied, NewCluster
    <2>3. PerFault \in Nat
      BY Limits
    <2>4. Settled /\ faults = 0
      BY DEF Init, Settled
    <2>5. LeakInv
      BY <2>1, <2>3, <2>4 DEF LeakInv
    <2> QED BY <2>2, <2>5, <2>6
  <1>2. Inv /\ [Next]_vars => Inv'
    BY TypeStep, RecordedStep, EmptiedStep, LeakStep
  <1>3. Inv => LeakBounded
    <2> SUFFICES ASSUME Inv PROVE LeakBounded
      OBVIOUS
    <2>1. faults \in Nat
      BY ClusterModulesAssumption DEF TypeOK
    <2>2. CASE Settled
      BY <2>2 DEF LeakInv, LeakBounded, PerFault
    <2>3. CASE ~Settled
      <3>1. faults > 0 /\ faults - 1 \in Nat /\ Cardinality(Leaked) <= PerFault * (faults - 1)
        BY <2>1, <2>3 DEF LeakInv
      <3>2. /\ PerFault \in Nat /\ PerFault * (faults - 1) \in Nat
            /\ PerFault * faults = PerFault * (faults - 1) + PerFault
        BY <2>1, <3>1, Limits
      <3>3. Cardinality(Leaked) \in Nat
        BY FS_Difference, FS_CardinalityType DEF Recorded, Leaked
      <3>4. Cardinality(Leaked) <= PerFault * faults
        BY <3>1, <3>2, <3>3
      <3> QED BY <3>4 DEF LeakBounded, PerFault
    <2> QED BY <2>2, <2>3
  <1> QED BY <1>1, <1>2, <1>3, PTL DEF Spec
=============================================================================
