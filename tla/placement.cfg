SPECIFICATION Spec
CONSTANTS
    d1 = d1
    d2 = d2
    m1 = m1
    m2 = m2
    m3 = m3
    None = None
    MDs = {d1, d2}
    Machines = {m1, m2, m3}
    Zones = {z1, z2}
    InitialZones = {{z1}, {z1, z2}}
    MDOf <- MCMDOf
    MaxReplicas = 2
    MaxEdits = 1
INVARIANTS SameZone LateVMsHaveZone
PROPERTIES PlacementStays MachinesGetReady
CHECK_DEADLOCK FALSE
