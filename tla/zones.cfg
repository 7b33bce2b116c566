SPECIFICATION Spec
CONSTANTS
    Zones = {"z1", "z2"}
    Machines = {"m1"}
    ZoneOf <- InFirst
    MaxFaults = 1
INVARIANTS UsedZoneKept
PROPERTIES OwnersHeal ClusterFollows ZonesGoDown
CHECK_DEADLOCK FALSE
