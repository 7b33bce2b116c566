SPECIFICATION FairSpec
CONSTANTS
    Owners = {"kcp", "md", "other"}
    Name <- Distinct
    Skipped = {"other"}
    VMs = {"v1", "v2"}
    OwnerOf <- VMOwner
    MaxModules = 10
    MaxChanges = 5
    MaxFaults = 2
INVARIANTS LeakBounded
PROPERTIES MachinesJoin ClusterGoes
CHECK_DEADLOCK FALSE
