SPECIFICATION Spec
CONSTANTS
    k1 = k1
    k2 = k2
    v1 = v1
    v2 = v2
    Workers = {w1, w2}
    Keys = {k1, k2}
    Servers = {v1, v2}
    ServerOf <- TwoServers
    MaxSessions = 3
    MaxFailures = 2
    MaxHangs = 1
INVARIANTS OneSessionPerKey NoLeak
PROPERTIES SharedSessionKept WaitsForMutexOnly
CHECK_DEADLOCK FALSE
