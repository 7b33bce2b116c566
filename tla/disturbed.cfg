SPECIFICATION Spec
CONSTANTS
    MaxTasks = 11
    Drift = {"policy"}
    PowerOffMode = "hard"
    Scenarios <- Disturbed
INVARIANTS NoConcurrentClones NoOrphan
PROPERTIES NoSecondClone
CHECK_DEADLOCK FALSE
