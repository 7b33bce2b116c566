SPECIFICATION Spec
CONSTANTS
    MaxTasks = 8
    Drift = {"hardware", "group"}
    PowerOffMode = "trySoft"
    Scenarios <- Ordinary
INVARIANTS SafeInv OneTaskAtATime
PROPERTIES FailedTaskBacksOff KeepsPromise
CHECK_DEADLOCK FALSE
