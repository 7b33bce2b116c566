SPECIFICATION FairSpec
CONSTANTS
    MaxTasks = 10
    Drift = {"metadata"}
    PowerOffMode = "hard"
    Scenarios <- Delayed
PROPERTIES DeletionCompletes BecomesReady
CHECK_DEADLOCK FALSE
