SPECIFICATION Spec
CONSTANTS
    i1 = i1
    i2 = i2
    c1 = c1
    Identities = {i1, i2}
    Clusters = {c1}
    MaxSecrets = 2
    Starts <- Contests
INVARIANTS SingleOwner NoAbandonedSecret
PROPERTIES IdentityTakesNothing DeletionEnds
CHECK_DEADLOCK FALSE
