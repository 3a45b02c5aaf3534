SPECIFICATION FairSpec
CONSTANTS
    Messages = {"m1", "m2"}
    Containers = {c1, c2}
    Poison = {"m2"}
    Refs <- MCRefs
    MaxReceive = 2
    MaxBatch = 3
    Configs <- SomeConfigs
CHECK_DEADLOCK FALSE
INVARIANTS
    NothingLost
    BatchmatesSpared
    SnapshotPerInvocation
PROPERTY EveryMessageSettles
