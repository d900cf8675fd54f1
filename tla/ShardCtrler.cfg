SPECIFICATION Spec
CONSTANTS
    NShards = 4
    Gid = {1, 2, 3, 4, 5}
    MaxConfigs = 5
VIEW LatestChange
INVARIANTS
    Balanced
    MovesFewest
    ReplicasAgree
    NoCircularWait
CHECK_DEADLOCK FALSE
