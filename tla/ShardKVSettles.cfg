SPECIFICATION FairSpec
CONSTANTS
    a = a
    x = x
    y = y
    c1 = c1
    c2 = c2
    k1 = k1
    k2 = k2
    Group = {1, 2, 3}
    Server = {a, x, y}
    GroupOf <- ThreeGroups
    NoServer = none
    NShards = 2
    Configs <- Together
    Key = {k1, k2}
    Key2Shard <- TwoShards
    Clerk = {c1}
    Script <- OneAppend
    Races = {}
    MaxTerm <- NoChange
    MaxCrashes <- NoCrash
    MaxTimeouts = 0
    MaxLate = 0
    SnapshotAt <- NoSnapshot
INVARIANTS
    NothingLost
PROPERTIES
    Follows
    Returns
CHECK_DEADLOCK FALSE
