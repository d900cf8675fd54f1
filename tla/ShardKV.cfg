SPECIFICATION Spec
CONSTANTS
    a = a
    x = x
    y = y
    c1 = c1
    c2 = c2
    k1 = k1
    k2 = k2
    Group = {1, 2}
    Server = {a, x, y}
    GroupOf <- TwoGroups
    NoServer = none
    NShards = 1
    Configs <- ThereAndBack
    Key = {k1}
    Key2Shard <- OneShard
    Clerk = {c1, c2}
    Script <- Calls
    Races = {}
    MaxTerm <- OneChange
    MaxCrashes <- CrashX
    MaxTimeouts = 1
    MaxLate = 1
    SnapshotAt <- MidMove
CONSTRAINT Bounded
ACTION_CONSTRAINT Scheduled
INVARIANTS
    OneServes
    NothingLost
    ExactlyOnce
    AllWritten
    ReadsFresh
CHECK_DEADLOCK FALSE
