SPECIFICATION FairSpec
CONSTANTS
    c = c
    Commands = {c}
    Noop = Noop
    Committed <- TwoLeaders
    MaxReboots = 1
INVARIANTS
    TypeOK
    InOrder
    Accounted
    SnapshotFitsLog
PROPERTIES
    LeaderDelivers
