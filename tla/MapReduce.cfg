SPECIFICATION FairSpec
CONSTANTS
    Worker = {w1, w2}
    NMap = 2
    NReduce = 1
    MaxCrashes = 1
    Faults = {"slow", "io error"}
INVARIANTS
    FinishesOwnTask
    OneTaskEach
    MapsKept
    
PROPERTIES
    Terminates
