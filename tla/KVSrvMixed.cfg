SPECIFICATION FairSpec
CONSTANTS
    c1 = c1
    c2 = c2
    c3 = c3
    k1 = k1
    k2 = k2
    Clerk = {c1, c2, c3}
    Key = {k1, k2}
    Script <- MixedScript
INVARIANTS
    BitsInStep
PROPERTIES
    Linearizable
    AllReturn
CHECK_DEADLOCK FALSE
