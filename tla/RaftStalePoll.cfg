CONSTANTS
    s1 = s1
    s2 = s2
    s3 = s3
    c1 = c1
    c2 = c2
    Nil = Nil
    Noop = Noop
    Server <- Servers3
    Commands = {c1, c2}
    Submits <- NoSubmits
    Races = {"stalePoll"}
    Bids <- Anyone
    MaxLog = 3
    MaxAppends <- NoAppends
    MaxCrashes <- None
    MaxSnapshot <- None
SPECIFICATION Spec
SYMMETRY Symmetry3
INVARIANTS
    ElectionSafety
\* The instance is bounded and may run out of steps.
CHECK_DEADLOCK FALSE
