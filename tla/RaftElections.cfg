CONSTANTS
    s1 = s1
    s2 = s2
    s3 = s3
    c1 = c1
    c2 = c2
    Nil = Nil
    Noop = Noop
    Server <- Servers3
    Commands = {c1, c2}
    Submits <- FirstSubmits
    Races = {"midWin"}
    Bids <- Anyone
    MaxLog = 4
    MaxAppends <- LongFirst
    MaxCrashes <- Each
    MaxSnapshot <- Second
SPECIFICATION Spec
SYMMETRY LeaderSymmetry
CONSTRAINT ElectOrLead
INVARIANTS
    TypeOK
    IndexInv
    ElectionSafety
    AppliedAgree
PROPERTIES
    VotesStable
\* The instance is bounded and may run out of steps.
CHECK_DEADLOCK FALSE
