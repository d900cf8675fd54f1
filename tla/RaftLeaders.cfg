CONSTANTS
    s1 = s1
    s2 = s2
    s3 = s3
    c1 = c1
    c2 = c2
    Nil = Nil
    Noop = Noop
    Server <- Servers3
    Commands = {c1, c2}
    Submits <- Submits3
    Races = {"lateReply", "stalePoll"}
    Bids <- AndBack
    MaxLog = 4
    MaxAppends <- Rising
    MaxCrashes <- First
    MaxSnapshot <- None
SPECIFICATION Spec
CONSTRAINT Courses
INVARIANTS
    AppliedAgree
    LeaderCompleteness
    MatchIndexSound
\* The instance is bounded and may run out of steps.
CHECK_DEADLOCK FALSE
