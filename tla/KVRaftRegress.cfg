SPECIFICATION Spec
CONSTANTS
    s1 = s1
    s2 = s2
    c1 = c1
    c2 = c2
    k1 = k1
    Server = {s1, s2}
    Clerk = {c1}
    Key = {k1}
    Script <- TwoAppends
    MaxStarts = 4
    MaxElections = 1
    MaxCrashes = 0
    MaxLate = 1
    SnapshotAt = {}
SYMMETRY Symmetry
INVARIANTS
    ExactlyOnce
CHECK_DEADLOCK FALSE
