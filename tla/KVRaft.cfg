SPECIFICATION Spec
CONSTANTS
    s1 = s1
    s2 = s2
    c1 = c1
    c2 = c2
    k1 = k1
    Server = {s1, s2}
    Clerk = {c1, c2}
    Key = {k1}
    Script <- WritesAndRead
    MaxStarts = 3
    MaxElections = 2
    MaxCrashes = 1
    MaxLate = 1
    SnapshotAt = {1, 2}
CONSTRAINT Courses
SYMMETRY Symmetry
INVARIANTS
    TypeOK
    ExactlyOnce
    InProgramOrder
    ReadsFresh
CHECK_DEADLOCK FALSE
