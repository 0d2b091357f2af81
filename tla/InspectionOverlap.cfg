SPECIFICATION Spec
CONSTANTS
    n1 = n1
    r1 = r1
    r2 = r2
    Nodes = {n1}
    Runs = {r1, r2}
    Keep = 1
    MaxTime = 1
    MaxTotal = 2
    Absent = Absent
    Truncated = Truncated
SYMMETRY Symmetry
INVARIANTS TypeOK NoSilentGrowth
PROPERTIES PruneKeepsNewest
CHECK_DEADLOCK FALSE
