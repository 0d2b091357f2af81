SPECIFICATION MigrationSpec
CONSTANTS
    n1 = n1
    r1 = r1
    Nodes = {n1}
    Runs = {r1}
    Keep = 3
    MaxTime = 3
    MaxTotal = 2
    Old = 2
    Absent = Absent
    Truncated = Truncated
CONSTRAINT Small
INVARIANTS NoSilentGrowth RecentGrowthFlagged GrowthFlaggedTwice MigrationComplete
CHECK_DEADLOCK FALSE
