SPECIFICATION Spec
CONSTANTS
    on = on
    off = off
    broken = broken
    p1 = p1
    Contents <- MCContents
    Invalid = {broken}
    Configs <- MCValid
    Settings <- MCValid
    Enabled = {on}
    NoCron = NoCron
    None = None
    Requests = {p1}
INVARIANTS TypeOK OnlyLateStoresAreStale NoCronForgotten
PROPERTIES LastEditApplied
