SPECIFICATION Spec
CONSTANTS
    e1 = e1
    e2 = e2
    e3 = e3
    Entries = {e1, e2, e3}
    MaxSize = 3
    Requests <- MCRequests
    Empty = Empty
INVARIANTS TypeOK RingShape
PROPERTIES ImplementsTrail
