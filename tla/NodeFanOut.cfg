SPECIFICATION Spec
CONSTANTS
    n1 = n1
    n2 = n2
    n3 = n3
    Nodes = {n1, n2, n3}
    ClusterItems = 1
    NodeItems = 1
    MaxPar = 2
    Outcomes <- MCOutcomes
    NoNode = NoNode
INVARIANTS TypeOK NothingLost BoundedFanOut OverallIsWorst
PROPERTIES Returns
CHECK_DEADLOCK FALSE
