SPECIFICATION Spec
CONSTANTS
    dc1 = dc1
    dc10 = dc10
    DC1 = DC1
    Names <- MCNames
    Lower <- MCLower
    Within <- MCWithin
    NotAName = NotAName
INVARIANTS TypeOK SummaryAccounts UntouchedInspected
CHECK_DEADLOCK FALSE
