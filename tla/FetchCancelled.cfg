SPECIFICATION Spec
CONSTANTS
    Call = {c1, c2}
    Shielded = {}
    Limit = 1
    Lease = 2
    MaxHold = 1
    MaxTime = 4
INVARIANT HttpWithinLimit
CHECK_DEADLOCK FALSE
