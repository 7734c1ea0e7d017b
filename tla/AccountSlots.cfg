SPECIFICATION Spec
CONSTANTS
    Call = {c1, c2, c3}
    Shielded = {c1, c2}
    Limit = 1
    Lease = 2
    MaxHold = 3
    MaxTime = 4
INVARIANTS
    TypeOK
    LeasesWithinLimit
    ExchangesWithinLimit
    SlotCoversHttp
PROPERTIES
    CancelledInQueueNeverCalls
    EveryCallerIsAnswered
    KeepsCallLimit
CHECK_DEADLOCK FALSE
