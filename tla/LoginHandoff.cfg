SPECIFICATION Spec
CONSTANTS
    Login = {a, b}
    PoolSize = 1
INVARIANTS
    TypeOK
    ClosedAtMostOnce
    ReturnedKeyIsUsable
    NoOrphan
    RejectedLeavesNoRecord
PROPERTIES
    EveryLoginEnds
    AbandonedIsClosed
CHECK_DEADLOCK FALSE
