SPECIFICATION Spec
SYMMETRY Symmetry
CONSTANTS
    Run = {r1, r2, r3}
    Combinations = 2
    Rate = {90, 95, 100}
    Time = {1, 2, 3}
    MinRate = 95
    LockTTL = 1
    ParamTTL = 1
    MaxRun = 1
    MaxTime = 2
    MaxFaults = 1
INVARIANTS
    TypeOK
    PublishesTheBest
    SomeonePublishes
    OverlapIsBounded
CHECK_DEADLOCK FALSE
