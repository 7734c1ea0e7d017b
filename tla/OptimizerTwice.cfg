SPECIFICATION Spec
CONSTANTS
    Run = {r1, r2}
    Combinations = 1
    Rate = {100}
    Time = {1}
    MinRate = 95
    LockTTL = 2
    ParamTTL = 2
    MaxRun = 1
    MaxTime = 3
    MaxFaults = 0
PROPERTY ComputedOnce
CHECK_DEADLOCK FALSE
