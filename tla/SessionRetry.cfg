SPECIFICATION Spec
CONSTANTS
    Session = {s1}
    Worker = {w1, w2}
    Request = {}
    InMemory = FALSE
    TTL = 1
    Grace = 1
    MaxTime = 3
    MaxFaults = 1
    MaxCrashes = 0
PROPERTY NextCycleRetries
CHECK_DEADLOCK FALSE
