SPECIFICATION Spec
CONSTANTS
    Session = {s1}
    Worker = {w1}
    Request = {r1, r2}
    InMemory = TRUE
    TTL = 2
    Grace = 1
    MaxTime = 4
    MaxFaults = 1
    MaxCrashes = 1
INVARIANT LoggedOutIsRefused
PROPERTIES
    KeepsLease
    EventuallyClosed
CHECK_DEADLOCK FALSE
