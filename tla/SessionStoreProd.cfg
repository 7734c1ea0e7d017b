SPECIFICATION Spec
SYMMETRY Symmetry
CONSTANTS
    Session = {s1, s2}
    Worker = {w1, w2}
    Request = {r1}
    InMemory = FALSE
    TTL = 1
    Grace = 1
    MaxTime = 2
    MaxFaults = 1
    MaxCrashes = 1
INVARIANTS
    TypeOK
    ReapedAtMostOnce
    TrackedUntilClosed
PROPERTIES
    ReapsOnlyExpired
CHECK_DEADLOCK FALSE
