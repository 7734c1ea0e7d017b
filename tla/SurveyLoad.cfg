SPECIFICATION Spec
CONSTANTS
    Group = {g1, g2}
    Question = {q1, q2, q3}
    GroupOf <- MCGroupOf
    Semaphore = 2
    MaxAttempts = 2
INVARIANTS
    TypeOK
    OnlyCompleteSurveys
    SemaphoreHolds
PROPERTIES
    TimedOutIsQuiet
    LoadIsAnswered
    ChildrenEnd
