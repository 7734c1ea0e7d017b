SPECIFICATION Spec
CONSTANTS
    Group = {g1}
    Question = {q1}
    GroupOf <- MCGroupOf
    Semaphore = 1
    MaxAttempts = 1
PROPERTIES
    TimeoutIsTheDeadline
