SPECIFICATION Spec
CONSTANTS
    Deciders = {d1}
    Cancellers = {}
    AutoApprovePlans = TRUE
    MaxAttempts = 1
    MaxStalls = 1
    MaxFixAttempts = 0
    Concurrency = 1
    MaxCrashes = 0
    MaxFaults = 0
INVARIANTS PullRequestEndsImplementation
CHECK_DEADLOCK FALSE
