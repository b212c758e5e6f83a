SPECIFICATION FairSpec
CONSTANTS
    Deciders = {}
    Cancellers = {c1}
    AutoApprovePlans = TRUE
    MaxAttempts = 2
    MaxStalls = 1
    MaxFixAttempts = 1
    Concurrency = 1
    MaxCrashes = 2
    MaxFaults = 1
INVARIANTS TypeOK PlanBeforeWork PullRequestEndsImplementation
PROPERTIES TriggerSettles
CHECK_DEADLOCK FALSE
