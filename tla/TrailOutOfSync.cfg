SPECIFICATION Spec
CONSTANTS
    Deciders = {}
    Cancellers = {}
    AutoApprovePlans = TRUE
    MaxAttempts = 1
    MaxStalls = 1
    MaxFixAttempts = 0
    Concurrency = 1
    MaxCrashes = 1
    MaxFaults = 0
INVARIANTS TrailInSync
CHECK_DEADLOCK FALSE
