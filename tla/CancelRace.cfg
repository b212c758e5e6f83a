SPECIFICATION Spec
CONSTANTS
    Deciders = {}
    Cancellers = {c1}
    AutoApprovePlans = TRUE
    MaxAttempts = 1
    MaxStalls = 1
    MaxFixAttempts = 0
    Concurrency = 1
    MaxCrashes = 0
    MaxFaults = 0
PROPERTIES StateChangesAreLegal
CHECK_DEADLOCK FALSE
