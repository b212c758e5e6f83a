SPECIFICATION Spec
CONSTANTS
    Deciders = {d1, d2}
    Cancellers = {}
    AutoApprovePlans = FALSE
    MaxAttempts = 1
    MaxStalls = 1
    MaxFixAttempts = 0
    Concurrency = 1
    MaxCrashes = 1
    MaxFaults = 1
INVARIANTS ReviewHasPullRequest AtMostOnePlanApproval ImplementationNeedsConsent NoTaskIsForgotten
PROPERTIES ImplementsDelivery
SYMMETRY DeciderSymmetry
CHECK_DEADLOCK FALSE
