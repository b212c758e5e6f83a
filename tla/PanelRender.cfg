SPECIFICATION Spec
CONSTANTS
    Lines = {1}
    Commands = {"implement"}
    OtherTasks = {}
    NoTask = 0
    FinalState = 2
    PollAttempts = 1
    MaxFaults = 1
    Approvals = {a1}
INVARIANT RenderedWhenSettled
CHECK_DEADLOCK FALSE
