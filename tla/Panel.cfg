SPECIFICATION FairSpec
CONSTANTS
    Lines = {1}
    Commands = {"implement", "help"}
    OtherTasks = {}
    NoTask = 0
    FinalState = 2
    PollAttempts = 1
    MaxFaults = 1
    Approvals = {a1}
INVARIANTS TypeOK ViewIsBehindForAReason ClosedPanelIsQuiet
PROPERTIES OnlyStaleAnswersGoBack DashboardCatchesUp
CHECK_DEADLOCK FALSE
