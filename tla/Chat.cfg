SPECIFICATION FairChatSpec
CONSTANTS
    Lines = {1, 2, 3}
    Commands = {"implement", "ask", "cancel", "help"}
    OtherTasks = {}
    NoTask = 0
    FinalState = 2
    PollAttempts = 5
    MaxFaults = 1
INVARIANTS AnsweredLineStays CancelReachesLastTask TargetExists
PROPERTIES EveryLineIsAnswered
CHECK_DEADLOCK FALSE
