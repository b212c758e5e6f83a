SPECIFICATION FairSpec
CONSTANTS
    Busy = a
    Tasks = {a, b}
    NoTask = none
    Events = {1, 2}
    TaskOf <- MCTaskOf
    Connections = {1, 2}
    Polls <- MCPolls
    MaxTime = 2
    MaxWire = 1
    MaxFaults = 1
INVARIANTS TypeOK NothingSkipped ShownOnce
PROPERTIES ImplementsEventLog EventsArrive
CHECK_DEADLOCK FALSE
