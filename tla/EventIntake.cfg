SPECIFICATION FairSpec
CONSTANTS
    i1 = i1
    g1 = g1
    toTrigger = toTrigger
    sameInstant = sameInstant
    laterEdit = laterEdit
    JiraChanges = {toTrigger, sameInstant, laterEdit}
    Change <- MCChange
    OurIssues = {i1}
    TriggerStatus = "ready"
    TriggerLabel = "ai"
    AiAccount = "nobody"
    Nobody = "nobody"
    GitHubEvents = {g1}
    Requests = {q1}
    Deliveries <- MCDeliveries
    MaxAttempts = 2
    MaxStalls = 1
    Concurrency = 1
    MaxCrashes = 1
    MaxFaults = 2
INVARIANTS TypeOK OneTaskPerTrigger OnlyTriggersBecomeTasks
PROPERTIES ImplementsIntake RecordedEventBecomesTask
CHECK_DEADLOCK FALSE
