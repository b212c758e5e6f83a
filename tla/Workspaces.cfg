SPECIFICATION Spec
CONSTANTS
    Runs = {r1, r2}
    Nobody = nobody
    MaxEdits = 2
    MaxFixAttempts = 1
    MaxFailures = 2
SYMMETRY RunSymmetry
INVARIANTS TypeOK NothingLeftBehind ContainerHasDirectory WorkOfOneRun RecordedWorkIsPublished
CHECK_DEADLOCK FALSE
