SPECIFICATION FairSpec
CONSTANTS
    MaxToolCalls = 3
    MaxFixAttempts = 2
    MaxTurn = 2
    Names <- MCNames
    TurnCalls <- MCTurnCalls
    Answers = {"approved", "denied"}
INVARIANTS TypeOK OvershootsByLessThanATurn AuditTrailKeepsUp VerdictMatchesWork
PROPERTIES ConversationStaysLegal RunEnds
CHECK_DEADLOCK FALSE
