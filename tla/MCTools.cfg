SPECIFICATION FairSpec
CONSTANTS
    MaxExecutions = 2
    MaxTimeouts = 0
    MaxSessions = 2
    MaxLives = 2
INVARIANTS
    LogIsTrue
    NothingGoesUnnoticed
    SessionsDoNotOverlap
PROPERTIES
    StartsWithinBudget
    AttemptsEnd
