SPECIFICATION FairSpec
CONSTANTS
    Batches <- Uneven
    MaxParallel = 2
    MaxChildren = 3
    Controller = TRUE
    MaxCalls = 2
    MaxVisits = 1
    MaxLives = 2
INVARIANTS
    LimitsHold
    EndsAreDurable
    CloseSettles
PROPERTIES
    StartsAreLegal
    CloseEnds
    WaitersAreAnswered
