SPECIFICATION FairSpec
CONSTANTS
    Ops <- MCOps
    Declared <- MCDeclared
    Logical <- MCLogical
    Target <- MCTarget
    Prior <- MCPrior
    NewHead <- MCNewHead
    Kind <- MCKind
    Refs <- MCRefs
    Foreign = 9
    MaxActions = 2
    MaxLives = 3
INVARIANTS
    RecordsAreTrue
    AppliedOnce
    LaneExclusion
PROPERTIES
    BrokerDrains
CHECK_DEADLOCK FALSE
