SPECIFICATION Spec
CONSTANTS
    Cap = 2
    MaxRecovery = 1
    MaxMessages = 4
    MaxCalls = 2
    MaxReopens = 1
INVARIANTS
    CostIsCharged
    VerdictIsRight
    CommitsAreClean
