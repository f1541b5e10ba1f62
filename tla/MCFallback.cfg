CONSTANTS
    Orchestrator = orch
    Done = done
    None = none
    w1 = w1
    w2 = w2
    Workers = {w1}
    MaxVisits <- TwoEach
    Gated = FALSE
    EndRequestRoles = {}
    RunCap = 9
    SessionCap = 9
    Models = 2
    Retries = 1
    MaxRecovery = 1
    MaxUsage = 0
    MaxRestarts = 0
SPECIFICATION FairSpec
INVARIANTS
    AttemptsAreBounded
PROPERTIES
    ComesToRest
