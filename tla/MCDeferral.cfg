CONSTANTS
    Orchestrator = orch
    Done = done
    None = none
    w1 = w1
    w2 = w2
    Workers = {w1}
    MaxVisits <- OneEach
    Gated = FALSE
    EndRequestRoles = {}
    RunCap = 1
    SessionCap = 9
    Models = 1
    Retries = 0
    MaxRecovery = 0
    MaxUsage = 1
    MaxRestarts = 1
SPECIFICATION Spec
PROPERTIES
    NoSessionAfterDeferral
