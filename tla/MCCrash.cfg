CONSTANTS
    Orchestrator = orch
    Done = done
    None = none
    w1 = w1
    w2 = w2
    Workers = {w1}
    MaxVisits <- TwoEach
    Gated = TRUE
    EndRequestRoles = {w1}
    RunCap = 1
    SessionCap = 1
    Models = 1
    Retries = 0
    MaxRecovery = 0
    MaxUsage = 1
    MaxRestarts = 2
SPECIFICATION Spec
INVARIANTS
    LogTellsTheRun
    TypeOK
    TerminatesOnce
    ReducersNeverThrow
    ReportedTargetsAreLegal
PROPERTIES
    DoneIsFinal
    DeferredEndStartsNothing
    Promise
