CONSTANTS
    Orchestrator = orch
    Done = done
    None = none
    reviewer = reviewer
    author = author
    Reviewer = reviewer
    Workers = {reviewer, author}
    MaxVisits <- TwoVisits
    Gated = TRUE
    EndRequestRoles = {author}
    MaxSessions = 3
    MaxRestarts = 3
SPECIFICATION FairSpec
INVARIANTS
    RoutesAreTaken
    AdvancesAreEarned
PROPERTY
    PendingIsRouted
