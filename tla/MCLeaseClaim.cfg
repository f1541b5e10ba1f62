SPECIFICATION LeaseSpec
CONSTANTS
    h1 = h1
    h2 = h2
    Hosts = {h1, h2}
    Candidates = 2
    Others = FALSE
    Slow = FALSE
    MaxClaims = 2
INVARIANTS
    OneHolder
