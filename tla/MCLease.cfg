SPECIFICATION LeaseSpec
CONSTANTS
    h1 = h1
    h2 = h2
    h3 = h3
    Hosts = {h1, h2, h3}
    Candidates = 3
    Others = TRUE
    Slow = TRUE
    MaxClaims = 2
SYMMETRY HostSymmetry
INVARIANTS
    OneWinner
    RefusalsAreTrue
