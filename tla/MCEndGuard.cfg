SPECIFICATION Spec
CONSTANTS
    Budget = 3
    MaxAttempts = 5
    MaxRequests = 2
    MaxLives = 3
INVARIANTS
    AttemptsAreLegal
PROPERTIES
    StartsAlone
    EndIsGuarded
