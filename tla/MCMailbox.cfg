SPECIFICATION FairSpec
CONSTANTS
    MaxGuidance = 3
    MaxSessions = 3
    MaxRemoteGuidance = 2
    MaxRemoteSessions = 2
INVARIANT
    GuidanceIsKept
PROPERTIES
    SealedHearsNothing
    GuidanceIsDrained
    AbortEndsTheRun
