SPECIFICATION FairSpec
CONSTANTS
    MaxStartupAttempts = 2
    ProtocolFailureLimit = 2
    Persistent = TRUE
    Terminates = FALSE
    MaxSessions = 1
    MaxSequence = 2
    MaxRuns = 3
    MaxFrames = 2
    MaxAttempts = 1
    MaxOffered = 2
    Tried = {"invalid", "close", "forbid"}
INVARIANT RestartsAreSound
PROPERTY ShutdownEnds
PROPERTY AttemptSettles
CHECK_DEADLOCK FALSE
