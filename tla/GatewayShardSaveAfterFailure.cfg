SPECIFICATION Spec
CONSTANTS
    MaxStartupAttempts = 2
    ProtocolFailureLimit = 2
    Persistent = TRUE
    Terminates = FALSE
    MaxSessions = 1
    MaxSequence = 2
    MaxRuns = 1
    MaxFrames = 1
    MaxAttempts = 1
    MaxOffered = 4
    Tried = {"reconnect", "odd", "local", "invalid", "close", "refuse", "forbid"}
INVARIANT NotSavedAfterFailure
CHECK_DEADLOCK FALSE
