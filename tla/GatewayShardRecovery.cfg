SPECIFICATION Spec
CONSTANTS
    MaxStartupAttempts = 2
    ProtocolFailureLimit = 2
    Persistent = TRUE
    Terminates = TRUE
    MaxSessions = 2
    MaxSequence = 3
    MaxRuns = 1
    MaxFrames = 2
    MaxAttempts = 2
    MaxOffered = 3
    Tried = {"reconnect", "odd", "local", "refuse"}
INVARIANT OfferedInOrder
INVARIANT CacheCurrent
INVARIANT ResumesKeptSession
CHECK_DEADLOCK FALSE
