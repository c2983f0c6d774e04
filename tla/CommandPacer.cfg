SPECIFICATION FairSpec
CONSTANTS
    a1 = a1
    a2 = a2
    b1 = b1
    Commands <- MCCommands
    Application <- MCApplication
    Budget = 1
    Window = 2
    MaxPending = 2
    Horizon = 9
INVARIANT WithinBudget
INVARIANT CountersExact
INVARIANT SubmissionOrder
PROPERTY Settles
CHECK_DEADLOCK FALSE
