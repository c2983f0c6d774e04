\* Two children that ask, withdraw, lose their channel, crash and restart, with and without a coordinator
CONSTANTS
  a = a
  b = b
  None = None
  Children = {a, b}
  Coordinated = {TRUE, FALSE}
  Spacing = 1
  MaxAttempts = 1
  MaxRequests = 2
SPECIFICATION FairSpec
INVARIANTS Understood
PROPERTIES IdentifiesSpaced NobodyStarves
CHECK_DEADLOCK FALSE
