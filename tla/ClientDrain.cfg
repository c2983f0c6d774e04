\* Two keys and a failed partition, one repeating task and one request while the client drains and closes
CONSTANTS
  k1 = k1
  k2 = k2
  poll = poll
  r1 = r1
  Keys = {k1, k2}
  Failed = Failed
  Unkeyed = Unkeyed
  Setups <- Subscriptions
  MaxPending = 2
  MaxBytes = 2
  Sizes = {1, 2}
  Concurrency = 2
  MaxEvents = 3
  Tasks = {poll}
  Repeating = {poll}
  Requests = {r1}
SPECIFICATION DrainFairSpec
INVARIANTS WorkExact StartsInOrder NothingStranded DrainedStaysIdle
PROPERTIES FairEviction DrainEnds
CHECK_DEADLOCK FALSE
