\* Two routes share a provisional bucket and move between the two buckets the server names, while both tables are full
CONSTANTS
  r1 = r1
  r2 = r2
  shared = shared
  b1 = b1
  b2 = b2
  NoRoute = NoRoute
  NoKey = NoKey
  NoHeader = NoHeader
  Routes = {r1, r2}
  Keys = {shared, b1, b2}
  Headers = {b1, b2}
  ProvisionalOf <- Share
  KeyOf <- SameKey
  Unbound <- LacksOne
  AliasCapacity = 1
  BucketCapacity = 2
  AliasIdle = 1
  Counts = {1}
  Limits = {2}
  Delays = {1, 2}
  MaxSequence = 3
  Horizon = 2
SPECIFICATION Spec
INVARIANTS TablesSound
PROPERTIES DenialKept NewestMappingKept
CHECK_DEADLOCK FALSE
