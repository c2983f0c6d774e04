\* Three requests that may each be the probe, one slot or two, under the fairness of the scheduler and of deadlines
CONSTANTS
  r1 = r1
  r2 = r2
  apiRoute = apiRoute
  storageRoute = storageRoute
  Nobody = Nobody
  Requests = {r1, r2, r3}
  Routes = {apiRoute}
  RouteOf <- OneRoute
  Bytes <- OneByte
  NotBefore <- BackoffSecond
  Deadline <- TightFirst
  RateLimited = {r1, r2, r3}
  Media = {}
  MayProbe = {r1, r2, r3}
  MaxQueued = 2
  MaxBytes = 2
  InitialConcurrency = 1
  MediaConcurrency = 1
  ConcurrencyScales = TRUE
  ConcurrencyPerShard = 1
  MaximumConcurrency = 2
  ShardCounts = {2}
  MaxUnidentifiedPause = 2
  MaxJitter = 1
  JitterShare = 2
  TimerSpan = 1
  HoldReport = 1
  Horizon = 2
  RouteWaits = {0, 2}
  Asked = {1}
  MaxDepth = 1
SPECIFICATION FairSpec
INVARIANTS SingleProbe
PROPERTIES LeavesQueue
CHECK_DEADLOCK FALSE
