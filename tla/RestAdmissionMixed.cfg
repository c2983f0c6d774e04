\* An API request, the signed storage PUT of an upload, the media read that feeds it and discovery
CONSTANTS
  r1 = r1
  r2 = r2
  apiRoute = apiRoute
  storageRoute = storageRoute
  Nobody = Nobody
  Requests = {r1, r2, r3, r4}
  Routes = {apiRoute, storageRoute}
  RouteOf <- UploadOnStorage
  Bytes <- UploadHeavy
  NotBefore <- AtOnce
  Deadline <- TightFirst
  RateLimited = {r1, r2}
  Media = {r3}
  MayProbe = {r1, r3, r4}
  MaxQueued = 3
  MaxBytes = 3
  InitialConcurrency = 1
  MediaConcurrency = 1
  ConcurrencyScales = TRUE
  ConcurrencyPerShard = 1
  MaximumConcurrency = 2
  ShardCounts = {0, 3}
  MaxUnidentifiedPause = 2
  MaxJitter = 1
  JitterShare = 2
  TimerSpan = 1
  HoldReport = 1
  Horizon = 2
  RouteWaits = {0, 2}
  Asked = {2}
  MaxDepth = 2
SPECIFICATION Spec
INVARIANTS QueueExact SlotsExact BytesExact WaitsServed
PROPERTIES ImplementsGate
CHECK_DEADLOCK FALSE
