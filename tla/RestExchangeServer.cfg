\* A write beside a read, with a silent server
CONSTANTS
  write = write
  read = read
  upload = upload
  streamed = streamed
  Nobody = Nobody
  Operations = {write, read}
  Plan <- OnlySend
  Reads = {read}
  Streams = {}
  Inline = {}
  UploadSize <- Sizes
  UploadMaxBytes = 3
  Timeout <- ReadAtOnce
  ApiSlots = 1
  MaxReadRetries = 1
  RetryDelays = {1}
  Asked = {1}
  MaxAttempts = 2
  Horizon = 2
SPECIFICATION FairSpec
INVARIANTS AtMostOnce OutcomeTrue SlotsOwned ShutdownComplete
PROPERTIES EveryOperationEnds ShutdownEnds
CHECK_DEADLOCK FALSE
