\* A streamed upload beside another that does not fit
CONSTANTS
  write = write
  read = read
  upload = upload
  streamed = streamed
  Nobody = Nobody
  Operations = {streamed, upload}
  Plan <- UploadFirst
  Reads = {}
  Streams = {streamed}
  Inline = {}
  UploadSize <- Sizes
  UploadMaxBytes = 3
  Timeout <- TwoTicks
  ApiSlots = 1
  MaxReadRetries = 1
  RetryDelays = {1}
  Asked = {1}
  MaxAttempts = 2
  Horizon = 2
SPECIFICATION Spec
INVARIANTS StreamReadOnce UploadsBounded
CHECK_DEADLOCK FALSE
