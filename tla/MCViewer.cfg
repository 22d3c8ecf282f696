SPECIFICATION FairSpec
CONSTANTS
  Cameras = {0, 1}
  FileChunks = 2
  BufferChunks = 1
  MaxPending = 0
  MaxTimers = 0
CHECK_DEADLOCK FALSE
INVARIANTS IdleWhenOffline
PROPERTIES AutoReboots UploadEnds
