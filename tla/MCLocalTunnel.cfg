SPECIFICATION FairSpec
CONSTANTS
  MaxUploads = 2
  Chunks = 1
  MaxConns = 2
  MaxFds = 5
  MaxOthers = 1
CHECK_DEADLOCK FALSE
INVARIANTS DescriptorIsOwn
PROPERTIES UploadEnds SessionEndReachesAll
