SPECIFICATION FairSpec
CONSTANTS
  first = first
  second = second
  Uploads = {first, second}
  Chunks = 1
  MaxWaits = 2
  MaxReports = 2
  MaxCrashes = 1
  Nobody = Nobody
CHECK_DEADLOCK FALSE
INVARIANTS PollerOwnsStatus FailureIsReported
PROPERTIES BusyEnds
