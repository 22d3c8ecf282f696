CONSTANTS
  Boards <- MCBoards
  Requests <- MCRequests
  MaxFaults = 1
  Reset = Reset
  Unknown = Unknown
  CountMax <- MCCountMax
SPECIFICATION DriverSpec
INVARIANTS DriverTypeOK ShutterInsideFrame LimitsSettle
PROPERTIES SuccessMeansWritten InSyncUnlessTold
CHECK_DEADLOCK FALSE
