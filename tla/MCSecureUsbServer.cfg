SPECIFICATION FairSpec
CONSTANTS
  cam0 = cam0
  Cameras = {cam0}
  Pump = pump
  QueueLimit = 1
  MaxHellos = 2
  MaxItems = 1
  MaxRecycles = 1
CHECK_DEADLOCK FALSE
INVARIANTS NoThreadOutlivesSession OfferedUnderLastHello
PROPERTIES TeardownEnds StopHangsOnlyInHandlers DepartureReleasesCameras ReconnectIsAnswered
