SPECIFICATION FairSpec
CONSTANTS
  kBarrenLimit = 3
  MaxSettings = 2
  MaxToggles = 2
  MaxSessions = 2
  Torn = Torn
CHECK_DEADLOCK FALSE
INVARIANTS NothingOutlivesPipeline StaleIsFlagged GivenUpForAReason
PROPERTIES SessionEndFreesCamera StreamComesBack
