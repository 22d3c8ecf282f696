SPECIFICATION FairSpec
CONSTANTS
  Cameras = {0, 1}
  kStallChecks = 2
  Detecting = {0}
  Sources <- MCSources
  Values = {0, 1}
  Unset = 0
  MaxRequests = 2
INVARIANTS SettingsAreInForce
PROPERTIES OnlySilentIsDead SilentIsDisabled
