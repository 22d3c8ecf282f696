SPECIFICATION FairSpec
INVARIANTS ServersMatchConfig TakeOverFromAnyState
PROPERTIES NetworkModeIsReachable
CHECK_DEADLOCK FALSE
