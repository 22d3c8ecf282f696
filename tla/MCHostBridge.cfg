SPECIFICATION BridgeFairSpec
CONSTANTS
  Channels = {0, 1}
  MaxClients <- MCMaxClients
  MaxRequests = 2
  MaxInbound = 1
CHECK_DEADLOCK FALSE
INVARIANTS HandleOutlivesThreads AnswerIsOwn
PROPERTIES FailureEndsSession DestroyEnds
