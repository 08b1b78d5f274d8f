CONSTANTS
  r1 = r1
  r2 = r2
  client = client
  Request <- MCRequest
  Client <- MCClient
  Limit = 1
  Disabled = FALSE
  RetryCount = 2
SPECIFICATION ShutdownFairSpec
INVARIANTS
  HubTypeOK
  BrowsersAccounted
  SessionsHoldSlots
  CleanExit
PROPERTIES
  CallsInOrder
  StoppedOnce
  OnlyTheLineBlocks
  BrowserEnds
CHECK_DEADLOCK FALSE
