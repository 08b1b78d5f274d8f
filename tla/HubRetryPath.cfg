CONSTANTS
  r1 = r1
  r2 = r2
  client = client
  Request <- MCRequest
  Client <- MCClient
  Limit = 1
  Disabled = FALSE
  RetryCount = 2
SPECIFICATION ShutdownSpec
INVARIANT AttemptsAtPath
CHECK_DEADLOCK FALSE
