CONSTANTS
  r1 = r1
  r2 = r2
  Request <- MCRequest
  Tested <- MCRequest
  MaxEdits = 2
SPECIFICATION FairSpec
INVARIANTS
  LaterOptions
  OwnTags
PROPERTIES
  DiesOnlyUnconfigured
  ReloadTakesEffect
CHECK_DEADLOCK FALSE
