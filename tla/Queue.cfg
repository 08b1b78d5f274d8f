CONSTANTS
  r1 = r1
  r2 = r2
  r3 = r3
  Request <- MCRequest
  Limit = 1
  Disabled = FALSE
SPECIFICATION FairSpec
INVARIANTS
  TypeOK
  SlotsAccounted
  GaugesAccounted
  LineAccounted
  NeverStarves
PROPERTIES
  NoOvertaking
  Promise
  WaitingEnds
  QueuedTokenComes
