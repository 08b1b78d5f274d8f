CONSTANT Networks = 2
SPECIFICATION ServicesFairSpec
INVARIANTS
  NothingLost
PROPERTIES
  BrowserLast
  CallsReturn
  ProberStops
CHECK_DEADLOCK FALSE
