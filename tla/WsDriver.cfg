CONSTANTS
  id1 = id1
  id2 = id2
  Id <- MCId
  MaxCommands = 2
SPECIFICATION WsDriverFairSpec
INVARIANTS
  WsDriverTypeOK
  AnswersAreOwn
PROPERTIES
  RequestsIntact
  Promise
CHECK_DEADLOCK FALSE
