CONSTANTS
  id1 = id1
  id2 = id2
  Id <- MCId
  MaxCommands = 2
SPECIFICATION WsDriverSpec
INVARIANT AnswersIntact
CHECK_DEADLOCK FALSE
