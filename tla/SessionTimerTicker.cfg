CONSTANTS
  cmd = cmd
  del = del
  str = str
  msg = msg
  c1 = c1
  c2 = c2
  c3 = c3
  NoOne = NoOne
  Period = 1
  Command <- MCCommand
  Delete <- MCDelete
  Stream <- MCStream
  Message <- MCMessage
  Chan <- MCChan
SPECIFICATION FairSpec
PROPERTY TickerEnds
