SPECIFICATION FairSpec
CONSTANTS
  a = a
  b = b
  t1 = t1
  t2 = t2
  t3 = t3
  t4 = t4
  rb = rb
  NoTurn = NoTurn
  Turn = {t1, t2, t3}
  Session = {a}
  Home <- MCHome
  ReplyTurn <- NoReply
  Priority <- MCPriority
  RejectIfBusy = {}
  MaxDepth = 2
  ChannelCapacity = 3
  MaxStartErrors = 0
  MaxSaveErrors = 0
  MaxPanics = 0
  MaxCancels = 0
  MaxMaintenance = 1
CHECK_DEADLOCK FALSE
PROPERTIES
  QueuedLeaves
  ActiveSettles
