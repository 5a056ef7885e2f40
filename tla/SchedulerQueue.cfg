SPECIFICATION Spec
CONSTANTS
  a = a
  b = b
  t1 = t1
  t2 = t2
  t3 = t3
  t4 = t4
  rb = rb
  NoTurn = NoTurn
  Turn = {t1, t2, t3, t4}
  Session = {a}
  Home <- MCHome
  ReplyTurn <- NoReply
  Priority <- MCPriority
  RejectIfBusy = {}
  MaxDepth = 2
  ChannelCapacity = 3
  MaxStartErrors = 1
  MaxSaveErrors = 0
  MaxPanics = 1
  MaxCancels = 1
  MaxMaintenance = 0
CHECK_DEADLOCK FALSE
INVARIANTS
  QueueWithinLimit
  QueuedOnce
  NoSilentLoss
PROPERTIES
  QueueFifo
  FailureSparesRunning
  ImplementsSessionTurns
