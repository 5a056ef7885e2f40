SPECIFICATION Spec
CONSTANTS
  a = a
  b = b
  t1 = t1
  t2 = t2
  t3 = t3
  t4 = t4
  rb = rb
  NoTurn = NoTurn
  Turn = {t1, t2, rb}
  Session = {a, b}
  Home <- MCHome
  ReplyTurn <- ReplyToFirst
  Priority <- Equal
  RejectIfBusy = {t2}
  MaxDepth = 2
  ChannelCapacity = 3
  MaxStartErrors = 0
  MaxSaveErrors = 1
  MaxPanics = 0
  MaxCancels = 1
  MaxMaintenance = 1
CHECK_DEADLOCK FALSE
INVARIANTS
  RunningOwnsSession
  PermitExcludesTurns
  ActiveHasOutcome
  MarksHaveOutcome
