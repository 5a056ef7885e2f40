SPECIFICATION Spec
CONSTANTS
  k1 = k1
  k2 = k2
  u1 = u1
  u2 = u2
  u3 = u3
  u4 = u4
  Key = {k1, k2}
  Sub = {u1, u2, u3, u4}
  Port = {u1, u2, u4}
  KeyOf <- MCKeyOf
  Waiter = {w1}
  NoEntry = NoEntry
  NoKey = NoKey
  Capacity = 1
CHECK_DEADLOCK FALSE
INVARIANTS
  TrackedWhileOwed
  SettledIsOver
  CompletedIsListed
PROPERTIES
  KnownIsAnswered
