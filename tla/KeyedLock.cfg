SPECIFICATION FairSpec
CONSTANTS
  Key = {k1, k2}
  Client = {c1, c2, c3}
  Generation = {g1, g2, g3, g4}
  NoKey = NoKey
  NoGeneration = NoGeneration
  MaxAbandons = 1
INVARIANTS
  NoDeadEntry
PROPERTIES
  ImplementsSessionLock
  EveryCallReturns
