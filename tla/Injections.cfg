SPECIFICATION FairSpec
CONSTANTS
  p1 = p1
  p2 = p2
  r1 = r1
  g1 = g1
  Turns = 2
  Message = {p1, p2, r1, g1}
  Kind <- MCKind
  Aim <- MCAim
  NoTurn = NoTurn
  AnyTurn = AnyTurn
CHECK_DEADLOCK FALSE
INVARIANTS
  ReachesItsTurn
  InjectedIsShown
PROPERTIES
  OthersKept
  BufferedLeaves
