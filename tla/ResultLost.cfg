SPECIFICATION Spec
CONSTANTS
  p1 = p1
  p2 = p2
  r1 = r1
  g1 = g1
  Turns = 1
  Message = {r1}
  Kind <- MCKind
  Aim <- MCAim
  NoTurn = NoTurn
  AnyTurn = AnyTurn
CHECK_DEADLOCK FALSE
INVARIANT ResultNotDropped
