SPECIFICATION FairSpec
CONSTANTS
  s1 = s1
  s2 = s2
  v1 = v1
  v2 = v2
  NoTurn = 0
  Task = {s1, s2}
  Wait = {v1, v2}
  Turn = {1, 2, 3}
  StartedIn <- MCStartedIn
  TurnOf <- MCTurnOf
  Asked <- MCAsked
  Ending = {"completed"}
  AnyMode = {v1}
  Faulty = {"restart", "db", "wait_cancel", "drop", "rollback"}
  MaxFaults = 1
  MaxCalls = 3
CHECK_DEADLOCK FALSE
INVARIANTS
  RunningIsOwned
  NoLostWakeup
  ReportIsRecorded
  RowMatchesChild
PROPERTIES
  WaitEnds
  ImplementsLedger
