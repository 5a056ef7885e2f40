SPECIFICATION FairSpec
CONSTANTS
  Absent = Absent
  s1 = s1
  j1 = j1
  j2 = j2
  Jobs = {j1}
  Sessions = {s1}
  SessionOf <- MCSessionOf
  AtTimes = {3}
  Period = 2
  LastRun = 2
  RetryDelay = 1
  MaxTime = 4
  MaxKinds = 1
  Budget <- MCDeletion
CHECK_DEADLOCK FALSE
PROPERTY DeletionEnds
