SPECIFICATION FairSpec
CONSTANTS
  Absent = Absent
  s1 = s1
  j1 = j1
  j2 = j2
  Jobs = {j1, j2}
  Sessions = {s1}
  SessionOf <- MCSessionOf
  AtTimes = {2}
  Period = 2
  LastRun = 2
  RetryDelay = 1
  MaxTime = 3
  MaxKinds = 1
  Budget <- MCQuiet
CHECK_DEADLOCK FALSE
PROPERTIES
  TriggersAreTaken
