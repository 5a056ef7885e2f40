SPECIFICATION FairSpec
CONSTANTS
  Count = 3
  Safe = {2, 3}
  Request = {1, 2, 3}
  Owner <- MCOwner
  Resource <- MCResource
  Denied = {3}
  Flaky = {2}
  Streaming = {1}
  Granted = {}
  AutoModes = {TRUE, FALSE}
  MaxTroubles = 1
CHECK_DEADLOCK FALSE
INVARIANTS
  RunsAuthorized
  NothingLeftPending
  SerialAlone
  OneResultEach
  StatusTellsOutcome
PROPERTIES
  RoundEnds
