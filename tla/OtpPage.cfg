SPECIFICATION Spec
CONSTANTS
  Timeouts = {1, 2}
  Null = Null
  MaxStarts = 3
INVARIANTS
  TypeOK
  TimeIsCounted
  OneTimeoutEach
PROPERTIES
  StopPollingStops
  CodesGo
CHECK_DEADLOCK FALSE
