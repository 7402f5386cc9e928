SPECIFICATION Spec
CONSTANTS
  Requests = {1}
  MaxActive = 2
  MaxCompleted = 2
  MaxEvents = 1
  MaxCopies = 2
  MaxLosses = 0
  MaxRelayFaults = 0
  MaxStops = 0
  MayMove = FALSE
PROPERTY RefusedIsNotRun
CHECK_DEADLOCK FALSE
