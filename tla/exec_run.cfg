SPECIFICATION FairSpec
CONSTANTS
  Requests = {1}
  MaxActive = 2
  MaxCompleted = 2
  MaxEvents = 2
  MaxCopies = 1
  MaxLosses = 1
  MaxRelayFaults = 1
  MaxStops = 1
  MayMove = TRUE
PROPERTIES EveryCellSettles OwnersAreReleased ResolvesComplete StoppedStaysStopped
INVARIANTS TypeOK LaunchedOnce AcceptedIsOwned ResultKept RememberInv
CHECK_DEADLOCK FALSE
