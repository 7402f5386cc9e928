SPECIFICATION FairSpec
CONSTANTS
  Peers = {1, 2, 3}
  Host0 = 1
  Slots = {1}
  MaxTransfers = 1
  MaxLosses = 0
  MaxRelayFaults = 0
  MaxFolderCalls = 1
  MaxEnds = 0
  MaxLeaves = 1
  DiskFails = FALSE
PROPERTIES EveryoneLearns PauseEnds
CHECK_DEADLOCK FALSE
