SPECIFICATION Spec
CONSTANTS
  Peers = {1, 2}
  Host0 = 1
  Slots = {1}
  MaxTransfers = 2
  MaxLosses = 1
  MaxRelayFaults = 0
  MaxFolderCalls = 2
  MaxEnds = 1
  MaxLeaves = 1
  DiskFails = TRUE
INVARIANTS TypeOK NoDualWriter ResumedMeansHostReady UncommittedTransferKeepsHost
CHECK_DEADLOCK FALSE
