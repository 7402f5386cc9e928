SPECIFICATION Spec
CONSTANTS
  Peers = {1, 2, 3}
  Host0 = 1
  Slots = {1, 2}
  MaxTransfers = 2
  MaxLosses = 0
  MaxRelayFaults = 1
  MaxFolderCalls = 0
  MaxEnds = 0
  MaxLeaves = 0
  DiskFails = FALSE
INVARIANTS AtMostOneHost AuthorityInv
PROPERTY ImplementsHostAuthority
CHECK_DEADLOCK FALSE
