SPECIFICATION Spec
CONSTANTS
  Paths = {p1, p2}
  Blobs = {b1, b2}
  Cleared = b2
  Publications = {u1}
  None = None
  MaxRevision = 3
  MaxFaults = 1
  MaxCrashes = 3
INVARIANTS TypeOK StoreStaysReadable AckedSurvives RecoverInv
PROPERTY ImplementsWorkspaceStore
CHECK_DEADLOCK FALSE
