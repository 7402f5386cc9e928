SPECIFICATION FairSpec
CONSTANTS
  Requests = {1, 2}
  Paths = {"a", "b"}
  Home = "a"
  None = None
  MaxExecutions = 2
  MaxPending = 2
  MaxRuns = 2
  MaxEvents = 1
  MaxFailures = 1
  MaxChanges = 1
INVARIANTS LaunchedOnce AppliedOnce ToldIsDurable
CHECK_DEADLOCK FALSE
PROPERTY EveryRunSettles
