SPECIFICATION Spec
CONSTANTS
  Unused = Unused
  Parts = {"upgrade", "families", "handshake", "queues", "together", "apart", "folder", "back",
           "saves", "rough", "broken", "barrier", "disturbed", "moves", "edits", "garbage", "snapshot"}
  Docs = {"a", "b"}
  Initial = {"a"}
  MaxChanges = 2
  Files = {1, 2}
  Streamed = {2}
  Chunks = 2
  MaxEdits = 1
INVARIANTS ContentAgrees WorkSurvives BarrierIsExact
PROPERTIES RoutesAgree AdmittedIsProved FramesAreKept NoOldStateReturns
CHECK_DEADLOCK FALSE
