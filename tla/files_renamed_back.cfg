SPECIFICATION Spec
CONSTANTS
  Unused = Unused
  Parts = {"back"}
  Docs = {"a", "b"}
  Initial = {"a"}
  MaxChanges = 2
  Files = {1, 2}
  Streamed = {2}
  Chunks = 2
  MaxEdits = 1
INVARIANT OneUserDecides
CHECK_DEADLOCK FALSE
