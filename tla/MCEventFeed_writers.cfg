CONSTANTS
  Client = {k1}
  Janitor = {}
  PageSize = 2
  CursorCap = 2
  PurgeBatch = 1
  MaxBatches = 1
  MaxEvent = 2
  MaxCursor = 2
SPECIFICATION Spec
INVARIANT NoVisibleEventSkipped
CHECK_DEADLOCK FALSE
