CONSTANTS
  Client = {k1}
  Janitor = {j1, j2}
  PageSize = 1
  CursorCap = 2
  PurgeBatch = 1
  MaxBatches = 1
  MaxEvent = 2
  MaxCursor = 3
SPECIFICATION FairSpec
INVARIANT OnlyLateEventsAreSkipped
PROPERTIES PositionsHold ExpiredEventsGo
