SPECIFICATION FairSpec
CONSTANTS
  p1 = p1
  p2 = p2
  p3 = p3
  w1 = w1
  w2 = w2
  None = None
  Principal = {p1, p2, p3}
  Workspace = {w1, w2}
  Home <- HomeOf
  Request = {r1, r2}
  Janitor = {j1}
  MaxDrawn = 4
  MaxPerPrincipal = 2
  MaxPerWorkspace = 2
  MaxSessions = 3
  MaxCalls = 1
  TTL = 0
  MaxTime = 1
CHECK_DEADLOCK FALSE
INVARIANTS SessionTableAddsUp BackendsOutliveWork
PROPERTIES EvictionsAreFair ShutdownCompletes
