SPECIFICATION FairSpec
CONSTANTS
  Attempt = {a1}
  Key = {k1, k2}
  Version = {v1}
  Digest = {d1}
  Publisher = {p1, p2}
  Cleaner = {c1, c2}
  None = None
  Deps <- MCDeps
  MaxActive = 2
  MaxLedger = 2
  CleanupLimit = 1
  MaxGen = 4
  MaxPolicy = 0
  v1 = v1
  v2 = v2
INVARIANT DeletesOnlyDoomed
PROPERTIES CleanersStayCurrent AbandonedObjectsGo
