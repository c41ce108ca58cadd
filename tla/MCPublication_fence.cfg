SPECIFICATION Spec
CONSTANTS
  Attempt = {a1, a2}
  Key = {k1, k2}
  Version = {v1, v2}
  Digest = {d1}
  Publisher = {p1}
  Cleaner = {c1}
  None = None
  Deps <- MCDeps
  MaxActive = 1
  MaxLedger = 2
  CleanupLimit = 1
  MaxGen = 2
  MaxPolicy = 1
  v1 = v1
  v2 = v2
SYMMETRY Symmetry
INVARIANT StagedWithinQuota
PROPERTIES AdmissionIsFenced RefinesRegistry
