SPECIFICATION Spec
CONSTANTS
  Attempt = {a1, a2}
  Key = {k1, k2}
  Version = {v1}
  Digest = {d1, d2}
  Publisher = {p1, p2}
  Cleaner = {c1}
  None = None
  Deps <- MCDeps
  MaxActive = 2
  MaxLedger = 2
  CleanupLimit = 2
  MaxGen = 2
  MaxPolicy = 0
  v1 = v1
  v2 = v2
SYMMETRY Symmetry
INVARIANTS OwnedObjectsPresent CommittedAttemptsAreRows
PROPERTY LedgerIsTrue
