SPECIFICATION Spec
CONSTANTS
  founder = founder
  a1 = a1
  a2 = a2
  Account = {founder, a1, a2}
  Founder = founder
  Flow = {f1, f2, f3}
  Invitation = {i1, i2}
  Callback = {c1, c2}
  Scope = {read, write}
  BootstrapScopes = {read}
  AllowedScopes = {read, write}
  None = None
SYMMETRY Symmetry
CHECK_DEADLOCK FALSE
INVARIANTS SessionsAreEarned AdmissionsAreBacked NoEscalation
PROPERTIES OffboardedStayOut
