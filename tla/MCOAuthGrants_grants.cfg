CONSTANTS
    Codes = {c1}
    Tokens = {t1, t2, t3}
    Clients = {app}
    Scopes = {read, write}
    Requests = {r1}
    MaxPolicy = 2
    MaxConsents = 1
    None = None
SPECIFICATION Spec
SYMMETRY GrantSymmetry
INVARIANTS OneLiveToken ReplaysEndGrants AccessWithinConsent
PROPERTY EndedGrantsStayEnded
CHECK_DEADLOCK FALSE
