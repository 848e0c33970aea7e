SPECIFICATION Spec
CONSTANTS
    Req = {p1}
    Consent = {k1}
    NoConsent = NoConsent
    SessionCap = 1
    MaxLogin = 2
    MaxCred = 3
INVARIANT ReportsAreReuse
CHECK_DEADLOCK FALSE
