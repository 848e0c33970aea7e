SPECIFICATION Spec
CONSTANTS
    Req = {p1, p2}
    Consent = {k1}
    NoConsent = NoConsent
    SessionCap = 1
    MaxLogin = 2
    MaxCred = 3
SYMMETRY Symmetry
CONSTRAINTS OneExpiry OneEnd
INVARIANTS SpentIsMarked ReportedLineageDead IInv
PROPERTY ImplementsRotation
CHECK_DEADLOCK FALSE
