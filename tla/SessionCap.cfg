SPECIFICATION Spec
CONSTANTS
    Req = {p1, p2}
    Consent = {k1}
    NoConsent = NoConsent
    SessionCap = 1
    MaxLogin = 3
    MaxCred = 3
SYMMETRY Symmetry
CONSTRAINTS NoExpiry FewEnds
INVARIANTS SessionBound SessionPairsToken RedeemedOnce RevokedNotRedeemed
CHECK_DEADLOCK FALSE
