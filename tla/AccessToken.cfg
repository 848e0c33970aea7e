SPECIFICATION Spec
CONSTANTS
    p1 = p1
    p2 = p2
    Req <- Requests
    AccessLife = 2
    BlockTTL = 2
    MaxRow = 1
    MaxJti = 2
    MaxTime = 4
SYMMETRY Symmetry
INVARIANTS TypeOK RevokedInactive InactiveWasRevoked
PROPERTY RevokedStaysOut
CHECK_DEADLOCK FALSE
