SPECIFICATION Spec
CONSTANTS
    Req = {p1, p2}
    MaxAttempts = 1
    MaxFailures = 3
    MaxCode = 2
    MaxPass = 2
SYMMETRY Symmetry
INVARIANTS BlockNeedsFailures BlockedHasCode PasswordRecoverable AnsweredCodeGone AddressProved
CHECK_DEADLOCK FALSE
