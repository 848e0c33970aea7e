SPECIFICATION Spec
CONSTANTS
    Req = {p1, p2, p3}
    Email = {e1, e2}
SYMMETRY Symmetry
INVARIANTS TypeOK AnswerIsTrue VerifiedHasMail
PROPERTY OwnerKept
CHECK_DEADLOCK FALSE
