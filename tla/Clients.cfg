SPECIFICATION Spec
CONSTANTS
    r1 = r1
    r2 = r2
    app = app
    slash = slash
    other = other
    bad = bad
    Req <- Requests
    Name = {n1, n2}
    Uri <- Uris
    Malformed <- Bad
    Slashed <- Slash
    Plain = app
    UriList <- Lists
    Scope = {read, write}
    Blank = Blank
    NoSecret = NoSecret
    Stars = Stars
SYMMETRY Symmetry
INVARIANTS TypeOK ShownSecretWorks GrantedIsRegistered
CHECK_DEADLOCK FALSE
