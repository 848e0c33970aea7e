SPECIFICATION Spec
CONSTANTS
    Req = {p1, p2}
    Client = {app, web}
    NoClient = NoClient
    Public = {app}
    Challenge = {ch}
    NoChallenge = NoChallenge
    MaxRequest = 2
    MaxCode = 3
    MaxConsent = 3
SYMMETRY Symmetry
INVARIANTS DeliveredHasConsent ConsentBound ConsumedIsGone PublicGrantProved
CHECK_DEADLOCK FALSE
