SPECIFICATION FairSpec
CONSTANTS
    u1 = u1
    u2 = u2
    Users = {u1, u2}
    NoPlayer = NoPlayer
    Handlers = {h1, h2}
    Inputs <- Conflicting
    MaxMoves = 1
    MaxEvents = 1
    MaxRetries = 2
INVARIANTS
    TypeOK
PROPERTIES
    NoLostUpdate
    InputsAnswered
