SPECIFICATION Spec
CONSTANTS
    Users = {u1, u2, u3}
    NoPlayer = NoPlayer
    MaxMoves = 3
    MaxEvents = 2
INVARIANTS
    OneResult
    ResultNamesSeats
    BoardFollowsMoves
PROPERTIES
    NoStaleUndo
    Settled
