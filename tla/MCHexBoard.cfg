SPECIFICATION Spec
CONSTANTS
    StartPositions <- Endings
    MaxMoves <- MCMaxMoves
    MaxUndos = 1
INVARIANTS
    MovesAreGeometric
    ReplayGivesGame
    PawnsPromote
    CheckIsThreat
    FenRoundTrip
CHECK_DEADLOCK FALSE
