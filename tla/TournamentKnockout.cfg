SPECIFICATION FairSpec
CONSTANTS
    Users = {1, 2}
    Elo <- Ratings
    Creator = 1
    Lobby <- Two
    MaxAttempts = 2
    Jobs = {1, 2}
    Courses <- FinalOfTwo
PROPERTY KnockoutStopsAtOne
CHECK_DEADLOCK FALSE
