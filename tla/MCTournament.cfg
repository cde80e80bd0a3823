SPECIFICATION FairSpec
CONSTANTS
    Users = {1, 2, 3, 4}
    Elo <- Ratings
    Creator = 1
    Lobby <- Four
    MaxAttempts = 2
    Jobs = {1, 2, 3}
    Courses <- AllCourses
INVARIANT TypeOK
INVARIANT RoundsInOrder
INVARIANT PlayersGoOn
INVARIANT ParticipantsPlay
INVARIANT GamesAreSetUp
INVARIANT WinnerHasMost
PROPERTY StatusForward
PROPERTY TournamentEnds
CHECK_DEADLOCK FALSE
