SPECIFICATION Spec
CONSTANTS
    a = a
    b = b
    c = c
    guest = guest
    g1 = g1
    g2 = g2
    g3 = g3
    e1 = e1
    e1Again = e1Again
    e1Expired = e1Expired
    e2 = e2
    e3 = e3
    e3Again = e3Again
    Games = {g1, g2}
    Accounts = {a, b, c}
    Guests = {guest}
    White <- MCWhite
    Black <- MCBlack
    TournamentGames = {g1}
    Entries = {e1, e1Expired, e2}
    EntryGame <- MCEntryGame
    Expired = {e1Expired}
    RetryCount = 2
CHECK_DEADLOCK FALSE
INVARIANTS
    EloCountsReplays
    CountedOnce
    DoneIsComplete
PROPERTIES
    RecordedOnce
