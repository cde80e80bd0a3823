SPECIFICATION ActiveSpec
CONSTANTS
    a = a
    p1 = p1
    p2 = p2
    Users = {a}
    Pages = {p1, p2}
    UserOf <- MCUserOf
    Viewers = {v}
    ActiveUserMaxAge = 2
    CallTime = 1
    MaxTime = 6
CHECK_DEADLOCK FALSE
INVARIANTS
    CountsAreRecent
    ActiveUntilAge
