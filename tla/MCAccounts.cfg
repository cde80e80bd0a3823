SPECIFICATION FairSpec
CONSTANTS
    c1 = c1
    c2 = c2
    n1 = n1
    n2 = n2
    p1 = p1
    p2 = p2
    MaxUsers = 2
    Names = {n1, n2}
    NoName = NoName
    Passwords = {p1, p2}
    Unusable = Unusable
    LoginAttemptsDivisor = 2
    Clients = {c1, c2}
    Faulty = {c2}
    Requests <- MCRequests
    Jobs = {1}
    MaxAttempts = 3
INVARIANTS
    TypeOK
    OneGoogleAccount
PROPERTIES
    AttemptsAreAtomic
    RegisteredIsFound
CHECK_DEADLOCK FALSE
