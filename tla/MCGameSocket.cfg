SPECIFICATION FairSpec
CONSTANTS
    s1 = s1
    s2 = s2
    r1 = r1
    r2 = r2
    Sockets = {s1, s2}
    Servers = {r1, r2}
    Host <- TwoServers
    GameplayChanBufCap = 1
    Inputs <- OneInput
    Leavers = {s1}
    MaxVersion = 3
    MaxBreaks <- OneBreak
INVARIANTS
    NoGap
    ChannelsClosedOnce
    SameOrder
PROPERTIES
    ChangesArrive
    SocketsEnd
    RefusalsAnswered
CHECK_DEADLOCK FALSE
