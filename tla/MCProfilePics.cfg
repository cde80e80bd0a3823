SPECIFICATION Spec
CONSTANTS
    Accounts <- MCAccounts
    Guests <- MCGuests
    Text <- MCText
    ListLength = 2
    PageLength = 1
    UUIDs = {1, 2}
    MaxUploads = 3
    MaxClock = 1
INVARIANTS
    NewestKept
    OneIsLeft
    RunIsComplete
CHECK_DEADLOCK FALSE
