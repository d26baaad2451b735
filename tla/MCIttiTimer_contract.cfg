SPECIFICATION FairSpec
CONSTANTS
    a = a
    b = b
    Unset = Unset
    Null = Null
    Unread = Unread
    Free = Free
    Callers <- TwoCallers
    MaxTimers = 2
    Durations = {0, 1, 2}
    MaxTime = 3
    MaxRemoves = 2
CHECK_DEADLOCK FALSE
INVARIANT
    TypeOK
PROPERTIES
    KeepsContract
    UndisturbedPendingEnds
