SPECIFICATION FairSpec
CONSTANTS
    a = a
    b = b
    Unset = Unset
    Null = Null
    Unread = Unread
    Free = Free
    Callers <- OneCaller
    MaxTimers = 2
    Durations = {1, 2}
    MaxTime = 3
    MaxRemoves = 1
CHECK_DEADLOCK FALSE
PROPERTY
    PendingEnds
