SPECIFICATION Spec
CONSTANTS
    t1 = t1
    t2 = t2
    bad = bad
    origin = origin
    BadBody = BadBody
    NoRequest = NoRequest
    Threads <- TwoThreads
    Vectors <- TwoVectors
    Unsolvable <- NoSolution
    AtOrigin <- Origin
    MaxIt = 2
INVARIANTS
    TypeOK
    SoloExact
PROPERTY
    EveryRequestAnswered
