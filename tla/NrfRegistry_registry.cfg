SPECIFICATION Spec
CONSTANTS
    Nfs = {n1}
    Subs = {s1}
    Workers = {w1, w2}
    MaxObjs = 2
INVARIANTS
    TypeOK
    HeartbeatCounts
    Watched
    SubscribersKnow
