SPECIFICATION Spec
CONSTANTS
    p1 = p1
    p2 = p2
    t1 = t1
    t2 = t2
    x1 = x1
    x2 = x2
    x3 = x3
    none = none
    Pdus <- TwoPdus
    Tunnels <- OneTunnel
    CpSeids <- AllObjs
    UpSeids <- AllUpSeids
    UeAddrs <- AllAddrs
    NoUe = none
    WordBits = 2
    PoolSize = 1
    MaxObjs = 2
    Trxns <- TwoTrxns
    MaxMishaps = 0
INVARIANTS ReplacedIsDeleted
SYMMETRY Alike
CHECK_DEADLOCK FALSE
