SPECIFICATION FairSpec
CONSTANTS
    smf = smf
    upf = upf
    heartbeat = heartbeat
    report = report
    Nodes <- BothNodes
    Requesters <- OnlySmf
    Types <- Heartbeats
    ReportTypes <- NoReports
    SeqMod = 2
    N1 = 1
    DispatchTimeouts = FALSE
    MaxRequests = 1
    MaxDups = 0
CHECK_DEADLOCK FALSE
PROPERTY
    ProcedureEnds
