SPECIFICATION FairSpec
CONSTANTS
    smf = smf
    upf = upf
    heartbeat = heartbeat
    report = report
    Nodes <- BothNodes
    Requesters <- OnlySmf
    Types <- AllTypes
    ReportTypes <- Reports
    SeqMod = 2
    N1 = 1
    DispatchTimeouts = TRUE
    MaxRequests = 1
    MaxDups = 1
CHECK_DEADLOCK FALSE
INVARIANT
    OneAnswer
PROPERTIES
    QuietAfterAnswer
    ProcedureEnds
