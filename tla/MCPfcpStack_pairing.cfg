SPECIFICATION FromZero
CONSTANTS
    smf = smf
    upf = upf
    heartbeat = heartbeat
    report = report
    Nodes <- BothNodes
    Requesters <- BothNodes
    Types <- AllTypes
    ReportTypes <- Reports
    SeqMod = 2
    N1 = 0
    DispatchTimeouts = FALSE
    MaxRequests = 2
    MaxDups = 1
CONSTRAINT FewRequests
CHECK_DEADLOCK FALSE
INVARIANTS
    TypeOK
    OneAnswer
    NoDoubleService
    AnswersOwn
