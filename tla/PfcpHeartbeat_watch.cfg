SPECIFICATION FairSpec
CONSTANTS
    Interval = 2
    MaxRetries = 2
    MaxSetups = 2
    MaxAnswers = 1
CHECK_DEADLOCK FALSE
INVARIANTS
    TypeOK
    Monitored
PROPERTY
    SilentUpfRemoved
