SPECIFICATION Spec
CONSTANTS
    Interval = 2
    MaxRetries = 2
    MaxSetups = 1
    MaxAnswers = 3
CHECK_DEADLOCK FALSE
INVARIANT
    FailsOnlyWhenSilent
