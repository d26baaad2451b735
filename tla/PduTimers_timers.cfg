SPECIFICATION Spec
CONSTANTS
    MaxResend = 1
    MaxRequests = 2
    TimerIds = {1, 2, 3, 4}
INVARIANTS TypeOK ModificationWatched ReleaseIsFinal
PROPERTIES ModificationEnds
CHECK_DEADLOCK FALSE
