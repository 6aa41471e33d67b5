CONSTANTS
    Posters = {p1, p2}
    MaxPost = 2
    MaxOwn = 1
SPECIFICATION EpollLiveSpec
INVARIANTS NoLostWakeUp
PROPERTIES EveryEventHandled StopEndsLoop
CHECK_DEADLOCK FALSE
