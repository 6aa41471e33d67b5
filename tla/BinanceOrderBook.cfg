CONSTANTS
    Prices = {p1, p2}
    MaxId = 3
    MaxRequests = 3
    MaxLost = 2
    MaxFailed = 1
    MaxDisconnects = 1
SPECIFICATION LiveSpec
INVARIANTS SyncSound
PROPERTIES BufferingEnds
CHECK_DEADLOCK FALSE
