CONSTANTS
    Ids = {1, 2}
    Quantity = 2
    Modes = {TRUE, FALSE}
    MaxCancels = 2
    MaxCrashes = 1
    MaxLost = 1
    MaxReports = 3
    MaxSaves = 3
SPECIFICATION LiveSpec
INVARIANTS ListAgrees NeverOvercounted DatabaseAgrees
PROPERTIES CanceledForgotten
CHECK_DEADLOCK FALSE
