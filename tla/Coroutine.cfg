CONSTANTS
    None = None
    Roots = {r1, r2}
    Children = {c1}
    Bases = {b1, b2}
    QueueSize = 8
    MaxAwaits = 1
SPECIFICATION LiveSpec
INVARIANTS NoDanglingReference EventsExact
PROPERTIES ReleasedFrameFreed
CHECK_DEADLOCK FALSE
