SPECIFICATION Spec
CONSTANTS
    Base = 2
    MaxShort = 2
    WideCells = 3
    CompactAt = 8
    Int64Digits = 2
INVARIANTS  RoundTrips
CHECK_DEADLOCK FALSE
