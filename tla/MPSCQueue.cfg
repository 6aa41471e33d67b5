CONSTANTS
    Null = Null
    Producers = {p1, p2}
    Size = 2
    Word = 16
    MaxPush = 3
SPECIFICATION LiveSpec
INVARIANTS IInv SizeAtRest
PROPERTIES RefinesFifo RingMoves
