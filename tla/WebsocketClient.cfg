SPECIFICATION Spec
CONSTANTS
    Requests = {r1, r2}
    Switch = r1
    Room = 2
    MaxFrames = 3
INVARIANTS OwnAnswer InFlight FramesInOrder
PROPERTIES EveryRequestAnswered
