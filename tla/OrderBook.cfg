CONSTANTS
    MaxPrice = 6
    MaxListed = 1
    Depth = 5
    WORD_BITS = 2
    RebaseDelta = 0
    PublishLevels = 2
    MaxMessages = 4
    Prices <- MCPrices
    Quantities = {0, 2}
    Snapshots <- MCSnapshots
SPECIFICATION Spec
INVARIANTS TopIsBest BookIsFeed BidInsideZone PublishedTrue
CHECK_DEADLOCK FALSE
