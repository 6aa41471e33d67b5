SPECIFICATION Spec
CONSTANTS
    MaxOrders = 4
    MaxAway = 3
    MaxInbox = 2
    MaxFaults = 1
    MaxRequests = 2
    Window = 2
    Prices = {2, 3, 4}
    MaxOpenOrders = 1
    Kinds = {"MeanReversion", "MarketMaker", "BuySpot", "PriceArbitrage", "TrendFollow"}
    Simulated = {"MeanReversion"}
    Pairs = {2}
    MaxConfigs = 1
    MaxOthers = 1
    MaxTrouble = 1
INVARIANTS OneOrderAtRisk StatusTellsPosition OpenOrdersMirrored HeldNeverOffered StopsClean
CHECK_DEADLOCK FALSE
