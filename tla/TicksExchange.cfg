\* Three orders over two ticks, at a market price that may change between them,
\* with pending orders, pauses and a pair that is disabled; the keeper is fair.
CONSTANTS
    PricePrecision = 2
    RatePrecision = 4
    MaxOrders = 3
    MaxPending = 2
    MaxTick = 3
    Amounts = {7}
    Prices = {2, 3}
    Factors = {3}
    Lifespans = {1}
    MarketPrices = {2, 4}
    CommissionRate = 1
    MinimumFixed = 1
    CancelationRate = 2
    ExpirationRate = 4
    Refused <- SomeRefuse
    Governance = {"pause", "disable"}
SPECIFICATION FairSpec
INVARIANTS
    Solvency
    MatchingIsComplete
PROPERTIES
    TickFinishes
CHECK_DEADLOCK FALSE
