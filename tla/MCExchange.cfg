\* Four orders of two amounts and three price levels, limit and market, in one
\* tick; two owners refuse a token.
CONSTANTS
    PricePrecision = 2
    RatePrecision = 4
    MaxOrders = 4
    MaxPending = 0
    MaxTick = 2
    Amounts = {4, 7}
    Prices = {2, 4}
    Factors = {5}
    Lifespans = {2}
    MarketPrices = {3}
    CommissionRate = 1
    MinimumFixed = 0
    CancelationRate = 4
    ExpirationRate = 4
    Refused <- SomeRefuse
    Governance = {}
SPECIFICATION Spec
INVARIANTS
    Solvency
    MatchNeverReverts
    EveryMatchIsFair
    MatchingIsComplete
CHECK_DEADLOCK FALSE
