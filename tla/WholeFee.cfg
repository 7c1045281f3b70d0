\* A commission that takes the whole amount of an order: the fixed minimum is as
\* large as the amount, which nothing but minOrderAmount prevents.
CONSTANTS
    PricePrecision = 2
    RatePrecision = 4
    MaxOrders = 2
    MaxPending = 0
    MaxTick = 2
    Amounts = {4}
    Prices = {2}
    Factors = {4}
    Lifespans = {1}
    MarketPrices = {3}
    CommissionRate = 0
    MinimumFixed = 4
    CancelationRate = 2
    ExpirationRate = 4
    Refused <- NobodyRefuses
    Governance = {}
SPECIFICATION KeeperSpec
PROPERTIES
    TickFinishes
CHECK_DEADLOCK FALSE
