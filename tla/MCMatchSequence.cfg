\* Amounts around the precision of the prices, commissions that do not divide them,
\* prices that make a match round down to nothing.
CONSTANTS
    PricePrecision = 3
    RatePrecision = 4
    Amounts = {1, 4, 5, 8}
    Commissions = {0, 2, 3}
    BuyPrices = {2, 4, 5}
    SellPrices = {1, 2, 4}
    Rates = {3, 8}
    MaxMatches = 3
SPECIFICATION Spec
INVARIANTS
    AlwaysMatchable
    MatchIsMaximal
    NothingIsLost
    NobodyIsWorseOff
    CommissionIsProportional
    OrdersCanBeRefunded
    RoundsTheExactMatch
CHECK_DEADLOCK FALSE
