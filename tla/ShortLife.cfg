\* One price, two orders, two ticks.
CONSTANTS
    MaxOrders = 2
    OrderDescending = TRUE
    Prices = {1}
    Lifespans = {1, 2}
    MaxTick = 4
    MaxSteps = 1
    HintsInBook = TRUE
SPECIFICATION LifespanSpec
INVARIANTS
    EveryOrderHasItsLifespan
CHECK_DEADLOCK FALSE
