\* Four orders of two prices on a buy book over two ticks, any hint that names an
\* order that is not pending, or none.
CONSTANTS
    MaxOrders = 4
    OrderDescending = TRUE
    Prices = {1, 2}
    Lifespans = {1}
    MaxTick = 3
    MaxSteps = 2
    HintsInBook = TRUE
SPECIFICATION Spec
INVARIANTS
    EveryOrderIsInOneList
    CountersMatchLists
    PriceTimePriority
    ExpiryIsReported
PROPERTIES
    HintsOnlySaveWork
CHECK_DEADLOCK FALSE
