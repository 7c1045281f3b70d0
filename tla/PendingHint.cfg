\* A buy book and hints that may name an order still waiting in the pending queue.
CONSTANTS
    MaxOrders = 2
    OrderDescending = TRUE
    Prices = {1}
    Lifespans = {2}
    MaxTick = 2
    MaxSteps = 1
    HintsInBook = FALSE
SPECIFICATION Spec
PROPERTIES
    HintsOnlySaveWork
CHECK_DEADLOCK FALSE
