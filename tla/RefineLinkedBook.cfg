\* Three orders of two prices on a sell book, over two ticks, any hint that names an
\* order of the book.
CONSTANTS
    MaxOrders = 3
    OrderDescending = FALSE
    Prices = {1, 2}
    Lifespans = {1}
    MaxTick = 3
    MaxSteps = 2
    HintsInBook = TRUE
SPECIFICATION LifespanSpec
INVARIANTS
    BookedOrdersHaveTheirLifespan
PROPERTIES
    ImplementsPriorityBook
CHECK_DEADLOCK FALSE
