\* Every way to cut ticks into pages of 1 to 3 steps, with insertions between
\* any two pages and reverts anywhere.
CONSTANTS
    MaxSteps = 3
    MaxWork = 2
    MaxOrders = 3
    MaxTicks = 2
SPECIFICATION FairSpec
INVARIANTS
    AssertionsHold
    PageUsesItsSteps
    IInv
PROPERTIES
    ImplementsTickCycle
    TickFinishes
CHECK_DEADLOCK FALSE
