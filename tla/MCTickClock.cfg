\* Two pairs that share limits of up to 3 blocks, over 5 blocks and two ticks each.
CONSTANTS
    Pairs = {p1, p2}
    MaxBlock = 5
    MaxTick = 3
    MaxMatches = 3
    MaxWait = 3
SPECIFICATION Spec
INVARIANTS
    IInv
    BusyPairsTickSooner
PROPERTIES
    WaitIsWithinLimits
CHECK_DEADLOCK FALSE
