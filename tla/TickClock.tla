------------------------------ MODULE TickClock ------------------------------
(***************************************************************************)
(* When the ticks of the pairs may start: TickState.Data of every pair and *)
(* the tickConfig they share, which governance may change at any block,    *)
(* the ones a tick starts and ends in included.                            *)
(*                                                                         *)
(* What happens between the start and the end of a tick is left to         *)
(* TickExecution; here a tick only says, when it ends, how many orders it  *)
(* matched.  Block numbers and tick numbers never come near their widths.  *)
(***************************************************************************)
EXTENDS Integers

CONSTANTS
    Pairs,          \* the pairs that may be listed
    MaxBlock,       \* bound of the block number
    MaxTick,        \* bound of the tick numbers
    MaxMatches,     \* largest number of orders matched in a tick
    MaxWait         \* largest number of blocks governance may configure

ASSUME TickClockAssumption ==
    /\ MaxBlock \in Nat
    /\ MaxTick \in Nat
    /\ MaxMatches \in Nat
    /\ MaxWait \in Nat

VARIABLES
    block,         \* block.number
    tickConfig,    \* ConfigurableTick.tickConfig
    listed,        \* the pairs addTokenPair has added
    tickState      \* Pair.tickState of each listed pair

vars == <<block, tickConfig, listed, tickState>>

Unlisted == [nextTickBlock |-> 0, lastTickBlock |-> 0, blockNumberWhenTickStarted |-> 0, number |-> 0]

\* initialize: the two requires.
Init ==
    /\ block = 1
    /\ tickConfig \in [expectedOrdersForTick : {2}, maxBlocksForTick : 0 .. MaxWait,
                       minBlocksForTick : 0 .. MaxWait]
    /\ tickConfig.maxBlocksForTick >= tickConfig.minBlocksForTick
    /\ listed = {}
    /\ tickState = [p \in Pairs |-> Unlisted]

\* Math.min, Math.max
min(a, b) == IF a < b THEN a ELSE b
max(a, b) == IF a > b THEN a ELSE b

\* MUTANT of calculateBlocks: without the upper limit.
calculateUnlimitedBlocks(config, lastTickBlock, actualOrders, currentBlock) ==
    max((config.expectedOrdersForTick * (currentBlock - lastTickBlock)) \div actualOrders, config.minBlocksForTick)

\* MUTANT of calculateBlocks: the proportion upside down.
calculateInverseBlocks(config, lastTickBlock, actualOrders, currentBlock) ==
    LET tentative == (actualOrders * (currentBlock - lastTickBlock)) \div config.expectedOrdersForTick
    IN  max(min(tentative, config.maxBlocksForTick), config.minBlocksForTick)

\* calculateBlocks: the blocks of the last tick in proportion to the orders expected
\* and matched, brought between the two limits.
calculateBlocks(config, lastTickBlock, actualOrders, currentBlock) ==
    LET tentative == (config.expectedOrdersForTick * (currentBlock - lastTickBlock)) \div actualOrders
    IN  max(min(tentative, config.maxBlocksForTick), config.minBlocksForTick)

MineBlock ==
    /\ block < MaxBlock
    /\ block' = block + 1
    /\ UNCHANGED <<tickConfig, listed, tickState>>

addTokenPair(p) ==
    /\ p \notin listed
    /\ listed' = listed \union {p}
    /\ tickState' = [tickState EXCEPT ![p] = [nextTickBlock |-> block + tickConfig.minBlocksForTick,
                                              lastTickBlock |-> 0, blockNumberWhenTickStarted |-> 0,
                                              number |-> 1]]
    /\ UNCHANGED <<block, tickConfig>>

\* The stage of the pair, of which the clock only knows whether a tick is running.
Running(p) == tickState[p].blockNumberWhenTickStarted # 0

\* startTick
StartTick(p) ==
    /\ p \in listed
    /\ ~Running(p)
    /\ tickState[p].number < MaxTick
    /\ block >= tickState[p].nextTickBlock
    /\ tickState' = [tickState EXCEPT ![p].blockNumberWhenTickStarted = block]
    /\ UNCHANGED <<block, tickConfig, listed>>

\* nextTick
NextTick(p, matches) ==
    LET s    == tickState[p]
        wait == calculateBlocks(tickConfig, s.lastTickBlock, max(matches, 1), s.blockNumberWhenTickStarted)
    IN  /\ p \in listed
        /\ Running(p)
        /\ tickState' = [tickState EXCEPT ![p] =
               [nextTickBlock |-> s.blockNumberWhenTickStarted + wait,
                lastTickBlock |-> s.blockNumberWhenTickStarted,
                blockNumberWhenTickStarted |-> 0,
                number |-> s.number + 1]]
        /\ UNCHANGED <<block, tickConfig, listed>>

SetExpectedOrdersForTick(n) ==
    /\ n >= 2
    /\ tickConfig' = [tickConfig EXCEPT !.expectedOrdersForTick = n]
    /\ UNCHANGED <<block, listed, tickState>>

\* MUTANT of SetMaxBlocksForTick: does not look at the minimum.
SetAnyMaxBlocksForTick(n) ==
    /\ tickConfig' = [tickConfig EXCEPT !.maxBlocksForTick = n]
    /\ UNCHANGED <<block, listed, tickState>>

SetMaxBlocksForTick(n) ==
    /\ n >= tickConfig.minBlocksForTick
    /\ tickConfig' = [tickConfig EXCEPT !.maxBlocksForTick = n]
    /\ UNCHANGED <<block, listed, tickState>>

SetMinBlocksForTick(n) ==
    /\ n <= tickConfig.maxBlocksForTick
    /\ tickConfig' = [tickConfig EXCEPT !.minBlocksForTick = n]
    /\ UNCHANGED <<block, listed, tickState>>

Next ==
    \/ MineBlock
    \/ \E p \in Pairs : addTokenPair(p) \/ StartTick(p) \/ \E matches \in 0 .. MaxMatches : NextTick(p, matches)
    \/ \E n \in 0 .. MaxWait : SetExpectedOrdersForTick(n) \/ SetMaxBlocksForTick(n) \/ SetMinBlocksForTick(n)

Spec == Init /\ [][Next]_vars

-----------------------------------------------------------------------------

\* Every variable has its type.
TypeOK ==
    /\ block \in Nat
    /\ tickConfig \in [expectedOrdersForTick : Nat, maxBlocksForTick : Nat, minBlocksForTick : Nat]
    /\ listed \subseteq Pairs
    /\ tickState \in [Pairs -> [nextTickBlock : Nat, lastTickBlock : Nat, blockNumberWhenTickStarted : Nat,
                                number : Nat]]

\* The unchecked subtraction of calculateBlocks never wraps around: a tick never
\* starts before the last one did, nor in the future.
BlocksAreInOrder ==
    \A p \in listed :
        /\ tickState[p].lastTickBlock <= block
        /\ Running(p) => /\ tickState[p].lastTickBlock <= tickState[p].blockNumberWhenTickStarted
                         /\ tickState[p].blockNumberWhenTickStarted <= block

\* However governance changes the limits, one at a time and at any block, the next
\* tick is due between the least and the most blocks configured when a tick ends,
\* counted from its start: a pair is never put to sleep for longer than that.
WaitIsWithinLimits ==
    [][\A p \in listed :
          tickState'[p].number # tickState[p].number =>
              LET wait == tickState'[p].nextTickBlock - tickState[p].blockNumberWhenTickStarted
              IN  tickConfig.minBlocksForTick <= wait /\ wait <= tickConfig.maxBlocksForTick]_vars

\* What every step preserves: the two limits are in order because each setter checks
\* the other one.
IInv ==
    /\ TypeOK
    /\ tickConfig.minBlocksForTick <= tickConfig.maxBlocksForTick
    /\ block > 0
    /\ BlocksAreInOrder

\* A tick that matched more orders is not followed by a longer wait.
BusyPairsTickSooner ==
    \A p \in listed : Running(p) =>
        \A m, n \in 1 .. MaxMatches :
            LET Wait(k) == calculateBlocks(tickConfig, tickState[p].lastTickBlock, k,
                                           tickState[p].blockNumberWhenTickStarted)
            IN  m <= n => Wait(m) >= Wait(n)
=============================================================================
