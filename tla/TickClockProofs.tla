--------------------------- MODULE TickClockProofs ---------------------------
(***************************************************************************)
(* The clock of the ticks, for every number of pairs and every bound: the  *)
(* blocks of a pair stay in order and the wait it computes stays within    *)
(* the limits governance has configured.                                   *)
(***************************************************************************)
EXTENDS TickClock, TLAPS

State == [nextTickBlock : Nat, lastTickBlock : Nat, blockNumberWhenTickStarted : Nat, number : Nat]
Config == [expectedOrdersForTick : Nat, maxBlocksForTick : Nat, minBlocksForTick : Nat]

\* A division by a positive number gives a natural number.
LEMMA DivIsNat ==
    ASSUME NEW a \in Nat, NEW b \in Nat, b > 0
    PROVE  a \div b \in Nat
  OBVIOUS

LEMMA ProductIsNat ==
    ASSUME NEW a \in Nat, NEW b \in Nat
    PROVE  a * b \in Nat
  OBVIOUS

LEMMA ProductIsMonotonic ==
    ASSUME NEW a \in Nat, NEW b \in Nat, NEW c \in Nat, a <= b
    PROVE  a * c <= b * c /\ c * a <= c * b
  OBVIOUS

LEMMA DivBounds ==
    ASSUME NEW a \in Nat, NEW b \in Nat \ {0}
    PROVE  (a \div b) * b <= a /\ a < (a \div b + 1) * b
  OBVIOUS

\* The larger the divisor, the smaller the quotient.
LEMMA DivIsAntitone ==
    ASSUME NEW a \in Nat, NEW m \in Nat \ {0}, NEW n \in Nat \ {0}, m <= n
    PROVE  a \div n <= a \div m
  <1> DEFINE x == a \div n
             y == a \div m
  <1>1. x \in Nat /\ y \in Nat
    BY DivIsNat
  <1>2. x * n <= a /\ a < (y + 1) * m
    BY DivBounds
  <1> HIDE DEF x, y
  <1>3. x * m <= x * n
    BY <1>1, ProductIsMonotonic
  <1>4. x * m \in Nat /\ x * n \in Nat /\ (y + 1) * m \in Nat
    BY <1>1, ProductIsNat
  <1>5. ~(y + 1 <= x)
    <2> SUFFICES ASSUME y + 1 <= x PROVE FALSE
      OBVIOUS
    <2>1. (y + 1) * m <= x * m
      BY <1>1, ProductIsMonotonic
    <2>2. QED
      BY <1>2, <1>3, <1>4, <2>1
  <1>6. QED
    BY <1>1, <1>5 DEF x, y

\* calculateBlocks brings the wait between the limits it is given.
LEMMA WaitBetweenLimits ==
    ASSUME NEW config \in Config, config.minBlocksForTick <= config.maxBlocksForTick,
           NEW lastTickBlock \in Nat, NEW actualOrders \in Nat, actualOrders > 0,
           NEW currentBlock \in Nat, lastTickBlock <= currentBlock
    PROVE  LET wait == calculateBlocks(config, lastTickBlock, actualOrders, currentBlock)
           IN  /\ wait \in Nat
               /\ config.minBlocksForTick <= wait
               /\ wait <= config.maxBlocksForTick
  <1> DEFINE tentative == (config.expectedOrdersForTick * (currentBlock - lastTickBlock)) \div actualOrders
  <1>1. currentBlock - lastTickBlock \in Nat
    OBVIOUS
  <1>2. tentative \in Nat
    BY <1>1, ProductIsNat, DivIsNat DEF Config
  <1>3. config.minBlocksForTick \in Nat /\ config.maxBlocksForTick \in Nat
    BY DEF Config
  <1>4. calculateBlocks(config, lastTickBlock, actualOrders, currentBlock)
            = max(min(tentative, config.maxBlocksForTick), config.minBlocksForTick)
    BY DEF calculateBlocks
  <1> HIDE DEF tentative
  <1>5. QED
    BY <1>2, <1>3, <1>4 DEF max, min

LEMMA InitIInv == Init => IInv
  BY DEF Init, IInv, TypeOK, BlocksAreInOrder, Running, Unlisted

\* What nextTick gives nextTickBlock, lastTickBlock and the wait.
LEMMA NextTickWaits ==
    ASSUME IInv, NEW p \in Pairs, p \in listed, NEW matches \in Nat, NextTick(p, matches)
    PROVE  LET wait == tickState'[p].nextTickBlock - tickState[p].blockNumberWhenTickStarted
           IN  /\ wait \in Nat
               /\ tickConfig.minBlocksForTick <= wait
               /\ wait <= tickConfig.maxBlocksForTick
               /\ tickState'[p].nextTickBlock \in Nat
  <1> DEFINE s == tickState[p]
             wait == calculateBlocks(tickConfig, s.lastTickBlock, max(matches, 1), s.blockNumberWhenTickStarted)
  <1>1. s \in State /\ tickConfig \in Config
    BY DEF IInv, TypeOK, State, Config
  <1>2. /\ s.lastTickBlock \in Nat /\ s.blockNumberWhenTickStarted \in Nat
        /\ s.lastTickBlock <= s.blockNumberWhenTickStarted
        /\ tickConfig.minBlocksForTick <= tickConfig.maxBlocksForTick
    BY <1>1 DEF State, IInv, BlocksAreInOrder, NextTick
  <1>3. max(matches, 1) \in Nat /\ max(matches, 1) > 0
    BY DEF max
  <1>4. wait \in Nat /\ tickConfig.minBlocksForTick <= wait /\ wait <= tickConfig.maxBlocksForTick
    BY <1>1, <1>2, <1>3, WaitBetweenLimits
  <1>5. tickState'[p].nextTickBlock = s.blockNumberWhenTickStarted + wait
    BY <1>1 DEF NextTick, IInv, TypeOK
  <1> HIDE DEF wait
  <1>6. QED
    BY <1>2, <1>4, <1>5

LEMMA NextIInv == IInv /\ [Next]_vars => IInv'
  <1> SUFFICES ASSUME IInv, [Next]_vars PROVE IInv'
    OBVIOUS
  <1> USE DEF IInv, TypeOK, BlocksAreInOrder, Running
  <1>1. CASE MineBlock
    BY <1>1 DEF MineBlock
  <1>2. ASSUME NEW p \in Pairs, addTokenPair(p) PROVE IInv'
    BY <1>2 DEF addTokenPair
  <1>3. ASSUME NEW p \in Pairs, StartTick(p) PROVE IInv'
    BY <1>3 DEF StartTick
  <1>4. ASSUME NEW p \in Pairs, NEW matches \in 0 .. MaxMatches, NextTick(p, matches) PROVE IInv'
    <2>1. p \in listed /\ matches \in Nat
      BY <1>4 DEF NextTick
    <2>2. tickState'[p].nextTickBlock \in Nat
      BY <1>4, <2>1, NextTickWaits
    <2>3. QED
      BY <1>4, <2>1, <2>2 DEF NextTick
  <1>5. ASSUME NEW n \in 0 .. MaxWait,
               SetExpectedOrdersForTick(n) \/ SetMaxBlocksForTick(n) \/ SetMinBlocksForTick(n)
        PROVE  IInv'
    BY <1>5 DEF SetExpectedOrdersForTick, SetMaxBlocksForTick, SetMinBlocksForTick
  <1>6. CASE UNCHANGED vars
    BY <1>6 DEF vars
  <1>7. QED
    BY <1>1, <1>2, <1>3, <1>4, <1>5, <1>6 DEF Next

\* The inductive invariant.
THEOREM Invariance == Spec => []IInv
  BY InitIInv, NextIInv, PTL DEF Spec

\* Every variable always has its type.
THEOREM TypeCorrect == Spec => []TypeOK
  <1>1. IInv => TypeOK
    BY DEF IInv
  <1>2. QED
    BY <1>1, Invariance, PTL

\* The subtraction of blocks that calculateBlocks does not check never wraps around.
THEOREM NoWrapAround == Spec => []BlocksAreInOrder
  <1>1. IInv => BlocksAreInOrder
    BY DEF IInv
  <1>2. QED
    BY <1>1, Invariance, PTL

\* Every wait that a tick computes is within the limits configured when it ends.
THEOREM WaitsAreBounded == Spec => WaitIsWithinLimits
  <1> DEFINE A == \A p \in listed :
                      tickState'[p].number # tickState[p].number =>
                          LET wait == tickState'[p].nextTickBlock - tickState[p].blockNumberWhenTickStarted
                          IN  tickConfig.minBlocksForTick <= wait /\ wait <= tickConfig.maxBlocksForTick
  <1>1. IInv /\ [Next]_vars => [A]_vars
    <2> SUFFICES ASSUME IInv, Next, NEW p \in listed, tickState'[p].number # tickState[p].number
                 PROVE  LET wait == tickState'[p].nextTickBlock - tickState[p].blockNumberWhenTickStarted
                        IN  tickConfig.minBlocksForTick <= wait /\ wait <= tickConfig.maxBlocksForTick
      OBVIOUS
    <2>1. p \in Pairs
      BY DEF IInv, TypeOK
    <2>2. PICK matches \in 0 .. MaxMatches : NextTick(p, matches)
      BY <2>1 DEF Next, MineBlock, addTokenPair, StartTick, NextTick, SetExpectedOrdersForTick,
                  SetMaxBlocksForTick, SetMinBlocksForTick, IInv, TypeOK
    <2>3. QED
      BY <2>1, <2>2, NextTickWaits
  <1>2. QED
    BY <1>1, Invariance, PTL DEF Spec, WaitIsWithinLimits

\* The more orders a tick matched, the shorter the wait after it, whatever limits are
\* configured.
THEOREM BusyTicksAreClose == Spec => []BusyPairsTickSooner
  <1>1. ASSUME IInv PROVE BusyPairsTickSooner
    <2> SUFFICES ASSUME NEW p \in listed, Running(p), NEW m \in 1 .. MaxMatches, NEW n \in 1 .. MaxMatches, m <= n
                 PROVE  LET Wait(k) == calculateBlocks(tickConfig, tickState[p].lastTickBlock, k,
                                                       tickState[p].blockNumberWhenTickStarted)
                        IN  Wait(m) >= Wait(n)
      BY DEF BusyPairsTickSooner
    <2> DEFINE blocks == tickConfig.expectedOrdersForTick
                             * (tickState[p].blockNumberWhenTickStarted - tickState[p].lastTickBlock)
               Bounded(wait) == max(min(wait, tickConfig.maxBlocksForTick), tickConfig.minBlocksForTick)
    <2>1. /\ tickState[p].blockNumberWhenTickStarted - tickState[p].lastTickBlock \in Nat
          /\ tickConfig.expectedOrdersForTick \in Nat
          /\ tickConfig.maxBlocksForTick \in Nat /\ tickConfig.minBlocksForTick \in Nat
      <3>1. tickState[p] \in State /\ tickConfig \in Config
        BY <1>1 DEF IInv, TypeOK, State, Config
      <3>2. tickState[p].lastTickBlock <= tickState[p].blockNumberWhenTickStarted
        BY <1>1 DEF IInv, BlocksAreInOrder
      <3>3. QED
        BY <3>1, <3>2 DEF State, Config
    <2>2. blocks \in Nat
      BY <2>1, ProductIsNat
    <2>3. \A k \in Nat \ {0} :
              calculateBlocks(tickConfig, tickState[p].lastTickBlock, k, tickState[p].blockNumberWhenTickStarted)
                  = Bounded(blocks \div k)
      BY DEF calculateBlocks
    <2> HIDE DEF blocks
    <2>4. m \in Nat \ {0} /\ n \in Nat \ {0}
      BY TickClockAssumption
    <2>5. blocks \div n <= blocks \div m /\ blocks \div m \in Nat /\ blocks \div n \in Nat
      <3>1. blocks \div n <= blocks \div m
        BY <2>2, <2>4, DivIsAntitone
      <3>2. m > 0 /\ n > 0
        BY <2>4
      <3>3. QED
        BY <2>2, <2>4, <3>1, <3>2, DivIsNat
    <2>6. \A x, y \in Nat : x <= y => Bounded(y) >= Bounded(x)
      BY <2>1 DEF max, min
    <2> HIDE DEF Bounded
    <2>7. Bounded(blocks \div m) >= Bounded(blocks \div n)
      BY <2>5, <2>6
    <2>8. QED
      BY <2>3, <2>4, <2>7
  <1>2. QED
    BY <1>1, Invariance, PTL
=============================================================================
