------------------------------ MODULE Exchange ------------------------------
(***************************************************************************)
(* One pair of the exchange: its two orderbooks, its pending queues, its   *)
(* tick and its ledger, under every interleaving of the transactions of    *)
(* users (insert, cancel, expire, withdraw), of keepers (pages of the      *)
(* tick) and of governance (pause, disable).                               *)
(*                                                                         *)
(* The books are the sorted sequences LinkedBook implements.  A page runs  *)
(* one step: a page of n steps is n pages nobody interrupts, because       *)
(* executeGroup runs the hooks in the same call as the step after or       *)
(* before them (TickExecution).  A transaction that reverts changes        *)
(* nothing and is not an action.                                           *)
(*                                                                         *)
(* "buy" and "sell" name the sides and also their tokens: the buy side     *)
(* holds base tokens, the sell side secondary tokens.                      *)
(***************************************************************************)
EXTENDS PriceTime, Settlement, FiniteSets, FiniteSetsExt, SequencesExt

CONSTANTS
    MaxOrders,           \* bound of the order ids
    MaxPending,          \* bound of the orders inserted during ticks
    MaxTick,             \* bound of the tick number
    Amounts,             \* amounts sent with an insertion
    Prices,              \* prices of the limit orders
    Factors,             \* multiply factors of the market orders
    Lifespans,           \* lifespans of the orders
    MarketPrices,        \* prices the price provider may give
    CommissionRate,      \* commissionRate, out of RatePrecision
    MinimumFixed,        \* minimumCommission in tokens of the order
    CancelationRate,     \* cancelationPenaltyRate
    ExpirationRate,      \* expirationPenaltyRate
    Refused,             \* <<id, token>>: the owner of order id cannot receive the token
    Governance           \* which of "pause" and "disable" governance may do

Sides == {"buy", "sell"}
Other(side) == IF side = "buy" THEN "sell" ELSE "buy"
Ids == 1 .. MaxOrders

ASSUME ExchangeAssumption ==
    /\ {MaxOrders, MaxPending, MaxTick, MinimumFixed} \subseteq Nat
    /\ Amounts \union Lifespans \subseteq Nat
    /\ Prices \union Factors \union MarketPrices \subseteq Nat \ {0}
    /\ {CommissionRate, CancelationRate, ExpirationRate} \subseteq 0 .. RatePrecision
    /\ Refused \subseteq Ids \X Sides
    /\ Governance \subseteq {"pause", "disable"}

\* What reading the mapping of the orders at id 0 returns.
NoOrder == [id |-> 0, orderType |-> "LIMIT_ORDER", amount |-> 0, commission |-> 0, price |-> 0,
            expiresInTick |-> 0]

\* pageMemory after delete.
EmptyPage ==
    [marketPrice |-> 0, emergentPrice |-> 0, matchesAmount |-> 0,
     last |-> [side \in Sides |-> NoOrder],                            \* lastBuyMatch, lastSellMatch
     lastIds |-> [side \in Sides |-> [t \in OrderTypes |-> 0]]]        \* last{Buy,Sell}{Limit,Market}OrderId

VARIABLES
    books,          \* the sorted books, by side and order type
    queues,         \* the pending queues, by side and order type
    tickStage,      \* Pair.tickStage
    taskDone,       \* the task of this stage has finished
    tick,           \* Pair.tickState.number
    page,           \* Pair.pageMemory
    balance,        \* tokens the exchange owns
    charged,        \* CommissionManager.exchangeCommissions
    stranded,       \* history: tokens that SafeTransfer.doTransfer failed to send
    filled,         \* history: orders the matching of this tick filled
    lastOrderId,    \* OrderIdGenerator.lastOrderId
    pendingIds,     \* how many orders were inserted during ticks, for their bound
    paused,         \* Stoppable.paused
    disabled        \* Pair.disabled

tickVars == <<tickStage, taskDone, tick, page, filled>>
ledgerVars == <<balance, charged, stranded>>
governanceVars == <<paused, disabled>>
vars == <<books, queues, tickVars, ledgerVars, lastOrderId, pendingIds, governanceVars>>

Empty == [side \in Sides |-> [t \in OrderTypes |-> <<>>]]
Zero == [side \in Sides |-> 0]

Init ==
    /\ books = Empty
    /\ queues = Empty
    /\ tickStage = "RECEIVING_ORDERS"
    /\ taskDone = FALSE
    /\ tick = 1
    /\ page = EmptyPage
    /\ balance = Zero /\ charged = Zero /\ stranded = Zero
    /\ filled = 0
    /\ lastOrderId = 0
    /\ pendingIds = 0
    /\ paused = FALSE /\ disabled = FALSE

Descending(side) == side = "buy"

Running == tickStage # "RECEIVING_ORDERS"

isExpired(order) == order.expiresInTick <= tick

-----------------------------------------------------------------------------
(* Transfers.  A ledger is [balance, charged, stranded]; the functions below *)
(* are the effects of the transfers of one transaction.                      *)

Ledger == [balance |-> balance, charged |-> charged, stranded |-> stranded]

SetLedger(l) == balance' = l.balance /\ charged' = l.charged /\ stranded' = l.stranded

\* SafeTransfer.doTransfer to the owner of an order: a transfer that fails is
\* noted and the transaction goes on.
TransferFails(l, id, token, amount) == <<id, token>> \in Refused \/ l.balance[token] < amount

doTransfer(l, id, token, amount) ==
    IF TransferFails(l, id, token, amount)
    THEN [l EXCEPT !.stranded[token] = @ + amount]
    ELSE [l EXCEPT !.balance[token] = @ - amount]

chargeCommission(l, token, amount) == [l EXCEPT !.charged[token] = @ + amount]

\* MUTANT of refundOrder: the penalty is held back and not charged.
refundOrderOnly(l, side, order, rate) == doTransfer(l, order.id, side, Refund(order, rate))

\* refundOrder
refundOrder(l, side, order, rate) ==
    doTransfer(chargeCommission(l, side, Penalty(order, rate)), order.id, side, Refund(order, rate))

-----------------------------------------------------------------------------
(* Insertions, by RestrictiveOrderListing, OrderListing and doInsert...Order. *)

\* The fee is taken from the amount sent; the rest can be exchanged.
NewOrder(t, amount, price, lifespan) ==
    LET fee == calculateInitialFee(amount, CommissionRate, MinimumFixed)
    IN  [id |-> lastOrderId', orderType |-> t, amount |-> amount - fee, commission |-> fee, price |-> price,
         expiresInTick |-> tick + lifespan]

\* The checks of an insertion.  The fee may take the whole amount of a limit order
\* (the subtraction of OrderListing only reverts below zero), not of a market order.
MayInsert(t, amount) ==
    LET fee == calculateInitialFee(amount, CommissionRate, MinimumFixed)
    IN  /\ ~paused
        /\ ~disabled
        /\ fee <= amount
        /\ t = "MARKET_ORDER" => fee # amount
        /\ lastOrderId < MaxOrders
        /\ lastOrderId' = lastOrderId + 1

InsertOrder(side, t, amount, price, lifespan) ==
    /\ MayInsert(t, amount)
    /\ ~Running
    /\ books' = [books EXCEPT ![side][t] = Place(Descending(side), @, NewOrder(t, amount, price, lifespan))]
    /\ balance' = [balance EXCEPT ![side] = @ + amount]
    /\ UNCHANGED <<queues, tickVars, charged, stranded, pendingIds, governanceVars>>

InsertOrderAsPending(side, t, amount, price, lifespan) ==
    /\ MayInsert(t, amount)
    /\ Running
    /\ pendingIds < MaxPending
    /\ pendingIds' = pendingIds + 1
    /\ queues' = [queues EXCEPT ![side][t] = Append(@, NewOrder(t, amount, price, lifespan))]
    /\ balance' = [balance EXCEPT ![side] = @ + amount]
    /\ UNCHANGED <<books, tickVars, charged, stranded, governanceVars>>

-----------------------------------------------------------------------------
(* Orders that leave a book without being matched.                           *)

\* MUTANT of CancelOrder: also while a tick is running.
CancelOrderAnyTime(side, t, order) ==
    /\ ~paused
    /\ order \in In(books[side][t])
    /\ ~TransferFails(Ledger, order.id, side, Refund(order, CancelationRate))
    /\ books' = [books EXCEPT ![side][t] = Without(@, {order})]
    /\ SetLedger(refundOrder(Ledger, side, order, CancelationRate))
    /\ UNCHANGED <<queues, tickVars, lastOrderId, pendingIds, governanceVars>>

\* doCancelOrder: the refund must succeed.
CancelOrder(side, t, order) ==
    /\ ~paused
    /\ ~Running
    /\ order \in In(books[side][t])
    /\ ~TransferFails(Ledger, order.id, side, Refund(order, CancelationRate))
    /\ books' = [books EXCEPT ![side][t] = Without(@, {order})]
    /\ SetLedger(refundOrder(Ledger, side, order, CancelationRate))
    /\ UNCHANGED <<queues, tickVars, lastOrderId, pendingIds, governanceVars>>

\* Refunds of several expired orders, in any order: processExpiredOrder of each.
RefundAll(l, side, orders) ==
    FoldSet(LAMBDA order, ledger : refundOrder(ledger, side, order, ExpirationRate), l, orders)

\* processExpired: in one call, the expired orders among some consecutive orders
\* of a list.
ProcessExpired(side, t, from, to) ==
    LET list    == books[side][t]
        expired == {order \in In(SubSeq(list, from, to)) : isExpired(order)}
    IN  /\ ~paused
        /\ from \in DOMAIN list /\ to \in DOMAIN list
        /\ expired # {}
        /\ books' = [books EXCEPT ![side][t] = Without(@, expired)]
        /\ SetLedger(RefundAll(Ledger, side, expired))
        /\ UNCHANGED <<queues, tickVars, lastOrderId, pendingIds, governanceVars>>

\* withdrawCommissions, of one token, whether a tick is running or not.
WithdrawCommissions(token) ==
    /\ charged[token] > 0
    /\ balance[token] >= charged[token]
    /\ balance' = [balance EXCEPT ![token] = @ - charged[token]]
    /\ charged' = [charged EXCEPT ![token] = 0]
    /\ UNCHANGED <<books, queues, tickVars, stranded, lastOrderId, pendingIds, governanceVars>>

-----------------------------------------------------------------------------
(* Which order is next.                                                      *)

FirstOf(list) == IF list = <<>> THEN NoOrder ELSE Head(list)

\* mostCompetitiveOrder of a limit order and a market order of one side.
mostCompetitiveOrder(marketPrice, side, limit, market) ==
    LET spot == marketOrderSpotPrice(marketPrice, market.price)
    IN  IF market.id = 0 THEN limit
        ELSE IF limit.id = 0 THEN market
        ELSE IF limit.price = spot \/ Before(Descending(side), limit.price, spot) THEN limit
        ELSE market

\* The most competitive order of the book b of a side: a book is a sequence of
\* each type.
TopOf(marketPrice, side, b) ==
    mostCompetitiveOrder(marketPrice, side, FirstOf(b["LIMIT_ORDER"]), FirstOf(b["MARKET_ORDER"]))

\* popAndGetNewTop and onOrderFullMatched: the book without its top.
Popped(marketPrice, side, b) == [b EXCEPT ![TopOf(marketPrice, side, b).orderType] = Tail(@)]

\* getNextValidLimitOrder, getNextValidMarketOrder: the first order that has not
\* expired after the one of the given id, or from the start.
NextValid(list, id) ==
    LET after == {n \in DOMAIN list : list[n].id = id}
        from  == IF id = 0 THEN 1 ELSE IF after = {} THEN Len(list) + 1 ELSE Max(after) + 1
        valid == {n \in from .. Len(list) : ~isExpired(list[n])}
    IN  IF valid = {} THEN NoOrder ELSE list[Min(valid)]

\* getNextValidOrder of the pair: the order, and the ids to go on from.
getNextValidOrder(p, side) ==
    LET next == mostCompetitiveOrder(p.marketPrice, side,
                    NextValid(books[side]["LIMIT_ORDER"], p.lastIds[side]["LIMIT_ORDER"]),
                    NextValid(books[side]["MARKET_ORDER"], p.lastIds[side]["MARKET_ORDER"]))
    IN  [order |-> next, ids |-> [p.lastIds[side] EXCEPT ![next.orderType] = next.id]]

PriceOf(p, order) == getOrderPrice(p.marketPrice, order)

\* shouldMatchStorage
ShouldMatch(p, buy, sell) == sell.id # 0 /\ buy.id # 0 /\ PriceOf(p, buy) >= PriceOf(p, sell)

-----------------------------------------------------------------------------
(* The simulation.                                                           *)

\* onSimulationStart: the page memory of a tick that starts at a market price.
StartPage(marketPrice) ==
    LET priced == [page EXCEPT !.marketPrice = marketPrice]
        first  == [side \in Sides |-> getNextValidOrder(priced, side)]
    IN  [priced EXCEPT !.last = [side \in Sides |-> first[side].order],
                       !.lastIds = [side \in Sides |-> first[side].ids]]

\* simulateMatchingStep on two orders that match: whoever is filled gives place
\* to the next one, the other one keeps what is left of its amount.
Simulate(p) ==
    LET intents == compareIntents(p.last["buy"].amount, PriceOf(p, p.last["buy"]), p.last["sell"].amount)
        fills   == CASE intents.matchType = "DOUBLE_FILL" -> Sides
                     [] intents.matchType = "BUYER_FILL"  -> {"buy"}
                     [] intents.matchType = "SELLER_FILL" -> {"sell"}
        used    == [buy  |-> convertToBase(intents.limitingAmount, PriceOf(p, p.last["buy"])),
                    sell |-> intents.limitingAmount]
        reduced == [side \in Sides |-> IF side \in fills THEN p.last[side]
                                                         ELSE [p.last[side] EXCEPT !.amount = @ - used[side]]]
        next    == [side \in Sides |-> IF side \in fills THEN getNextValidOrder(p, side)
                                                         ELSE [order |-> reduced[side], ids |-> p.lastIds[side]]]
        counted == [p EXCEPT !.matchesAmount = @ + Cardinality(fills), !.last = reduced]
        goesOn  == ShouldMatch(p, next["buy"].order, next["sell"].order)
    IN  [goesOn |-> goesOn,
         page   |-> IF goesOn
                    THEN [counted EXCEPT !.last = [side \in Sides |-> next[side].order],
                                         !.lastIds = [side \in Sides |-> next[side].ids]]
                    ELSE counted]

\* MUTANT of FinishSimulation: orders are matched at the market price.
FinishAtMarketPrice(p) ==
    IF p.matchesAmount > 0 THEN [p EXCEPT !.emergentPrice = p.marketPrice] ELSE p

\* onSimulationFinish
FinishSimulation(p) ==
    IF p.matchesAmount > 0
    THEN [p EXCEPT !.emergentPrice = average(PriceOf(p, p.last["buy"]), PriceOf(p, p.last["sell"]))]
    ELSE p

\* One step of the simulation task from the page memory p, and its finish.
SimulationStep(p) ==
    LET matches == ShouldMatch(p, p.last["buy"], p.last["sell"])
        step    == Simulate(p)
    IN  /\ matches => PriceOf(p, p.last["buy"]) # 0     \* compareIntents divides by it
        /\ taskDone' = ~(matches /\ step.goesOn)
        /\ page' = LET after == IF matches THEN step.page ELSE p
                   IN  IF taskDone' THEN FinishSimulation(after) ELSE after

\* The page that starts a tick: onTickStart, onSimulationStart and a step.
StartTick(marketPrice) ==
    /\ ~paused
    /\ tickStage = "RECEIVING_ORDERS"
    /\ tick < MaxTick
    /\ tickStage' = "RUNNING_SIMULATION"
    /\ SimulationStep(StartPage(marketPrice))
    /\ UNCHANGED <<books, queues, tick, filled, ledgerVars, lastOrderId, pendingIds, governanceVars>>

ContinueSimulation ==
    /\ ~paused
    /\ tickStage = "RUNNING_SIMULATION"
    /\ ~taskDone
    /\ SimulationStep(page)
    /\ UNCHANGED <<books, queues, tickStage, tick, filled, ledgerVars, lastOrderId, pendingIds, governanceVars>>

-----------------------------------------------------------------------------
(* The matching.                                                             *)

\* MUTANT of DropExpired: leaves the expired orders at the top.
DropNothing(side, b, ledger) == [book |-> b, ledger |-> ledger]

\* getFirstForMatching and getNextValidOrderForMatching: the book of a side
\* without the expired orders at its top, each of them refunded.
DropExpired(side, b, ledger) ==
    LET drop[k \in 0 .. MaxOrders] ==
            IF k = 0
            THEN [book |-> b, ledger |-> ledger]
            ELSE LET top == TopOf(page.marketPrice, side, drop[k - 1].book)
                 IN  IF top.id = 0 \/ ~isExpired(top)
                     THEN drop[k - 1]
                     ELSE [book   |-> Popped(page.marketPrice, side, drop[k - 1].book),
                           ledger |-> refundOrder(drop[k - 1].ledger, side, top, ExpirationRate)]
    IN  drop[MaxOrders]

\* What the matching step finds.
BuyFront == DropExpired("buy", books["buy"], Ledger)
SellFront == DropExpired("sell", books["sell"], BuyFront.ledger)
BestBuy == TopOf(page.marketPrice, "buy", BuyFront.book)
BestSell == TopOf(page.marketPrice, "sell", SellFront.book)

\* executeMatch: the commissions and the transfers of a match, in their order.
SettleMatch(ledger, buy, sell, m) ==
    LET l1 == chargeCommission(ledger, "buy", m.buyCommission)
        l2 == doTransfer(l1, buy.id, "buy", Change(buy, m))
        l3 == doTransfer(l2, buy.id, "sell", m.limiting)
        l4 == chargeCommission(l3, "sell", m.sellCommission)
    IN  doTransfer(l4, sell.id, "buy", m.buyerSent)

\* The top of a book after a match: popped when it is filled, smaller otherwise.
AfterMatch(side, b, order, sent, isFilled) ==
    IF isFilled
    THEN Popped(page.marketPrice, side, b)
    ELSE [b EXCEPT ![order.orderType] = <<subtractAmount(order, sent)>> \o Tail(@)]

\* The next match reverts on nothing: there are two orders, and executeMatch can
\* exchange them at the emergent price.
CanMatch ==
    /\ BestBuy.id # 0
    /\ BestSell.id # 0
    /\ NoRevert(BestBuy, PriceOf(page, BestBuy), BestSell, PriceOf(page, BestSell), page.emergentPrice)

\* MUTANT of IsLastMatch: compares only the buy order.
IsLastBuy(buy, sell) == buy.id = page.last["buy"].id

\* The end of matchOrders: the two orders are those of the last simulated match.
IsLastMatch(buy, sell) == buy.id = page.last["buy"].id /\ sell.id = page.last["sell"].id

\* matchOrders when the simulation found matches.
MatchBest ==
    LET m     == Match(BestBuy, PriceOf(page, BestBuy), BestSell, PriceOf(page, BestSell), page.emergentPrice)
        fills == CASE m.matchType = "DOUBLE_FILL" -> Sides
                   [] m.matchType = "BUYER_FILL"  -> {"buy"}
                   [] m.matchType = "SELLER_FILL" -> {"sell"}
    IN  /\ CanMatch
        /\ taskDone' = IsLastMatch(BestBuy, BestSell)
        /\ books' = [buy  |-> AfterMatch("buy", BuyFront.book, BestBuy, m.expectedSend, "buy" \in fills),
                     sell |-> AfterMatch("sell", SellFront.book, BestSell, m.limiting, "sell" \in fills)]
        /\ SetLedger(SettleMatch(SellFront.ledger, BestBuy, BestSell, m))
        /\ filled' = filled + Cardinality(fills)

\* One step of the matching task.
MatchStep ==
    IF page.matchesAmount = 0
    THEN taskDone' = TRUE /\ UNCHANGED <<books, ledgerVars, filled>>
    ELSE MatchBest

\* onMatchOrdersStart and a step.
StartMatching ==
    /\ ~paused
    /\ tickStage = "RUNNING_SIMULATION"
    /\ taskDone
    /\ tickStage' = "RUNNING_MATCHING"
    /\ MatchStep
    /\ UNCHANGED <<queues, tick, page, lastOrderId, pendingIds, governanceVars>>

ContinueMatching ==
    /\ ~paused
    /\ tickStage = "RUNNING_MATCHING"
    /\ ~taskDone
    /\ MatchStep
    /\ UNCHANGED <<queues, tickStage, tick, page, lastOrderId, pendingIds, governanceVars>>

-----------------------------------------------------------------------------
(* The moving of the pending orders.                                         *)

Pendings(q, t) == {side \in Sides : q[side][t] # <<>>}

\* movePendingLimitOrdersStepFunction and its market twin: the first order of the
\* buy queue or, when it is empty, of the sell queue.
MoveOne(s, t) ==
    IF Pendings(s.queues, t) = {}
    THEN s
    ELSE LET side == IF "buy" \in Pendings(s.queues, t) THEN "buy" ELSE "sell"
         IN  [books  |-> [s.books EXCEPT ![side][t] = Place(Descending(side), @, Head(s.queues[side][t]))],
              queues |-> [s.queues EXCEPT ![side][t] = Tail(@)]]

\* MUTANT of MoveStep: the page memory survives the tick.
MoveStepKeepsPage ==
    LET limit  == MoveOne([books |-> books, queues |-> queues], "LIMIT_ORDER")
        market == IF Pendings(limit.queues, "LIMIT_ORDER") # {} THEN limit ELSE MoveOne(limit, "MARKET_ORDER")
        goesOn == market.queues # Empty
    IN  /\ books' = market.books
        /\ queues' = market.queues
        /\ taskDone' = FALSE
        /\ tickStage' = IF goesOn THEN "MOVING_PENDING_ORDERS" ELSE "RECEIVING_ORDERS"
        /\ tick' = IF goesOn THEN tick ELSE tick + 1
        /\ filled' = IF goesOn THEN filled ELSE 0
        /\ UNCHANGED page

\* movePendingOrdersStepFunction, then onTickFinish when nothing is pending.
MoveStep ==
    LET limit  == MoveOne([books |-> books, queues |-> queues], "LIMIT_ORDER")
        market == IF Pendings(limit.queues, "LIMIT_ORDER") # {} THEN limit ELSE MoveOne(limit, "MARKET_ORDER")
        goesOn == market.queues # Empty
    IN  /\ books' = market.books
        /\ queues' = market.queues
        /\ taskDone' = FALSE
        /\ tickStage' = IF goesOn THEN "MOVING_PENDING_ORDERS" ELSE "RECEIVING_ORDERS"
        /\ tick' = IF goesOn THEN tick ELSE tick + 1
        /\ page' = IF goesOn THEN page ELSE EmptyPage
        /\ filled' = IF goesOn THEN filled ELSE 0

\* onMovePendingsStart and a step.
StartMoving ==
    /\ ~paused
    /\ tickStage = "RUNNING_MATCHING"
    /\ taskDone
    /\ MoveStep
    /\ UNCHANGED <<ledgerVars, lastOrderId, pendingIds, governanceVars>>

ContinueMoving ==
    /\ ~paused
    /\ tickStage = "MOVING_PENDING_ORDERS"
    /\ MoveStep
    /\ UNCHANGED <<ledgerVars, lastOrderId, pendingIds, governanceVars>>

-----------------------------------------------------------------------------
(* Governance.                                                               *)

\* Stoppable.pause, Stoppable.unpause
SetPaused ==
    /\ "pause" \in Governance
    /\ paused' = ~paused
    /\ UNCHANGED <<books, queues, tickVars, ledgerVars, lastOrderId, pendingIds, disabled>>

\* disableTokenPair, enableTokenPair: not while a tick is running.
SetDisabled ==
    /\ "disable" \in Governance
    /\ ~Running
    /\ disabled' = ~disabled
    /\ UNCHANGED <<books, queues, tickVars, ledgerVars, lastOrderId, pendingIds, paused>>

-----------------------------------------------------------------------------

PricesOf(t) == IF t = "LIMIT_ORDER" THEN Prices ELSE Factors

Insert ==
    \E side \in Sides, t \in OrderTypes, amount \in Amounts, lifespan \in Lifespans :
        \E price \in PricesOf(t) :
            \/ InsertOrder(side, t, amount, price, lifespan)
            \/ InsertOrderAsPending(side, t, amount, price, lifespan)

Leave ==
    \E side \in Sides, t \in OrderTypes :
        \/ \E order \in In(books[side][t]) : CancelOrder(side, t, order)
        \/ \E from, to \in DOMAIN books[side][t] : ProcessExpired(side, t, from, to)

\* A page of a tick that is running.
ContinueTick == ContinueSimulation \/ StartMatching \/ ContinueMatching \/ StartMoving \/ ContinueMoving

Next ==
    \/ Insert
    \/ Leave
    \/ \E token \in Sides : WithdrawCommissions(token)
    \/ \E marketPrice \in MarketPrices : StartTick(marketPrice)
    \/ ContinueTick
    \/ SetPaused
    \/ SetDisabled

Spec == Init /\ [][Next]_vars

-----------------------------------------------------------------------------
(* Properties.                                                               *)

OrderType ==
    [id : Ids, orderType : OrderTypes, amount : Nat, commission : Nat, price : Nat, expiresInTick : Nat]

\* Every variable has its type.
TypeOK ==
    /\ \A side \in Sides, t \in OrderTypes : In(books[side][t]) \union In(queues[side][t]) \subseteq OrderType
    /\ tickStage \in {"RECEIVING_ORDERS", "RUNNING_SIMULATION", "RUNNING_MATCHING", "MOVING_PENDING_ORDERS"}
    /\ {taskDone, paused, disabled} \subseteq BOOLEAN
    /\ {tick, filled, lastOrderId, pendingIds} \subseteq Nat
    /\ {balance, charged, stranded} \subseteq [Sides -> Nat]
    /\ page.last \in [Sides -> OrderType \union {NoOrder}]

\* The tokens an order holds, and those of all the orders of a side.
HeldBy(orders) == FoldSet(LAMBDA order, sum : sum + order.amount + order.commission, 0, orders)

Held(side) ==
    HeldBy(UNION {In(books[side][t]) \union In(queues[side][t]) : t \in OrderTypes})

\* The exchange owns, of each token, exactly what its orders hold, the commissions
\* it has charged and not paid out, and what it could not send: no match, refund,
\* rounding or failed transfer makes or loses a token.
Solvency ==
    \A side \in Sides : balance[side] = Held(side) + charged[side] + stranded[side]

\* The matching has a match to do.
MatchIsDue ==
    /\ page.matchesAmount > 0
    /\ \/ tickStage = "RUNNING_SIMULATION" /\ taskDone
       \/ tickStage = "RUNNING_MATCHING" /\ ~taskDone

\* A match the simulation announced can be done: no subtraction, assert or division
\* of executeMatch fails, whatever expired, was expired or was withdrawn between
\* two pages.  A match that reverts would leave the tick running for ever.
MatchNeverReverts == MatchIsDue => CanMatch

\* The emergent price, fixed before the first match, suits every order matched at
\* it: the buyer pays at most what they bid and the seller gets at least what they
\* asked, rounded down to a unit of base token.
EveryMatchIsFair ==
    MatchIsDue =>
        LET m == Match(BestBuy, PriceOf(page, BestBuy), BestSell, PriceOf(page, BestSell), page.emergentPrice)
        IN  /\ PriceOf(page, BestSell) <= page.emergentPrice
            /\ page.emergentPrice <= PriceOf(page, BestBuy)
            /\ m.buyerSent * PricePrecision <= m.limiting * PriceOf(page, BestBuy)
            /\ m.buyerSent >= convertToBase(m.limiting, PriceOf(page, BestSell))

\* The matching does what the simulation announced: when it ends it has filled
\* matchesAmount orders, and no two orders are left that should match.
MatchingIsComplete ==
    tickStage = "RUNNING_MATCHING" /\ taskDone =>
        /\ filled = page.matchesAmount
        /\ LET Best(side) == mostCompetitiveOrder(page.marketPrice, side, NextValid(books[side]["LIMIT_ORDER"], 0),
                                                  NextValid(books[side]["MARKET_ORDER"], 0))
           IN  ~ShouldMatch(page, Best("buy"), Best("sell"))

\* A page of the running tick does not revert: ENABLED ContinueTick, in the form
\* TLC evaluates fast.
CanContinue ==
    /\ ~paused
    /\ Running
    /\ tickStage = "RUNNING_SIMULATION" /\ ~taskDone => PriceOf(page, page.last["buy"]) # 0
    /\ MatchIsDue => CanMatch

\* A keeper keeps sending pages for a tick that is running.
KeeperSpec == Spec /\ WF_vars(ContinueTick)

\* The same with CanContinue for ENABLED ContinueTick.
FairSpec == Spec /\ ([]<>~CanContinue \/ []<><<ContinueTick>>_vars)

\* A tick that started is finished, as long as keepers send pages and unless the
\* contract is paused: the simulation and the matching come to an end, no page is
\* blocked by a match that cannot be done, and insertions, cancelations and
\* expirations between two pages do not keep the tick going.
TickFinishes == Running ~> (~Running \/ paused)
=============================================================================
