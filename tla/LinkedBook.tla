----------------------------- MODULE LinkedBook -----------------------------
(***************************************************************************)
(* The life of one orderbook: the transactions that insert, cancel and     *)
(* expire orders between and during ticks, the pops of the matching and    *)
(* the moves of the pending orders, each on the linked lists of OrderBook. *)
(*                                                                         *)
(* The simulation, which does not write the orderbook, is part of the      *)
(* stage RUNNING_MATCHING; what the pages of a tick do in which order is   *)
(* the subject of TickExecution.  A transaction that reverts changes       *)
(* nothing and is not an action.                                           *)
(***************************************************************************)
EXTENDS OrderBook

CONSTANTS
    Prices,        \* prices and multiply factors of the orders inserted
    Lifespans,     \* lifespans of the orders inserted
    MaxTick,       \* bound of the tick number
    MaxSteps,      \* bound of the "steps" argument of processExpired
    HintsInBook    \* TRUE: the hints given to matchOrdersWithHints name orders already in the book

ASSUME LinkedBookAssumption ==
    /\ Prices \subseteq Nat
    /\ Lifespans \subseteq Nat
    /\ MaxTick \in Nat
    /\ MaxSteps \in Nat
    /\ HintsInBook \in BOOLEAN

NO_HINT == MaxOrders + 1

VARIABLES
    data,          \* the orderbook, a Data
    tickStage,     \* Pair.tickStage
    tick,          \* Pair.tickState.number
    lastOrderId    \* OrderIdGenerator.lastOrderId

vars == <<data, tickStage, tick, lastOrderId>>

Init ==
    /\ data = EmptyData
    /\ tickStage = "RECEIVING_ORDERS"
    /\ tick = 1
    /\ lastOrderId = 0

\* OrderIdGenerator.getNextOrderId, and the bound of the ids.
NextOrderId ==
    /\ lastOrderId < MaxOrders
    /\ lastOrderId' = lastOrderId + 1

\* doInsertLimitOrder and doInsertMarketOrder between two ticks.
InsertOrder(t, price, lifespan, hint) ==
    /\ tickStage = "RECEIVING_ORDERS"
    /\ NextOrderId
    /\ LET previousId == IF hint = NO_HINT THEN findPreviousOrderToPrice(data, t, price) ELSE hint
           created    == createOrder(data, t, lastOrderId', price, tick + lifespan)
       IN  /\ validatePreviousOrder(data, t, price, previousId)
           /\ data' = positionOrder(created, t, lastOrderId', previousId)
    /\ UNCHANGED <<tickStage, tick>>

\* doInsertLimitOrder and doInsertMarketOrder during a tick: no hint is used.
InsertOrderAsPending(t, price, lifespan) ==
    /\ tickStage # "RECEIVING_ORDERS"
    /\ NextOrderId
    /\ CanPositionAsPending(data, t)
    /\ data' = LET created == createOrder(data, t, lastOrderId', price, tick + lifespan)
               IN  positionOrderAsPending(created, t, lastOrderId')
    /\ UNCHANGED <<tickStage, tick>>

\* doCancelOrder, by the owner of the order and when no tick is running.
CancelOrder(id, previousHint) ==
    /\ tickStage = "RECEIVING_ORDERS"
    /\ data.orders[id].id # 0
    /\ CanRemove(data, id, previousHint)
    /\ data' = removeOrder(data, id, previousHint)
    /\ UNCHANGED <<tickStage, tick, lastOrderId>>

\* processExpired: at any time, from any order.
ProcessExpired(t, orderId, previousHint, steps) ==
    LET start == IF orderId = 0 THEN data.firstId[t] ELSE orderId
        end   == ExpireLoop(data, tick, start, previousHint, steps)
    IN  /\ data.orders[start].id # 0 => data.orders[start].orderType = t
        /\ end.processed
        /\ ~end.reverted
        /\ data' = end.self
        /\ UNCHANGED <<tickStage, tick, lastOrderId>>

\* The hooks that start the simulation and the matching.
BeginMatching ==
    /\ tickStage = "RECEIVING_ORDERS"
    /\ tick < MaxTick
    /\ tickStage' = "RUNNING_MATCHING"
    /\ UNCHANGED <<data, tick, lastOrderId>>

\* onOrderFullMatched, and popAndGetNewTop for an expired order, whichever of the
\* two first orders is the most competitive one.
PopMostCompetitive(t) ==
    /\ tickStage = "RUNNING_MATCHING"
    /\ data.orders[data.firstId[t]].id # 0
    /\ data' = PopFirst(data, t)
    /\ UNCHANGED <<tickStage, tick, lastOrderId>>

\* onMovePendingsStart
BeginMoving ==
    /\ tickStage = "RUNNING_MATCHING"
    /\ tickStage' = "MOVING_PENDING_ORDERS"
    /\ UNCHANGED <<data, tick, lastOrderId>>

IsPending(id) ==
    \E t \in OrderTypes : \E k \in 0 .. data.pendings[t] :
        k < data.pendings[t] /\ Follow(data, data.firstPending[t])[k] = id

\* movePendingLimitOrderFrom and movePendingMarketOrderFrom, which both pages with
\* hints and pages without call.
MovePendingOrder(t, hint) ==
    LET id         == data.firstPending[t]
        price      == data.orders[id].price
        popped     == PopPending(data, t)
        previousId == IF hint = NO_HINT THEN findPreviousOrderToPrice(popped, t, price) ELSE hint
    IN  /\ tickStage = "MOVING_PENDING_ORDERS"
        /\ data.pendings[t] # 0
        /\ HintsInBook => hint = NO_HINT \/ ~IsPending(hint)
        /\ hint # NO_HINT => validatePreviousOrder(popped, t, price, hint)
        /\ data' = positionOrder(popped, t, id, previousId)
        /\ UNCHANGED <<tickStage, tick, lastOrderId>>

\* onTickFinish, when movePendingOrdersStepFunction found nothing pending.
FinishTick ==
    /\ tickStage = "MOVING_PENDING_ORDERS"
    /\ \A t \in OrderTypes : data.pendings[t] = 0
    /\ tickStage' = "RECEIVING_ORDERS"
    /\ tick' = tick + 1
    /\ UNCHANGED <<data, lastOrderId>>

Next ==
    \/ \E t \in OrderTypes, price \in Prices, lifespan \in Lifespans :
          \/ \E hint \in 0 .. NO_HINT : InsertOrder(t, price, lifespan, hint)
          \/ InsertOrderAsPending(t, price, lifespan)
    \/ \E id \in Ids, hint \in 0 .. MaxOrders : CancelOrder(id, hint)
    \/ \E t \in OrderTypes, id \in 0 .. MaxOrders, hint \in 0 .. MaxOrders, steps \in 1 .. MaxSteps :
          ProcessExpired(t, id, hint, steps)
    \/ BeginMatching
    \/ BeginMoving
    \/ \E t \in OrderTypes : PopMostCompetitive(t)
    \/ \E t \in OrderTypes, hint \in 0 .. NO_HINT : MovePendingOrder(t, hint)
    \/ FinishTick

Spec == Init /\ [][Next]_vars

-----------------------------------------------------------------------------
(* What the lists hold.                                                      *)

\* The ids of a list up to its end; the lists of the code have no other length
\* than the number of steps to the null order.
ListFrom(id) ==
    LET walk == Follow(data, id)
        ends == {k \in 0 .. MaxOrders : walk[k] = 0}
    IN  [n \in 1 .. (IF ends = {} THEN MaxOrders ELSE FirstIn(ends)) |-> walk[n - 1]]

\* The pending queue has the length the code counts: the last order of the queue
\* may still be followed by whatever its "next" held.
Book(t) == ListFrom(data.firstId[t])
Queue(t) == [n \in 1 .. data.pendings[t] |-> Follow(data, data.firstPending[t])[n - 1]]

\* Every variable has its type.
TypeOK ==
    /\ data \in
         [orders       : [0 .. MaxOrders -> [id : 0 .. MaxOrders, orderType : OrderTypes, price : {0} \union Prices,
                                             next : 0 .. MaxOrders, expiresInTick : Nat]],
          firstId      : [OrderTypes -> 0 .. MaxOrders],
          lengthOf     : [OrderTypes -> Nat],
          length       : Nat,
          firstPending : [OrderTypes -> 0 .. MaxOrders],
          lastPending  : [OrderTypes -> 0 .. MaxOrders],
          pendings     : [OrderTypes -> Nat]]
    /\ tickStage \in {"RECEIVING_ORDERS", "RUNNING_MATCHING", "MOVING_PENDING_ORDERS"}
    /\ tick \in Nat
    /\ lastOrderId \in 0 .. MaxOrders

\* No order is lost and none is found twice: the four lists of the mapping hold
\* its orders, each once and in a list of its own type.  An order out of every
\* list could be neither matched nor cancelled, and its funds would stay locked.
\* This and what follows holds if HintsInBook does: a hint that names a pending
\* order makes matchOrdersWithHints link an order outside of the book.
EveryOrderIsInOneList ==
    LET Lists    == {<<t, l>> : t \in OrderTypes, l \in {"book", "queue"}}
        List(l)  == IF l[2] = "book" THEN Book(l[1]) ELSE Queue(l[1])
        Stored   == {id \in Ids : data.orders[id].id # 0}
    IN  /\ UNION {In(List(l)) : l \in Lists} = Stored
        /\ \A l \in Lists :
              /\ \A m, n \in DOMAIN List(l) : m # n => List(l)[m] # List(l)[n]
              /\ \A id \in In(List(l)) : data.orders[id].orderType = l[1]
              /\ \A k \in Lists : k # l => In(List(k)) \intersect In(List(l)) = {}

\* The counters of the Data are the lengths of its lists, and the pointer to the
\* last pending order, when it is used, points to it.
CountersMatchLists ==
    /\ \A t \in OrderTypes :
          /\ data.lengthOf[t] = Len(Book(t))
          /\ data.pendings[t] # 0 => data.lastPending[t] = Queue(t)[data.pendings[t]]
    /\ data.length = data.lengthOf["LIMIT_ORDER"] + data.lengthOf["MARKET_ORDER"]

\* Every book is sorted by price and, at the same price, by age: the orders that
\* waited in the pending queue keep the turn they had when they were inserted, and
\* no hint that names an order of the book, or none, lets an order overtake another.
PriceTimePriority ==
    \A t \in OrderTypes : \A m, n \in DOMAIN Book(t) :
        m < n => LET o == data.orders[Book(t)[m]]
                     p == data.orders[Book(t)[n]]
                 IN  GoesBefore(o.price, p.price) \/ (o.price = p.price /\ o.id < p.id)

\* A hint that names no pending order saves the search and changes nothing else: an
\* order that is inserted or moved with it lands where it would have landed without
\* one ("Checks that the order should be in the place where it is trying to be
\* inserted, reverts otherwise", validatePreviousOrder).
LandsByItself(self, t, id) ==
    positionOrder(self, t, id, findPreviousOrderToPrice(self, t, self.orders[id].price))

HintsOnlySaveWork ==
    [][\A t \in OrderTypes :
          /\ tickStage = "RECEIVING_ORDERS" /\ data'.lengthOf[t] > data.lengthOf[t] =>
                LET new == data'.orders[lastOrderId']
                IN  data' = LandsByItself(createOrder(data, t, new.id, new.price, new.expiresInTick), t, new.id)
          /\ tickStage = "MOVING_PENDING_ORDERS" /\ data'.lengthOf[t] > data.lengthOf[t] =>
                data' = LandsByItself(PopPending(data, t), t, data.firstPending[t])]_vars

\* areOrdersToExpire, which keepers poll, is TRUE exactly when a call to
\* processExpired that starts from the top of a book can succeed.
ExpiryIsReported ==
    areOrdersToExpire(data, tick) <=>
        \E t \in OrderTypes :
            LET end == ExpireLoop(data, tick, data.firstId[t], 0, MaxOrders)
            IN  end.processed /\ ~end.reverted

\* Seen from outside, the linked lists are a PriorityBook.
Content(s) ==
    [n \in DOMAIN s |-> [id |-> s[n], price |-> data.orders[s[n]].price,
                         expiresInTick |-> data.orders[s[n]].expiresInTick]]

Abstract == INSTANCE PriorityBook WITH
    book <- [t \in OrderTypes |-> Content(Book(t))],
    queue <- [t \in OrderTypes |-> Content(Queue(t))],
    stage <- tickStage

ImplementsPriorityBook == Abstract!Spec
=============================================================================
