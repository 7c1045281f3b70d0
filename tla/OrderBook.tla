----------------------------- MODULE OrderBook -----------------------------
(***************************************************************************)
(* One orderbook of a pair, MoCExchangeLib.Data, and the functions of      *)
(* MoCExchangeLib that read and write it.                                  *)
(*                                                                         *)
(* A Data keeps every order of one side in a single mapping.  Four linked  *)
(* lists run through it by the field "next": for each order type the book  *)
(* (sorted) and the pending queue (first in, first out).  The library has  *)
(* every function twice, for limit and for market orders; here the type t  *)
(* is a parameter, "price" stands for the price of a limit order and for   *)
(* the multiplyFactor of a market order, and the amounts of an order,      *)
(* which no function of this module reads, are left out.                   *)
(*                                                                         *)
(* A function that may revert is a pair of operators: one says when it     *)
(* does not, the other what it returns.                                    *)
(***************************************************************************)
EXTENDS PriceTime

CONSTANTS
    MaxOrders,         \* bound of the order ids
    OrderDescending    \* Data.orderDescending: TRUE for the buy orders

ASSUME OrderBookAssumption ==
    /\ MaxOrders \in Nat
    /\ OrderDescending \in BOOLEAN

Ids == 1 .. MaxOrders

\* What reading the mapping at an id without an order returns.
NullOrder == [id |-> 0, orderType |-> "LIMIT_ORDER", price |-> 0, next |-> 0, expiresInTick |-> 0]

EmptyData ==
    [orders       |-> [id \in 0 .. MaxOrders |-> NullOrder],
     firstId      |-> [t \in OrderTypes |-> 0],    \* firstId, firstMarketOrderId
     lengthOf     |-> [t \in OrderTypes |-> 0],    \* limitOrderLength, marketOrderLength
     length       |-> 0,
     firstPending |-> [t \in OrderTypes |-> 0],    \* first...ToPopId
     lastPending  |-> [t \in OrderTypes |-> 0],    \* last...ToPopId
     pendings     |-> [t \in OrderTypes |-> 0]]    \* amountOfPending...Orders

\* MUTANT of isExpired: one tick late.
isExpiredLate(order, tick) == order.expiresInTick < tick

isExpired(order, tick) == order.expiresInTick <= tick

\* priceGoesBefore and multiplyFactorGoesBefore.
GoesBefore(price, existing) == IF OrderDescending THEN price > existing ELSE price < existing

\* The ids met when following "next" from an id; 0 for ever after the last one.
Follow(self, id) ==
    LET f[k \in 0 .. MaxOrders] == IF k = 0 THEN id ELSE self.orders[f[k - 1]].next
    IN  f

\* The first position of a walk where it stops.
FirstIn(S) == CHOOSE k \in S : \A j \in S : k <= j

-----------------------------------------------------------------------------
(* Where an order goes.                                                      *)

\* findPreviousOrderToPrice and findPreviousMarketOrderToMultiplyFactor: from the
\* first order to the last one the new order does not go before.
findPreviousOrderToPrice(self, t, price) ==
    LET walk     == Follow(self, self.firstId[t])
        Stops(k) == LET next == self.orders[walk[k]].next
                    IN  next = 0 \/ GoesBefore(price, self.orders[next].price)
    IN  IF self.lengthOf[t] = 0 \/ GoesBefore(price, self.orders[self.firstId[t]].price)
        THEN 0
        ELSE walk[FirstIn({k \in 0 .. MaxOrders : Stops(k)})]

\* MUTANT of validatePreviousOrder: does not look at the order after the hint.
validatePreviousOnly(self, t, price, previousId) ==
    LET previous == self.orders[previousId]
    IN  IF previousId = 0
        THEN self.lengthOf[t] # 0 => GoesBefore(price, self.orders[self.firstId[t]].price)
        ELSE previous.id # 0 /\ previous.orderType = t /\ ~GoesBefore(price, previous.price)

\* MUTANT of validatePreviousOrder: takes the word of whoever says it comes first.
validateAllButFirst(self, t, price, previousId) ==
    LET previous == self.orders[previousId]
        next     == self.orders[previous.next]
    IN  \/ previousId = 0
        \/ /\ previous.id # 0
           /\ previous.orderType = t
           /\ ~GoesBefore(price, previous.price)
           /\ next.id = 0 \/ GoesBefore(price, next.price)

\* validatePreviousOrder and validatePreviousMarketOrder do not revert.
validatePreviousOrder(self, t, price, previousId) ==
    LET previous == self.orders[previousId]
        next     == self.orders[previous.next]
    IN  IF previousId = 0
        THEN self.lengthOf[t] # 0 => GoesBefore(price, self.orders[self.firstId[t]].price)
        ELSE /\ previous.id # 0
             /\ previous.orderType = t
             /\ ~GoesBefore(price, previous.price)
             /\ next.id = 0 \/ GoesBefore(price, next.price)

-----------------------------------------------------------------------------
(* Lists that grow.                                                          *)

\* createOrder, createMarketOrder
createOrder(self, t, id, price, expiresInTick) ==
    [self EXCEPT !.orders[id] = [id |-> id, orderType |-> t, price |-> price, next |-> 0,
                                 expiresInTick |-> expiresInTick]]

\* positionOrder, positionMarketOrder
positionOrder(self, t, id, previousId) ==
    LET counted == [self EXCEPT !.length = @ + 1, !.lengthOf[t] = @ + 1]
    IN  IF previousId # 0
        THEN LET linked == [counted EXCEPT !.orders[id].next = self.orders[previousId].next]
             IN  [linked EXCEPT !.orders[previousId].next = id]
        ELSE [counted EXCEPT !.orders[id].next = self.firstId[t], !.firstId[t] = id]

\* positionOrderAsPending, positionMarketOrderAsPending and their require.
CanPositionAsPending(self, t) ==
    self.pendings[t] # 0 => self.orders[self.lastPending[t]].orderType = t

\* MUTANT of positionOrderAsPending: forgets the last order of a queue of one.
positionFirstAsPending(self, t, id) ==
    IF self.pendings[t] # 0
    THEN [self EXCEPT !.orders[self.lastPending[t]].next = id, !.lastPending[t] = id, !.pendings[t] = @ + 1]
    ELSE [self EXCEPT !.firstPending[t] = id, !.pendings[t] = @ + 1]

positionOrderAsPending(self, t, id) ==
    LET linked == IF self.pendings[t] # 0
                  THEN [self EXCEPT !.orders[self.lastPending[t]].next = id]
                  ELSE [self EXCEPT !.firstPending[t] = id]
    IN  [linked EXCEPT !.lastPending[t] = id, !.pendings[t] = @ + 1]

-----------------------------------------------------------------------------
(* Lists that shrink.                                                        *)

\* delete orders[id] and decreaseQueuesLength
DeleteOrder(self, id) ==
    LET t == self.orders[id].orderType
    IN  [self EXCEPT !.orders[id] = NullOrder, !.length = @ - 1, !.lengthOf[t] = @ - 1]

\* findPreviousOrder: the steps of its walk, from the hint or from the first
\* order, at which the next order is the one to remove.
FoundAt(self, id, startFromId) ==
    LET start == IF startFromId = 0 THEN self.firstId[self.orders[id].orderType] ELSE startFromId
        walk  == Follow(self, start)
    IN  {k \in 0 .. MaxOrders : self.orders[walk[k]].next = id}

findPreviousOrder(self, id, startFromId) ==
    LET start == IF startFromId = 0 THEN self.firstId[self.orders[id].orderType] ELSE startFromId
    IN  Follow(self, start)[FirstIn(FoundAt(self, id, startFromId))]

IsFirst(self, id) == self.firstId[self.orders[id].orderType] = id

\* removeOrder does not revert: the previous order is found, and the counter of
\* decreaseQueuesLength does not go below zero.
CanRemove(self, id, startFromId) ==
    /\ IsFirst(self, id) \/ FoundAt(self, id, startFromId) # {}
    /\ self.lengthOf[self.orders[id].orderType] # 0

\* MUTANT of removeOrder: treats every order as the last of the orderbook.
removeLastOrder(self, id, startFromId) ==
    LET unlinked == IF IsFirst(self, id)
                    THEN [self EXCEPT !.firstId[self.orders[id].orderType] = self.orders[id].next]
                    ELSE [self EXCEPT !.orders[findPreviousOrder(self, id, startFromId)].next = 0]
    IN  DeleteOrder(unlinked, id)

\* removeOrder
removeOrder(self, id, startFromId) ==
    LET next     == self.orders[id].next
        unlinked == IF IsFirst(self, id)
                    THEN [self EXCEPT !.firstId[self.orders[id].orderType] = next]
                    ELSE [self EXCEPT !.orders[findPreviousOrder(self, id, startFromId)].next = next]
    IN  DeleteOrder(unlinked, id)

\* The pop of the first order of a list, in popAndGetNewTop and onOrderFullMatched.
PopFirst(self, t) ==
    LET id == self.firstId[t]
    IN  DeleteOrder([self EXCEPT !.firstId[t] = self.orders[self.orders[id].next].id], id)

\* The pop of the pending queue in movePendingLimitOrderFrom and its market twin.
PopPending(self, t) ==
    [self EXCEPT !.firstPending[t] = self.orders[self.firstPending[t]].next, !.pendings[t] = @ - 1]

-----------------------------------------------------------------------------
(* Expiration.                                                               *)

\* MUTANT of ExpireIteration: does not look whether the order has expired.
ExpireAnyIteration(s, tick) ==
    LET order == s.self.orders[s.at]
    IN  IF s.at = 0 \/ order.id = 0 \/ s.reverted THEN s
        ELSE IF CanRemove(s.self, s.at, s.previous)
        THEN [s EXCEPT !.self = removeOrder(@, s.at, s.previous), !.at = order.next, !.processed = TRUE]
        ELSE [s EXCEPT !.reverted = TRUE]

\* One iteration of the loop of processExpired: "at" is the order to evaluate,
\* "previous" the hint for its removal.
ExpireIteration(s, tick) ==
    LET order == s.self.orders[s.at]
    IN  IF s.at = 0 \/ order.id = 0 \/ s.reverted
        THEN s
        ELSE IF ~isExpired(order, tick)
        THEN [s EXCEPT !.previous = s.at, !.at = order.next]
        ELSE IF CanRemove(s.self, s.at, s.previous)
        THEN [s EXCEPT !.self = removeOrder(@, s.at, s.previous), !.at = order.next, !.processed = TRUE]
        ELSE [s EXCEPT !.reverted = TRUE]

\* The whole loop of processExpired from order "start".
ExpireLoop(self, tick, start, previousHint, steps) ==
    LET loop[k \in 0 .. steps] ==
            IF k = 0
            THEN [self |-> self, at |-> start, previous |-> previousHint, processed |-> FALSE, reverted |-> FALSE]
            ELSE ExpireIteration(loop[k - 1], tick)
    IN  loop[steps]

\* MUTANT of areOrdersToExpire: looks only at the first orders.
isFirstToExpire(self, tick) ==
    \E t \in OrderTypes :
        LET order == self.orders[self.firstId[t]]
        IN  order.id # 0 /\ isExpired(order, tick)

\* areOrdersToExpire
areOrdersToExpire(self, tick) ==
    \E t \in OrderTypes : \E k \in 0 .. MaxOrders :
        LET order == self.orders[Follow(self, self.firstId[t])[k]]
        IN  order.id # 0 /\ isExpired(order, tick)
=============================================================================
