---------------------------- MODULE PriorityBook ----------------------------
(***************************************************************************)
(* What an orderbook promises to the owners of its orders: the book of     *)
(* each order type is served in price order and, at the same price, in the *)
(* order of arrival; the orders that come during a tick wait in a queue    *)
(* and enter the book, in the order they came, when the tick ends; an      *)
(* order leaves only from the front while orders are matched, when its     *)
(* owner cancels it, or when it has expired.                               *)
(*                                                                         *)
(* LinkedBook, the linked lists of the code, implements this.              *)
(***************************************************************************)
EXTENDS PriceTime

CONSTANTS
    Ids,               \* ids of the orders
    Prices,            \* prices, or multiply factors, of the orders
    Lifespans,         \* lifespans of the orders, in ticks
    OrderDescending    \* TRUE for the buy orders

VARIABLES
    book,    \* the sorted book of each type: a sequence of orders
    queue,   \* the pending queue of each type: a sequence of orders
    stage,   \* stage of the tick
    tick     \* number of the tick

vars == <<book, queue, stage, tick>>

UsedIds == {o.id : o \in UNION {In(book[t]) \union In(queue[t]) : t \in OrderTypes}}

\* The orders that may come now.
NewOrders == [id : Ids \ UsedIds, price : Prices, expiresInTick : {tick + lifespan : lifespan \in Lifespans}]

Init ==
    /\ book = [t \in OrderTypes |-> <<>>]
    /\ queue = [t \in OrderTypes |-> <<>>]
    /\ stage = "RECEIVING_ORDERS"
    /\ tick = 1

\* Between two ticks a new order takes its place in the book at once.
Insert(t) ==
    /\ stage = "RECEIVING_ORDERS"
    /\ UNCHANGED <<queue, stage, tick>>
    /\ \E o \in NewOrders : book' = [book EXCEPT ![t] = Place(OrderDescending, @, o)]

\* During a tick it waits.
Wait(t) ==
    /\ stage # "RECEIVING_ORDERS"
    /\ UNCHANGED <<book, stage, tick>>
    /\ \E o \in NewOrders : queue' = [queue EXCEPT ![t] = Append(@, o)]

Cancel(t) ==
    /\ stage = "RECEIVING_ORDERS"
    /\ UNCHANGED <<queue, stage, tick>>
    /\ \E o \in In(book[t]) : book' = [book EXCEPT ![t] = Without(@, {o})]

\* Some of the expired orders go, and none that could still be matched.
Expire(t) ==
    /\ UNCHANGED <<queue, stage, tick>>
    /\ \E S \in (SUBSET {o \in In(book[t]) : o.expiresInTick <= tick}) \ {{}} :
          book' = [book EXCEPT ![t] = Without(@, S)]

\* The front of the book is matched, or found expired, by the matching.
Serve(t) ==
    /\ stage = "RUNNING_MATCHING"
    /\ UNCHANGED <<queue, stage, tick>>
    /\ book[t] # <<>>
    /\ book' = [book EXCEPT ![t] = Tail(@)]

\* The front of the queue enters the book.
Move(t) ==
    /\ stage = "MOVING_PENDING_ORDERS"
    /\ UNCHANGED <<stage, tick>>
    /\ queue[t] # <<>>
    /\ book' = [book EXCEPT ![t] = Place(OrderDescending, @, Head(queue[t]))]
    /\ queue' = [queue EXCEPT ![t] = Tail(@)]

BeginMatching ==
    /\ stage = "RECEIVING_ORDERS"
    /\ stage' = "RUNNING_MATCHING"
    /\ UNCHANGED <<book, queue, tick>>

BeginMoving ==
    /\ stage = "RUNNING_MATCHING"
    /\ stage' = "MOVING_PENDING_ORDERS"
    /\ UNCHANGED <<book, queue, tick>>

\* The tick ends when nobody waits.
Finish ==
    /\ stage = "MOVING_PENDING_ORDERS"
    /\ queue = [t \in OrderTypes |-> <<>>]
    /\ stage' = "RECEIVING_ORDERS"
    /\ tick' = tick + 1
    /\ UNCHANGED <<book, queue>>

Next ==
    \/ BeginMatching \/ BeginMoving \/ Finish
    \/ \E t \in OrderTypes : Insert(t) \/ Wait(t) \/ Cancel(t) \/ Expire(t) \/ Serve(t) \/ Move(t)

Spec == Init /\ [][Next]_vars
=============================================================================
