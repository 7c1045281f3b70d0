------------------------------ MODULE Lifespan ------------------------------
(***************************************************************************)
(* How many ticks an order is available to be matched, against the         *)
(* lifespan its owner asked for: LinkedBook with the history of each order *)
(* that is stored.                                                         *)
(***************************************************************************)
EXTENDS LinkedBook

VARIABLES
    lifespanOf,    \* history: the lifespan of each stored order, 0 for the others
    chances,       \* history: the ticks each stored order was matchable in
    waited         \* history: the stored orders that were inserted during a tick

history == <<lifespanOf, chances, waited>>

Stored(d) == {id \in Ids : d.orders[id].id # 0}

\* The orders that the simulation of this tick takes into account.
Matchable ==
    {id \in UNION {In(Book(t)) : t \in OrderTypes} : ~isExpired(data.orders[id], tick)}

LifespanInit ==
    /\ Init
    /\ lifespanOf = [id \in Ids |-> 0]
    /\ chances = [id \in Ids |-> 0]
    /\ waited = {}

Remember ==
    LET new     == Stored(data') \ Stored(data)
        started == IF tickStage = "RECEIVING_ORDERS" /\ tickStage' # tickStage THEN Matchable ELSE {}
    IN  /\ lifespanOf' = [id \in Ids |-> IF id \notin Stored(data') THEN 0
                                         ELSE IF id \in new THEN data'.orders[id].expiresInTick - tick
                                         ELSE lifespanOf[id]]
        /\ chances' = [id \in Ids |-> IF id \notin Stored(data') THEN 0
                                      ELSE IF id \in started THEN chances[id] + 1
                                      ELSE chances[id]]
        /\ waited' = (waited \intersect Stored(data'))
                         \union (IF tickStage = "RECEIVING_ORDERS" THEN {} ELSE new)

LifespanNext == Next /\ Remember

LifespanSpec == LifespanInit /\ [][LifespanNext]_<<vars, history>>

-----------------------------------------------------------------------------

HadItsLifespan(id) == isExpired(data.orders[id], tick) => chances[id] = lifespanOf[id]

\* "The lifespan of an order is the amount of ticks the order will live, after that
\* amount of ticks the order will be expired and no longer be matched": an order
\* that is found expired was available in as many ticks as its lifespan says.
EveryOrderHasItsLifespan == \A id \in Stored(data) : HadItsLifespan(id)

\* It is so for the orders inserted between two ticks; those inserted during a tick
\* wait in the pending queue for one of the ticks of their lifespan.
BookedOrdersHaveTheirLifespan ==
    \A id \in Stored(data) :
        IF id \notin waited
        THEN HadItsLifespan(id)
        ELSE isExpired(data.orders[id], tick) => chances[id] = lifespanOf[id] - 1
=============================================================================
