----------------------------- MODULE TickCycle -----------------------------
(***************************************************************************)
(* What the paginated execution of a tick promises to everybody who only   *)
(* sees the exchange between two transactions: the tick of a pair goes     *)
(* through its four stages in order, a page (one matchOrders transaction)  *)
(* moves it forward and never back, the number of the tick grows by one    *)
(* exactly when a page completes it, a page that completes a tick does not *)
(* start the following one, and the orders that wait in the pending queues *)
(* are moved only at the end of the tick, all of them.                     *)
(*                                                                         *)
(* TickExecution implements this specification.                            *)
(***************************************************************************)
EXTENDS Naturals

\* The stages of a tick, MoCExchangeLib.TickStage.
TickStages == {"RECEIVING_ORDERS", "RUNNING_SIMULATION", "RUNNING_MATCHING", "MOVING_PENDING_ORDERS"}

VARIABLES
    stage,    \* stage of the tick, as seen between two transactions
    number,   \* number of the current tick
    waiting   \* how many orders wait in the pending queues

vars == <<stage, number, waiting>>

\* The stages a page that starts in stage s may leave the same tick in.
Onward(s) ==
    CASE s = "RECEIVING_ORDERS"      -> TickStages \ {"RECEIVING_ORDERS"}
      [] s = "RUNNING_SIMULATION"    -> TickStages \ {"RECEIVING_ORDERS"}
      [] s = "RUNNING_MATCHING"      -> {"RUNNING_MATCHING", "MOVING_PENDING_ORDERS"}
      [] s = "MOVING_PENDING_ORDERS" -> {"MOVING_PENDING_ORDERS"}

Init ==
    /\ stage = "RECEIVING_ORDERS"
    /\ number = 1
    /\ waiting = 0

\* An insertion waits in a queue exactly while a tick is running.
Insert ==
    /\ stage # "RECEIVING_ORDERS"
    /\ waiting' = waiting + 1
    /\ UNCHANGED <<stage, number>>

\* A page that leaves the tick unfinished.
Advance ==
    /\ stage' \in Onward(stage)
    /\ waiting' \in Nat
    /\ waiting' <= waiting
    /\ stage' # "MOVING_PENDING_ORDERS" => waiting' = waiting
    /\ UNCHANGED number

\* A page that completes the tick.
Complete ==
    /\ stage' = "RECEIVING_ORDERS"
    /\ number' = number + 1
    /\ waiting' = 0

Next == Insert \/ Advance \/ Complete

Spec == Init /\ [][Next]_vars
=============================================================================
