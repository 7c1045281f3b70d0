--------------------------- MODULE TickExecution ---------------------------
(***************************************************************************)
(* The paginated execution of the tick of one pair.                        *)
(*                                                                         *)
(* matchOrders(base, secondary, steps) is one transaction that runs        *)
(* PartialExecutionLibrary.executeGroup: three tasks in order (simulation, *)
(* matching, moving of the pending orders), at most "steps" step-function  *)
(* calls in all, hooks when the group and each task start and finish.  The *)
(* transaction is modelled loop iteration by loop iteration; a revert at   *)
(* any point undoes all of it.  Other transactions (here: the insertion of *)
(* orders) run only between two pages, as transactions do.                 *)
(*                                                                         *)
(* What a simulation or matching step does to the orderbooks is left out:  *)
(* here it only says whether there is more to do, and says no after at     *)
(* most MaxWork steps, because every step fills at least one order.        *)
(***************************************************************************)
EXTENDS Naturals

CONSTANTS
    MaxSteps,    \* largest page: the bound of the "steps" argument of matchOrders
    MaxWork,     \* largest number of steps a simulation or a matching needs
    MaxOrders,   \* bound of the orders ever inserted
    MaxTicks     \* bound of the ticks ever started

ASSUME BoundsAssumption ==
    /\ MaxSteps \in Nat \ {0}
    /\ MaxWork \in Nat
    /\ MaxOrders \in Nat
    /\ MaxTicks \in Nat

Sides == {"buy", "sell"}

TickStages == {"RECEIVING_ORDERS", "RUNNING_SIMULATION", "RUNNING_MATCHING", "MOVING_PENDING_ORDERS"}

\* TaskTypes: the index of each task in the list given to createTaskGroup.
SIMULATION == 1
MATCHING == 2
MOVING_OUT_PENDINGS == 3
Tasks == SIMULATION .. MOVING_OUT_PENDINGS

\* A task is never observed between two states; a group that finishes is
\* restarted in the same call (autoRestart is TRUE), so it is never seen Finished.
TaskStates == {"Ready", "Running", "Finished"}
GroupStates == {"Ready", "Running"}

VARIABLES
    \* storage: it survives the transaction
    group,           \* TaskGroup.state
    task,            \* Task.state of each task
    currentStep,     \* Task.currentStep of each task
    tickStage,       \* Pair.tickStage
    number,          \* Pair.tickState.number
    pendingLimit,    \* amountOfPendingOrders of the two orderbooks
    pendingMarket,   \* amountOfPendingMarketOrders of the two orderbooks
    lastOrderId,     \* OrderIdGenerator.lastOrderId
    \* the running transaction
    pc,              \* "Idle" between transactions, "Loop" in executeGroup, "Step" in executeTask
    i,               \* executeGroup's index in group.subTasks, from 1
    leftSteps,       \* executeGroup's leftSteps
    consumed,        \* steps run by the current call of executeTask
    saved            \* storage at the start of the transaction, restored by a revert

storage == <<group, task, currentStep, tickStage, number, pendingLimit, pendingMarket>>
transaction == <<pc, i, leftSteps, consumed, saved>>
vars == <<storage, lastOrderId, transaction>>

NoOrders == [s \in Sides |-> 0]

\* The storage of a pair that was just added.
Fresh == [group |-> "Ready", task |-> [t \in Tasks |-> "Ready"], currentStep |-> [t \in Tasks |-> 0],
          tickStage |-> "RECEIVING_ORDERS", number |-> 1, pendingLimit |-> NoOrders, pendingMarket |-> NoOrders]

\* The transaction is over; what it saved is of no use any more.
EndTransaction ==
    /\ pc' = "Idle"
    /\ i' = SIMULATION
    /\ leftSteps' = 0
    /\ consumed' = 0
    /\ saved' = Fresh

Snapshot == [group |-> group, task |-> task, currentStep |-> currentStep, tickStage |-> tickStage,
             number |-> number, pendingLimit |-> pendingLimit, pendingMarket |-> pendingMarket]

Init ==
    /\ group = "Ready"
    /\ task = [t \in Tasks |-> "Ready"]
    /\ currentStep = [t \in Tasks |-> 0]
    /\ tickStage = "RECEIVING_ORDERS"
    /\ number = 1
    /\ pendingLimit = NoOrders
    /\ pendingMarket = NoOrders
    /\ lastOrderId = 0
    /\ pc = "Idle"
    /\ i = SIMULATION
    /\ leftSteps = 0
    /\ consumed = 0
    /\ saved = Fresh

-----------------------------------------------------------------------------
(* Insertions.  goesToPendingQueue is the stage of the tick; an order that   *)
(* goes to the orderbook changes none of the variables above but the id.     *)

\* MUTANT of InsertLimitOrder: every order goes to the pending queue.
InsertLimitOrderToQueue(s) ==
    /\ pc = "Idle"
    /\ lastOrderId < MaxOrders
    /\ lastOrderId' = lastOrderId + 1
    /\ pendingLimit' = [pendingLimit EXCEPT ![s] = @ + 1]
    /\ UNCHANGED <<group, task, currentStep, tickStage, number, pendingMarket, transaction>>

\* doInsertLimitOrder of side s.
InsertLimitOrder(s) ==
    /\ pc = "Idle"
    /\ lastOrderId < MaxOrders
    /\ lastOrderId' = lastOrderId + 1
    /\ pendingLimit' = IF tickStage # "RECEIVING_ORDERS"
                       THEN [pendingLimit EXCEPT ![s] = @ + 1]
                       ELSE pendingLimit
    /\ UNCHANGED <<group, task, currentStep, tickStage, number, pendingMarket, transaction>>

\* doInsertMarketOrder of side s.
InsertMarketOrder(s) ==
    /\ pc = "Idle"
    /\ lastOrderId < MaxOrders
    /\ lastOrderId' = lastOrderId + 1
    /\ pendingMarket' = IF tickStage # "RECEIVING_ORDERS"
                        THEN [pendingMarket EXCEPT ![s] = @ + 1]
                        ELSE pendingMarket
    /\ UNCHANGED <<group, task, currentStep, tickStage, number, pendingLimit, transaction>>

-----------------------------------------------------------------------------
(* executeGroup.                                                             *)

BeginPage(steps) ==
    /\ saved' = Snapshot
    /\ pc' = "Loop"
    /\ i' = SIMULATION
    /\ leftSteps' = steps
    /\ consumed' = 0
    /\ UNCHANGED <<task, currentStep, tickStage, number, pendingLimit, pendingMarket, lastOrderId>>

\* A page on a group that is ready: the onTickStart hook, then the loop.
StartTick(steps) ==
    /\ pc = "Idle"
    /\ group = "Ready"
    /\ number <= MaxTicks
    /\ tickStage = "RECEIVING_ORDERS"    \* assert of onTickStart
    /\ group' = "Running"
    /\ BeginPage(steps)

\* A page on a group that is already running.
ContinueTick(steps) ==
    /\ pc = "Idle"
    /\ group = "Running"
    /\ BeginPage(steps)
    /\ UNCHANGED group

\* executeTask on a finished task consumes nothing.
SkipTask ==
    /\ pc = "Loop"
    /\ leftSteps > 0
    /\ i \in Tasks
    /\ task[i] = "Finished"
    /\ i' = i + 1
    /\ UNCHANGED <<storage, lastOrderId, pc, leftSteps, consumed, saved>>

\* executeTask on a ready task runs its start hook: onSimulationStart,
\* onMatchOrdersStart or onMovePendingsStart, each asserting the stage it expects.
StageBefore(t) == CASE t = SIMULATION          -> "RECEIVING_ORDERS"
                    [] t = MATCHING            -> "RUNNING_SIMULATION"
                    [] t = MOVING_OUT_PENDINGS -> "RUNNING_MATCHING"

StageOf(t) == CASE t = SIMULATION          -> "RUNNING_SIMULATION"
                [] t = MATCHING            -> "RUNNING_MATCHING"
                [] t = MOVING_OUT_PENDINGS -> "MOVING_PENDING_ORDERS"

StartTask ==
    /\ pc = "Loop"
    /\ leftSteps > 0
    /\ i \in Tasks
    /\ task[i] = "Ready"
    /\ tickStage = StageBefore(i)
    /\ tickStage' = StageOf(i)
    /\ task' = [task EXCEPT ![i] = "Running"]
    /\ pc' = "Step"
    /\ consumed' = 0
    /\ UNCHANGED <<group, currentStep, number, pendingLimit, pendingMarket, lastOrderId, i, leftSteps, saved>>

\* executeTask on a task an earlier page left running.
ResumeTask ==
    /\ pc = "Loop"
    /\ leftSteps > 0
    /\ i \in Tasks
    /\ task[i] = "Running"
    /\ pc' = "Step"
    /\ consumed' = 0
    /\ UNCHANGED <<storage, lastOrderId, i, leftSteps, saved>>

\* executeTask returns to the loop of executeGroup having run n steps.
ReturnFromTask(n) ==
    /\ currentStep' = [currentStep EXCEPT ![i] = @ + n]
    /\ leftSteps' = leftSteps - n
    /\ consumed' = 0
    /\ i' = i + 1
    /\ pc' = "Loop"

\* What executeTask does with the answer of a step function.
AfterStep(keepGoing) ==
    IF keepGoing
    THEN /\ consumed' = consumed + 1
         /\ UNCHANGED <<task, currentStep, leftSteps, i, pc>>
    ELSE /\ task' = [task EXCEPT ![i] = "Finished"]
         /\ ReturnFromTask(consumed + 1)

\* One simulateMatchingStep.  Its stage is asserted before it and, by
\* onSimulationFinish, after the last one.
SimulationStep ==
    /\ pc = "Step"
    /\ i = SIMULATION
    /\ consumed < leftSteps
    /\ tickStage = "RUNNING_SIMULATION"
    /\ \E keepGoing \in BOOLEAN :
          /\ keepGoing => currentStep[i] + consumed < MaxWork
          /\ AfterStep(keepGoing)
    /\ UNCHANGED <<group, tickStage, number, pendingLimit, pendingMarket, lastOrderId, saved>>

\* One matchOrders step of the matching task.
MatchStep ==
    /\ pc = "Step"
    /\ i = MATCHING
    /\ consumed < leftSteps
    /\ \E keepGoing \in BOOLEAN :
          /\ keepGoing => currentStep[i] + consumed < MaxWork
          /\ AfterStep(keepGoing)
    /\ UNCHANGED <<group, tickStage, number, pendingLimit, pendingMarket, lastOrderId, saved>>

\* movePendingLimitOrdersStepFunction and its market twin: one order of the buy
\* queue or, when that queue is empty, one of the sell queue.
MoveOne(queue) ==
    IF queue["buy"] # 0 THEN [queue EXCEPT !["buy"] = @ - 1]
    ELSE IF queue["sell"] # 0 THEN [queue EXCEPT !["sell"] = @ - 1]
    ELSE queue

SomePending(queue) == queue["buy"] # 0 \/ queue["sell"] # 0

\* One movePendingOrdersStepFunction: a limit order and, when no limit order is
\* left, a market order too.
MoveStep ==
    /\ pc = "Step"
    /\ i = MOVING_OUT_PENDINGS
    /\ consumed < leftSteps
    /\ tickStage = "MOVING_PENDING_ORDERS"
    /\ LET limit  == MoveOne(pendingLimit)
           market == IF SomePending(limit) THEN pendingMarket ELSE MoveOne(pendingMarket)
       IN  /\ pendingLimit' = limit
           /\ pendingMarket' = market
           /\ AfterStep(SomePending(limit) \/ SomePending(market))
    /\ UNCHANGED <<group, tickStage, number, lastOrderId, saved>>

\* MUTANT of PauseTask: stops one step early.
PauseTaskEarly ==
    /\ pc = "Step"
    /\ consumed + 1 = leftSteps
    /\ ReturnFromTask(consumed)
    /\ UNCHANGED <<group, task, tickStage, number, pendingLimit, pendingMarket, lastOrderId, saved>>

\* MUTANT of PauseTask: executeTask sets its task to Finished without asking keepGoing.
PauseTaskFinished ==
    /\ pc = "Step"
    /\ consumed = leftSteps
    /\ task' = [task EXCEPT ![i] = "Finished"]
    /\ ReturnFromTask(consumed)
    /\ UNCHANGED <<group, tickStage, number, pendingLimit, pendingMarket, lastOrderId, saved>>

\* executeTask runs out of steps and leaves its task running.
PauseTask ==
    /\ pc = "Step"
    /\ consumed = leftSteps
    /\ ReturnFromTask(consumed)
    /\ UNCHANGED <<group, task, tickStage, number, pendingLimit, pendingMarket, lastOrderId, saved>>

\* MUTANT of LoopEnds: does not look whether there is another task.
LoopEndsWithSteps == pc = "Loop" /\ leftSteps = 0

\* The condition of the loop of executeGroup fails.
LoopEnds == pc = "Loop" /\ (leftSteps = 0 \/ i \notin Tasks)

\* The end of executeGroup when the last task is not finished.
EndPage ==
    /\ LoopEnds
    /\ task[MOVING_OUT_PENDINGS] # "Finished"
    /\ EndTransaction
    /\ UNCHANGED <<storage, lastOrderId>>

\* MUTANT of FinishTick: onTickFinish leaves the stage of the tick as it is.
FinishTickInStage ==
    /\ LoopEnds
    /\ task[MOVING_OUT_PENDINGS] = "Finished"
    /\ number' = number + 1
    /\ group' = "Ready"
    /\ task' = [t \in Tasks |-> "Ready"]
    /\ currentStep' = [t \in Tasks |-> 0]
    /\ EndTransaction
    /\ UNCHANGED <<tickStage, pendingLimit, pendingMarket, lastOrderId>>

\* The end of executeGroup when the last task is finished: onTickFinish, then
\* resetGroup because the group restarts by itself.
FinishTick ==
    /\ LoopEnds
    /\ task[MOVING_OUT_PENDINGS] = "Finished"
    /\ tickStage = "MOVING_PENDING_ORDERS"    \* assert of onTickFinish
    /\ tickStage' = "RECEIVING_ORDERS"
    /\ number' = number + 1
    /\ group' = "Ready"
    /\ task' = [t \in Tasks |-> "Ready"]
    /\ currentStep' = [t \in Tasks |-> 0]
    /\ EndTransaction
    /\ UNCHANGED <<pendingLimit, pendingMarket, lastOrderId>>

\* Any require of a hook or a step (the price is not available, a hint is
\* wrong), or the end of the gas, undoes the transaction.
Revert ==
    /\ pc # "Idle"
    /\ group' = saved.group
    /\ task' = saved.task
    /\ currentStep' = saved.currentStep
    /\ tickStage' = saved.tickStage
    /\ number' = saved.number
    /\ pendingLimit' = saved.pendingLimit
    /\ pendingMarket' = saved.pendingMarket
    /\ EndTransaction
    /\ UNCHANGED lastOrderId

-----------------------------------------------------------------------------

Insert == \E s \in Sides : InsertLimitOrder(s) \/ InsertMarketOrder(s)

Page == \E steps \in 1 .. MaxSteps : StartTick(steps) \/ ContinueTick(steps)

\* The steps of a transaction that is not reverted.
Execute ==
    \/ SkipTask
    \/ StartTask
    \/ ResumeTask
    \/ SimulationStep
    \/ MatchStep
    \/ MoveStep
    \/ PauseTask
    \/ EndPage
    \/ FinishTick

Next == Insert \/ Page \/ Execute \/ Revert

Spec == Init /\ [][Next]_vars

\* A transaction always ends, and the keeper keeps sending pages while a tick is
\* running.
FairSpec ==
    /\ Spec
    /\ WF_vars(Execute)
    /\ WF_vars(\E steps \in 1 .. MaxSteps : ContinueTick(steps))

-----------------------------------------------------------------------------
(* Properties.                                                               *)

StorageType ==
    [group : GroupStates,
     task : [Tasks -> TaskStates],
     currentStep : [Tasks -> Nat],
     tickStage : TickStages,
     number : Nat,
     pendingLimit : [Sides -> Nat],
     pendingMarket : [Sides -> Nat]]

\* Every variable has its type.
TypeOK ==
    /\ Snapshot \in StorageType
    /\ saved \in StorageType
    /\ lastOrderId \in Nat
    /\ pc \in {"Idle", "Loop", "Step"}
    /\ i \in 1 .. 4
    /\ leftSteps \in Nat
    /\ consumed \in Nat

\* The asserts on the stage of the tick hold wherever the code evaluates them:
\* in onTickStart, in the start hook of each task, in the step functions of the
\* simulation and of the moving, in onSimulationFinish and in onTickFinish.  A
\* failing one would block the pair for good, since every page would revert.
AssertionsHold ==
    /\ pc = "Idle" /\ group = "Ready" => tickStage = "RECEIVING_ORDERS"
    /\ pc = "Loop" /\ leftSteps > 0 /\ i \in Tasks /\ task[i] = "Ready" => tickStage = StageBefore(i)
    /\ pc = "Step" /\ i = SIMULATION => tickStage = "RUNNING_SIMULATION"
    /\ pc = "Step" /\ i = MOVING_OUT_PENDINGS => tickStage = "MOVING_PENDING_ORDERS"
    /\ LoopEnds /\ task[MOVING_OUT_PENDINGS] = "Finished" => tickStage = "MOVING_PENDING_ORDERS"

\* While a pair receives orders its four pending queues are empty, wherever the
\* pages of the last tick were cut: an order is never inserted in an orderbook,
\* cancelled or matched while another one still waits in a queue.
NoPendingsWhileReceiving ==
    tickStage = "RECEIVING_ORDERS" => pendingLimit = NoOrders /\ pendingMarket = NoOrders

\* A page gives back no steps unless it completes the tick: a keeper who pays
\* for steps gets them, whatever tasks they fall in.
PageUsesItsSteps ==
    pc = "Loop" /\ i \notin Tasks /\ leftSteps > 0 => task[MOVING_OUT_PENDINGS] = "Finished"

\* Between two transactions the stage of the tick says which task is the last
\* one that was started, and no task is left to start before it.
StageFollowsTasks ==
    pc = "Idle" =>
        /\ group = "Ready" <=> tickStage = "RECEIVING_ORDERS"
        /\ \A t \in Tasks : tickStage = StageOf(t) =>
              /\ task[t] # "Ready"
              /\ \A u \in Tasks : /\ u < t => task[u] = "Finished"
                                  /\ u > t => task[u] = "Ready"

\* Seen between two transactions, the execution of a tick is a TickCycle.
Waiting(limit, market) == limit["buy"] + limit["sell"] + market["buy"] + market["sell"]

Cycle == INSTANCE TickCycle WITH
    stage <- IF pc = "Idle" THEN tickStage ELSE saved.tickStage,
    number <- IF pc = "Idle" THEN number ELSE saved.number,
    waiting <- IF pc = "Idle" THEN Waiting(pendingLimit, pendingMarket)
                              ELSE Waiting(saved.pendingLimit, saved.pendingMarket)

ImplementsTickCycle == Cycle!Spec

\* A tick that was started is completed, however small the pages of the keeper
\* are and whatever reverts left behind, once pages stop reverting and the orders
\* inserted meanwhile are finitely many.
TickFinishes == <>[][~Revert]_vars => (group = "Running" ~> group = "Ready")

\* The strengthening of the safety properties above that every step preserves.
ConsistentStorage(s) ==
    \/ /\ s.group = "Ready"
       /\ s.tickStage = "RECEIVING_ORDERS"
       /\ \A t \in Tasks : s.task[t] = "Ready"
       /\ s.pendingLimit = NoOrders
       /\ s.pendingMarket = NoOrders
    \/ /\ s.group = "Running"
       /\ s.tickStage = "RUNNING_SIMULATION"
       /\ s.task[1] # "Ready" /\ s.task[2] = "Ready" /\ s.task[3] = "Ready"
    \/ /\ s.group = "Running"
       /\ s.tickStage = "RUNNING_MATCHING"
       /\ s.task[1] = "Finished" /\ s.task[2] # "Ready" /\ s.task[3] = "Ready"
    \/ /\ s.group = "Running"
       /\ s.tickStage = "MOVING_PENDING_ORDERS"
       /\ s.task[1] = "Finished" /\ s.task[2] = "Finished" /\ s.task[3] # "Ready"
       /\ s.task[3] = "Finished" => s.pendingLimit = NoOrders /\ s.pendingMarket = NoOrders

\* A page that has just started the group and has not started a task yet.
JustStarted ==
    /\ pc = "Loop" /\ i = SIMULATION /\ leftSteps > 0
    /\ group = "Running"
    /\ tickStage = "RECEIVING_ORDERS"
    /\ \A t \in Tasks : task[t] = "Ready"
    /\ pendingLimit = NoOrders
    /\ pendingMarket = NoOrders

LoopPosition ==
    /\ pc = "Loop" /\ leftSteps > 0 => \A t \in Tasks : t < i => task[t] = "Finished"
    /\ pc = "Step" => /\ i \in Tasks
                      /\ task[i] = "Running"
                      /\ leftSteps > 0
                      /\ consumed <= leftSteps

\* What the running transaction has done so far to what it started from.
SinceSaved ==
    pc # "Idle" =>
        /\ ConsistentStorage(saved)
        /\ saved.task[3] # "Finished"
        /\ number = saved.number
        /\ \/ JustStarted /\ saved.tickStage = "RECEIVING_ORDERS"
           \/ tickStage \in Cycle!Onward(saved.tickStage)
        /\ Waiting(pendingLimit, pendingMarket) <= Waiting(saved.pendingLimit, saved.pendingMarket)
        /\ tickStage # "MOVING_PENDING_ORDERS" =>
              pendingLimit = saved.pendingLimit /\ pendingMarket = saved.pendingMarket

IInv ==
    /\ TypeOK
    /\ ConsistentStorage(Snapshot) \/ JustStarted
    /\ pc = "Idle" => task[3] # "Finished"
    /\ LoopPosition
    /\ SinceSaved
=============================================================================
