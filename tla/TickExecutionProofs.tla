------------------------ MODULE TickExecutionProofs ------------------------
(***************************************************************************)
(* The theorems of TickExecution, for pages of any size, any amount of     *)
(* work, any number of orders and of ticks.                                *)
(***************************************************************************)
EXTENDS TickExecution, TLAPS

\* The stages, states, sides and tasks are a handful of literals: the proofs
\* compute with them everywhere.
USE DEF Sides, TickStages, TaskStates, GroupStates, SIMULATION, MATCHING, MOVING_OUT_PENDINGS, Tasks

LEMMA InitIInv == Init => IInv
BY DEF Init, IInv, TypeOK, StorageType, Snapshot, Fresh, NoOrders, ConsistentStorage, JustStarted,
       LoopPosition, SinceSaved

\* One call of MoveOne takes at most one order out of a queue.
LEMMA MoveOneType ==
    ASSUME NEW q \in [Sides -> Nat]
    PROVE  /\ MoveOne(q) \in [Sides -> Nat]
           /\ MoveOne(q)["buy"] + MoveOne(q)["sell"] <= q["buy"] + q["sell"]
BY DEF MoveOne

LEMMA NonePending ==
    ASSUME NEW q \in [Sides -> Nat], ~SomePending(q)
    PROVE  q = NoOrders
BY DEF SomePending, NoOrders

LEMMA NextIInv == IInv /\ [Next]_vars => IInv'
<1> SUFFICES ASSUME IInv, [Next]_vars
             PROVE  IInv'
    OBVIOUS
<1> USE DEF IInv, TypeOK, StorageType, Snapshot
<1>1. CASE Insert
  <2> PICK s \in Sides : InsertLimitOrder(s) \/ InsertMarketOrder(s)
      BY <1>1 DEF Insert
  <2>1. CASE InsertLimitOrder(s)
        BY <2>1 DEF InsertLimitOrder, ConsistentStorage, JustStarted, LoopPosition, SinceSaved, transaction
  <2>2. CASE InsertMarketOrder(s)
        BY <2>2 DEF InsertMarketOrder, ConsistentStorage, JustStarted, LoopPosition, SinceSaved, transaction
  <2>3. QED BY <2>1, <2>2
<1>2. CASE Page
  <2> PICK steps \in 1 .. MaxSteps : StartTick(steps) \/ ContinueTick(steps)
      BY <1>2 DEF Page
  <2>1. CASE StartTick(steps)
        BY <2>1 DEF StartTick, BeginPage, ConsistentStorage, JustStarted, LoopPosition, SinceSaved, NoOrders, Waiting
  <2>2. CASE ContinueTick(steps)
        BY <2>2 DEF ContinueTick, BeginPage, ConsistentStorage, JustStarted, LoopPosition, SinceSaved, NoOrders, Waiting, Cycle!Onward, Cycle!TickStages
  <2>3. QED BY <2>1, <2>2
<1>3. CASE SkipTask
      BY <1>3 DEF SkipTask, storage, ConsistentStorage, JustStarted, LoopPosition, SinceSaved
<1>4. CASE StartTask
      BY <1>4 DEF StartTask, ConsistentStorage, JustStarted, LoopPosition, SinceSaved, StageBefore, StageOf, Cycle!Onward, Cycle!TickStages
<1>5. CASE ResumeTask
      BY <1>5 DEF ResumeTask, storage, ConsistentStorage, JustStarted, LoopPosition, SinceSaved
<1>6. CASE SimulationStep
      BY <1>6 DEF SimulationStep, AfterStep, ReturnFromTask, ConsistentStorage, JustStarted, LoopPosition, SinceSaved
<1>7. CASE MatchStep
      BY <1>7 DEF MatchStep, AfterStep, ReturnFromTask, ConsistentStorage, JustStarted, LoopPosition, SinceSaved
<1>8. CASE MoveStep
      BY <1>8, MoveOneType, NonePending DEF MoveStep, AfterStep, ReturnFromTask, ConsistentStorage, JustStarted, LoopPosition, SinceSaved, Waiting
<1>9. CASE PauseTask
      BY <1>9 DEF PauseTask, ReturnFromTask, ConsistentStorage, JustStarted, LoopPosition, SinceSaved
<1>10. CASE EndPage
      BY <1>10 DEF EndPage, LoopEnds, EndTransaction, storage, Fresh, NoOrders, ConsistentStorage, JustStarted, LoopPosition, SinceSaved
<1>11. CASE FinishTick
      BY <1>11 DEF FinishTick, LoopEnds, EndTransaction, Fresh, NoOrders, ConsistentStorage, JustStarted, LoopPosition, SinceSaved
<1>12. CASE Revert
      BY <1>12 DEF Revert, EndTransaction, Fresh, NoOrders, ConsistentStorage, JustStarted, LoopPosition, SinceSaved
<1>13. CASE UNCHANGED vars
      BY <1>13 DEF vars, storage, transaction, ConsistentStorage, JustStarted, LoopPosition, SinceSaved
<1>14. QED
      BY <1>1, <1>2, <1>3, <1>4, <1>5, <1>6, <1>7, <1>8, <1>9, <1>10, <1>11, <1>12, <1>13 DEF Next, Execute

\* Every variable of the paginated execution has its type: what TypeOK says of
\* the storage the library and the exchange write, in every reachable state.
THEOREM TypeCorrect == Spec => []TypeOK
<1>1. IInv => TypeOK
      BY DEF IInv
<1>2. QED
      BY InitIInv, NextIInv, <1>1, PTL DEF Spec

\* The inductive invariant holds for pages of any size.
THEOREM Invariance == Spec => []IInv
BY InitIInv, NextIInv, PTL DEF Spec

\* No assert on the stage of the tick can fail: the hooks and the step functions
\* of executeGroup run only in the stage they expect, so a page cannot be blocked
\* by one of them.
THEOREM AssertionsNeverFail == Spec => []AssertionsHold
<1>1. ASSUME IInv
      PROVE  AssertionsHold
  <2> USE <1>1 DEF IInv, TypeOK, StorageType, Snapshot, ConsistentStorage, JustStarted
  <2>1. pc = "Idle" /\ group = "Ready" => tickStage = "RECEIVING_ORDERS"
        OBVIOUS
  <2>2. pc = "Loop" /\ leftSteps > 0 /\ i \in Tasks /\ task[i] = "Ready" => tickStage = StageBefore(i)
        BY DEF LoopPosition, StageBefore
  <2>3. pc = "Step" /\ i = SIMULATION => tickStage = "RUNNING_SIMULATION"
        BY DEF LoopPosition
  <2>4. pc = "Step" /\ i = MOVING_OUT_PENDINGS => tickStage = "MOVING_PENDING_ORDERS"
        BY DEF LoopPosition
  <2>5. LoopEnds /\ task[MOVING_OUT_PENDINGS] = "Finished" => tickStage = "MOVING_PENDING_ORDERS"
        OBVIOUS
  <2>6. QED BY <2>1, <2>2, <2>3, <2>4, <2>5 DEF AssertionsHold
<1>2. QED
      BY Invariance, <1>1, PTL

\* Whenever a pair receives orders its pending queues are empty: what
\* movePendingOrdersStepFunction and onTickFinish leave, however the tick was paged.
THEOREM PendingsDrained == Spec => []NoPendingsWhileReceiving
<1>1. IInv => NoPendingsWhileReceiving
      BY DEF IInv, ConsistentStorage, JustStarted, Snapshot, NoPendingsWhileReceiving
<1>2. QED
      BY Invariance, <1>1, PTL

\* A page that does not complete the tick consumes all its steps: executeGroup
\* stops early only after the last task.
THEOREM StepsAreUsed == Spec => []PageUsesItsSteps
<1>1. IInv => PageUsesItsSteps
      BY DEF IInv, TypeOK, LoopPosition, PageUsesItsSteps
<1>2. QED
      BY Invariance, <1>1, PTL

\* Between two transactions the stage of the tick and the states of the tasks agree.
THEOREM StageIsThatOfTheTasks == Spec => []StageFollowsTasks
<1>1. IInv => StageFollowsTasks
      BY DEF IInv, TypeOK, StorageType, ConsistentStorage, JustStarted, Snapshot, StageFollowsTasks, StageOf
<1>2. QED
      BY Invariance, <1>1, PTL

-----------------------------------------------------------------------------
(* The refinement.                                                           *)

LEMMA InitRefines == Init => Cycle!Init
BY DEF Init, Cycle!Init, Waiting, NoOrders

\* A transaction that ends without completing the tick and without being undone.
LEMMA EndPageRefines == IInv /\ EndPage => Cycle!Advance \/ UNCHANGED Cycle!vars
<1> SUFFICES ASSUME IInv, EndPage
             PROVE  Cycle!Advance \/ UNCHANGED Cycle!vars
    OBVIOUS
<1> USE DEF IInv, TypeOK, StorageType, Snapshot
<1>1. pc = "Loop" /\ pc' = "Idle" /\ UNCHANGED storage
      BY DEF EndPage, LoopEnds, EndTransaction
<1>2. ~JustStarted
      BY DEF EndPage, LoopEnds, JustStarted
<1>3. tickStage \in Cycle!Onward(saved.tickStage)
      BY <1>1, <1>2 DEF SinceSaved
<1>4. QED
      BY <1>1, <1>3 DEF SinceSaved, Cycle!Advance, storage, Waiting

\* A transaction that completes the tick: nothing waits any more.
LEMMA FinishTickRefines == IInv /\ FinishTick => Cycle!Complete
<1> SUFFICES ASSUME IInv, FinishTick
             PROVE  Cycle!Complete
    OBVIOUS
<1> USE DEF IInv, TypeOK, StorageType, Snapshot
<1>1. pendingLimit' = NoOrders /\ pendingMarket' = NoOrders
      BY DEF FinishTick, LoopEnds, ConsistentStorage, JustStarted
<1>2. pc = "Loop" /\ pc' = "Idle" /\ number' = saved.number + 1 /\ tickStage' = "RECEIVING_ORDERS"
      BY DEF FinishTick, LoopEnds, EndTransaction, SinceSaved
<1>3. QED
      BY <1>1, <1>2 DEF Cycle!Complete, Waiting, NoOrders

LEMMA InsertRefines == IInv /\ Insert => Cycle!Insert \/ UNCHANGED Cycle!vars
<1> SUFFICES ASSUME IInv, NEW s \in Sides, InsertLimitOrder(s) \/ InsertMarketOrder(s)
             PROVE  Cycle!Insert \/ UNCHANGED Cycle!vars
    BY DEF Insert
<1> USE DEF IInv, TypeOK, StorageType, Snapshot
<1>1. pc = "Idle" /\ pc' = "Idle" /\ UNCHANGED <<tickStage, number>>
      BY DEF InsertLimitOrder, InsertMarketOrder, transaction
<1>2. CASE tickStage = "RECEIVING_ORDERS"
      BY <1>1, <1>2 DEF InsertLimitOrder, InsertMarketOrder, Waiting, Cycle!vars
<1>3. CASE tickStage # "RECEIVING_ORDERS"
  <2>1. Waiting(pendingLimit, pendingMarket)' = Waiting(pendingLimit, pendingMarket) + 1
        BY <1>3 DEF InsertLimitOrder, InsertMarketOrder, Waiting
  <2>2. QED
        BY <1>1, <1>3, <2>1 DEF Cycle!Insert
<1>4. QED BY <1>2, <1>3

\* The steps nobody can see from outside the transaction.
LEMMA InnerStepRefines ==
    ASSUME IInv,
           \/ Page \/ SkipTask \/ StartTask \/ ResumeTask \/ SimulationStep \/ MatchStep
           \/ MoveStep \/ PauseTask \/ Revert \/ UNCHANGED vars
    PROVE  UNCHANGED Cycle!vars
<1> USE DEF IInv, TypeOK, StorageType, Snapshot
<1>1. CASE Page
      BY <1>1 DEF Page, StartTick, ContinueTick, BeginPage, Cycle!vars
<1>2. CASE Revert
      BY <1>2 DEF Revert, EndTransaction, Cycle!vars
<1>3. CASE UNCHANGED vars
      BY <1>3 DEF vars, storage, transaction, Cycle!vars
<1>4. CASE \/ SkipTask \/ StartTask \/ ResumeTask \/ SimulationStep \/ MatchStep \/ MoveStep \/ PauseTask
  <2>1. pc # "Idle" /\ pc' # "Idle" /\ saved' = saved
        BY <1>4 DEF SkipTask, StartTask, ResumeTask, SimulationStep, MatchStep, MoveStep, PauseTask,
                    AfterStep, ReturnFromTask
  <2>2. QED
        BY <2>1 DEF Cycle!vars
<1>5. QED
      BY <1>1, <1>2, <1>3, <1>4

\* The paginated execution implements the tick seen from outside: stages in order,
\* one number per completed tick, and every order that waited moved before the
\* tick is completed.
THEOREM Refinement == Spec => ImplementsTickCycle
<1>1. IInv /\ [Next]_vars => [Cycle!Next]_Cycle!vars
  <2> SUFFICES ASSUME IInv, [Next]_vars
               PROVE  [Cycle!Next]_Cycle!vars
      OBVIOUS
  <2>1. CASE Insert
        BY <2>1, InsertRefines DEF Cycle!Next
  <2>2. CASE EndPage
        BY <2>2, EndPageRefines DEF Cycle!Next
  <2>3. CASE FinishTick
        BY <2>3, FinishTickRefines DEF Cycle!Next
  <2>4. CASE \/ Page \/ SkipTask \/ StartTask \/ ResumeTask \/ SimulationStep \/ MatchStep
             \/ MoveStep \/ PauseTask \/ Revert \/ UNCHANGED vars
        BY <2>4, InnerStepRefines
  <2>5. QED
        BY <2>1, <2>2, <2>3, <2>4 DEF Next, Execute
<1>2. QED
      BY Invariance, InitRefines, <1>1, PTL DEF Spec, Cycle!Spec, ImplementsTickCycle
=============================================================================
