# TLA+ models and proofs of the MoC decentralized exchange

This directory models the decentralized exchange: its contracts
(`src/contracts`), orderbooks kept as linked lists on chain and matched in ticks
that are executed page by page, by transactions anybody may send; the scripts
its owners govern it with (`src/scripts/changers`); and the migration that
deploys it (`src/migrations`).  TLC checks the models on small instances, TLAPS
proves theorems about nine of them for every instance.  `PROJECT.json` lists the
runs, the lines each definition translates, the hazards and the theorems.

Run `tlc -config X.cfg M` and `tlapm M.tla` in this directory; the module of
each run is in the table of runs below.

## The system

A *pair* exchanges a base token against a secondary token.  Users insert limit
orders and market orders (a multiply factor of the market price) with a
lifespan in ticks.  Between two ticks an order goes to its orderbook, sorted by
price; while a tick runs it goes to a pending queue.  A tick first simulates the
matching to find the price of the last match (the *emergent price*), then
matches the same orders again at that price and moves the tokens, then moves
the pending orders to the books.

| Component | State | Operations | Talks to |
|---|---|---|---|
| `MoCDecentralizedExchange` with `PartialExecution` | group and task states, steps, stage of the tick | `matchOrders`, `matchOrdersWithHints`, hooks, step functions, `cancel*`, `processExpired`, `disable`/`enable` | calls `MoCExchangeLib` in each hook and step |
| `MoCExchangeLib`: orderbook (`Data`) | mapping of orders, 4 linked lists per side, counters, pointers | insert, insert as pending, remove, pop, move, expire | shared by users, keepers and the tick |
| `MoCExchangeLib`: matching | `pageMemory`, `lastClosingPrice`, `emaPrice` | simulation step, match, refund, change | price provider, tokens, `CommissionManager` |
| `OrderListing`, `RestrictiveOrderListing` | limits on amounts, lifespans, factors; last order id | insertion, cancelation, withdrawal of commissions | `CommissionManager`, `TokenPairConverter`, tokens |
| `CommissionManager` | rates, minimum, beneficiary, commissions charged per token | initial fee, charges, clearing | called by the exchange |
| `TickState`, `ConfigurableTick` | blocks of the ticks of each pair; limits shared by all | `startTick`, `nextTick`, setters | block number, governance |
| `TokenPairListing`, `TokenPairConverter` | the pairs, `disabled`, price provider, EMA settings | add, disable, enable, set, convert | governance; other pairs |
| Price providers | none, or the closing price of a pair | `peek` | MoC contracts, the exchange itself |
| Changers | arguments of one change | `execute` | governor, setters of the exchange |
| Governance scripts | none | deploy a provider, deploy a changer, have it executed | node, governor |
| Migration | what it has deployed so far | batches of transactions | node, `zos` proxies, governor |
| `exchangesCalculator` | none | the exact match the tests expect | tests |

What is hard: everything is one transaction at a time, so there is no data
race, but a tick is a long operation cut into pages at any step, and users,
keepers and governance act between two pages.  What a page reads was written
several transactions ago by others.  Any revert undoes a whole page, and a
revert that repeats blocks the pair.  The divisions round down.  Transfers to
users may fail and are then skipped.  Scripts and the migration are sequences of
transactions that other transactions, failures and interruptions come between.

What makes each component correct:

- tick: stages in order wherever pages are cut, nothing left in the queues at the
  end, no assert fails, it ends;
- orderbook: no order lost or duplicated, counters right, price-time order,
  hints and expirations change nothing else;
- matching: every token accounted for, each announced match possible and fair,
  the matching agrees with the simulation;
- arithmetic: roundings neither lose tokens nor make a later match impossible;
- clock: waits within the configured limits;
- listing, conversion, prices: convertible pairs, a price whenever a tick starts,
  an EMA that follows its prices however its roundings add up;
- governance: sound settings whatever the order of the changes, providers that
  quote their own pair, a script that reports what is true;
- migration: no more transactions in flight than a node keeps, somebody who can
  upgrade every proxy wherever a run stops, no trading while the code can be
  replaced past the Governor, nothing but governance left to the deployer, an end.

## Modules

| Module | Models |
|---|---|
| `TickCycle` | Abstract: what the tick of a pair looks like between transactions |
| `TickExecution` | `executeGroup` and `executeTask` loop by loop with the hooks of the exchange; implements `TickCycle` |
| `TickExecutionProofs` | Theorems of `TickExecution` |
| `PriceTime` | Sorted sequences: operators shared by `PriorityBook`, `Exchange` and the linked lists |
| `PriorityBook` | Abstract: what an orderbook promises to the owners of orders |
| `OrderBook` | `MoCExchangeLib.Data` and each function on its linked lists, as operators |
| `LinkedBook` | The transactions on one orderbook; implements `PriorityBook` |
| `Lifespan` | `LinkedBook` with the history of the ticks each order was available in |
| `LinkedBookProofs` | Theorems of `LinkedBook` and `Lifespan` |
| `Settlement` | The arithmetic of a match, a refund and a fee, as operators |
| `ExchangesCalculator` | The exact match of the tests, as fractions |
| `MatchSequence`, `MatchSequenceProofs` | Sequences of partial matches and withdrawals of two orders at changing penalty rates, the accounts of their owners, and the exact match as the reference; theorems |
| `Exchange`, `MCExchange` | A whole pair: both books, queues, page memory, ledger, pause and disable |
| `Lemmas` | Facts several proofs need: induction, folds, quotients, the arithmetic of one match, sorted sequences |
| `ExchangeProofs` | Theorems of `Exchange`: types, tokens, simulation and matching |
| `TickClock`, `TickClockProofs` | The blocks of the ticks of several pairs, and theorems |
| `PairPrices` | The listed pairs, conversion, price providers, closing prices and EMAs |
| `ChangerScripts`, `ChangerScriptsProofs` | The governance scripts and changers on top of `PairPrices`, and theorems of both; `MCChangerScripts` has the scripts of its run |
| `Deployment`, `DeploymentProofs` | The migration, its transactions, failures and further runs, and theorems |

### State and actions against the code

`TickExecution`.  `group`, `task`, `currentStep` are the `TaskGroup` and `Task`
structs, `tickStage`, `number` and the `pending*` counters fields of the pair.
`pc`, `i`, `leftSteps`, `consumed` are the locals of a page.  `StartTick` and
`ContinueTick` begin a page; `SkipTask`, `StartTask`, `ResumeTask` enter
`executeTask`; `SimulationStep`, `MatchStep`, `MoveStep` are iterations of its
loop; `PauseTask` leaves it without steps; `EndPage` and `FinishTick` are the
end of `executeGroup`.  An assert of the code is a guard of its action, and
`AssertionsHold` says that the guard is true wherever control reaches it.
`Revert` restores `saved`.

`OrderBook` and `LinkedBook`.  A `Data` is one record.  The library has each
function for limit and for market orders; they differ in the fields they use,
so here the type is a parameter (`firstId[t]`, `lengthOf[t]`...).  A function
that may revert is a pair: one operator says when it does not, the other gives
its result.  Reading an absent order gives the null record, as a Solidity
mapping does.  Amounts are left out: no function of the lists reads them.

`Settlement`.  One operator per function; `NoRevert` is the conjunction of
everything in `executeMatch` that could revert (divisions, `SafeMath.sub`, the
assert of `chargeCommissionForMatch`).

`Exchange`.  Books and queues are sequences, which is what `RefineLinkedBook`
justifies.  `page` is `pageMemory`; `last` and `lastIds` are its last matches and
ids, by side.  A page runs one step: larger pages are sequences of these that
nobody interrupts, and `TickExecution` is where their size matters.  `ledger` is
the balance of the contract, the commissions of `CommissionManager` and, as
history, what `SafeTransfer.doTransfer` failed to send.  `Refused` says which
owner cannot receive which token.  Hints do not appear, as they change nothing
(`HintsOnlySaveWork`) when they name orders of the book.  `lastClosingPrice`
and `emaPrice`, which no action of the model reads, are not variables.

`TickClock`.  `tickState` of each pair, `tickConfig`, the block number.  A tick
starts and ends at any later block with any number of matches.

`MatchSequence`.  `ExecuteMatch` is `executeMatch` of the two orders at the top;
`NextBuy` and `NextSell` bring the next order of a side; `WithdrawBuy` and
`WithdrawSell` are `refundOrder`, at the `penaltyRate` of the moment, which
`SetPenaltyRate` changes between any two of them.  A penalty above what is left of
the commission reverts (`CanRefund`, the subtraction of `MoCExchangeLib.sol:2063`);
`OrdersCanBeRefunded` says that it never does.  `ExchangesCalculator!match`
computes the same match without rounding; `RoundsTheExactMatch` compares them.

`PairPrices`.  `pair` holds the fields of `MoCExchangeLib.Pair` that prices
depend on, `listed` is `tokenPairAddresses`.  A tick is two actions:
`onSimulationStart`, which asks the provider, and the end of the simulation,
with any two orders as the last match, which sets the closing price and the EMA;
what follows in the tick touches no price.  `range` is history: the prices the EMA
was made of since it was last set.  A provider is its kind and the pair it was
constructed with, which need not be the pair that uses it.

`ChangerScripts`.  A changer is a record of what it was constructed with; a
script is the provider it deploys, if any, and its changer.  `DeployProvider`,
`DeployChanger` and `executeChange` are the transactions of a script; `MineChange`
and `RefuseChange` the governor's execution of the first change in `sent`, which
calls the setter with all its conditions (`Execute`).  The script does not know yet:
`Report` is a later step, when `send` has polled the receipt and `Completed` or the
error is printed, and other changes and ticks may come in between (a `disablePair`
between the change of an `enablePair` and its report).  So a change need not be in
force when its script says so; `effect` is the history that tells whether what a
script brought about was kept or replaced, and `ReportsAreTrue` relates report,
history and setting.  `GiveUp` is a script that waits no longer, before its change
is mined or after it; `ExecuteByHand` any changer
that is on the chain, again or for the first time.  A script that ends with an
exception takes no further step, so it has no action.  `Prepared` are changers no
script deploys.

`Deployment`.  `script` is the list of batches still to be sent: operators named
as the functions of the migration give their transactions, `executeBatched` cuts
them.  `chain` is what contracts hold of this run (`adminOf` the proxies, `adminOwner`
of the `ProxyAdmin`, `ownerOf` the Governor and the Stopper), `past` who ruled the
proxies of the earlier ones.  `Accepts` is what the contracts and `zos` check.

## Runs

| Run | Module | Shows |
|---|---|---|
| `MCTickExecution` | `TickExecution` | Pages of 1 to 3 steps, up to 3 steps in a task, 3 insertions, 2 ticks, reverts anywhere: the asserts hold, the queues are drained (in `IInv` and in the refinement of `TickCycle`), pages use their steps, and a tick ends |
| `MCLinkedBook` | `LinkedBook` | 4 orders, 2 prices, a buy book, 2 ticks, all hints and all starting points of `processExpired` |
| `RefineLinkedBook` | `Lifespan` | 3 orders on a sell book: refinement of `PriorityBook`, lifespans |
| `PendingHint` | `LinkedBook` | A finding: hints that name pending orders |
| `ShortLife` | `Lifespan` | A finding: the lifespan of an order inserted during a tick |
| `MCExchange` | `MCExchange` | 4 orders of both types and sides in one tick, 2 amounts, 2 prices, two owners who refuse a token |
| `TicksExchange` | `MCExchange` | 3 orders over 2 ticks with expiration, pending orders, changing prices, pauses, a disabled pair, and termination |
| `WholeFee` | `MCExchange` | A finding: a fee that takes the whole amount |
| `MCMatchSequence` | `MatchSequence` | 3 matches in a row, amounts around the precision of prices, commissions that do not divide them, withdrawals between them, a penalty rate that governance may ask to be above 1 |
| `MCTickClock` | `TickClock` | 2 pairs, 5 blocks, limits up to 3 blocks changed at any time |
| `MCDeployment` | `Deployment` | The four networks, two lost transactions or interruptions, any number of further runs |
| `MCChangerScripts` | `MCChangerScripts` | Two of 21 scripts, at least one of each kind (one of the two that quote MoC, which take the same arguments), and two changes sent, by scripts or by hand, reported late or never, with ticks of the pair they are about in between: three ticks, two and a change, or one and two changes |

`TypeOK` of `LinkedBook`, `Exchange` and `Deployment` say what their variables are;
they are part of no run because TLC could not evaluate the other properties
if they failed.  `TypeOK` of the modules with theorems is proved.

Why the bounds are enough.  A task whose steps outnumber a page exercises every
boundary of pages: `MaxWork` 2 and pages up to 3 give tasks shorter than, as long
as and longer than a page.  The link operations touch an order, its neighbours
and the ends of the list: four orders give a first, a last, a middle and one
outside, two prices give ties and both directions.  An order may be partially
filled twice and then filled with three others against it.  The precision of the
prices and rates is 2, 3 or 4 instead of 10^18, so that roundings to zero, ties
and remainders happen at the smallest amounts.  In `MCExchange` four orders, with
`MaxPending` 0, stay in one tick; queues and the second tick are in
`TicksExchange`, with three orders.  In `MCDeployment` a batch of four is followed by one of three, a transaction of
either may be lost, and again in the next run; with 2 addresses the six mints
make two batches.  In `MCChangerScripts` two scripts are what an interleaving
needs; three tokens give a pair with the common token, one without, and one that
is added later.  Settings and pairs share no state, so a behaviour has changes of
one of the two kinds only (`family`), and ticks only with those of pairs.  `MaxEvents` bounds ticks and changes
together: a change has a tick before it and one after it, an EMA is updated three
times in a row, and the roundings of more updates are the subject of the theorem
`EmaStaysInRange`.  The `Max...` constants bound counters
that grow for ever, and nothing else.

`CHECK_DEADLOCK FALSE` is in every configuration but that of `MCDeployment`
because a bounded model stops when its counters reach their bounds.

### Fairness

Nothing in the contracts executes by itself; somebody must send
`matchOrders`.  `TickExecution!FairSpec` assumes that a transaction that started
ends, and that pages keep coming while a tick runs (weak fairness of
`ContinueTick`); no fairness is assumed of starting a tick, nor of insertions.
`TickFinishes` there has as its premise that from some time on no page reverts;
whether pages can is the subject of `Exchange`, where
`KeeperSpec` is weak fairness of `ContinueTick`: if from some time on a page of
the running tick can be executed without reverting, one is executed.  `FairSpec`
is the same formula with `CanContinue`, the guard of a page, written in the place
of `ENABLED ContinueTick`, which TLC evaluates too slowly for `TicksExchange`.
`TickFinishes` is the claim that a page always can be executed and that finitely
many are enough.
Its conclusion excepts a paused contract, where governance keeps pages out.

`Deployment!FairSpec`: transactions that were sent are mined or fail in the end,
the script sends the next batch when all of the last are, and whoever runs it runs
it again when it has stopped.  That transactions are lost only finitely often is
the bound `MaxTrouble`.  Nothing is assumed of the governance scripts, of which
only safety is checked.

## Proofs

`TickExecutionProofs` proves, for pages of any size, any work, orders and ticks:
`TypeOK`, the four safety properties and the refinement of `TickCycle`.  The
only assumption is `BoundsAssumption`, that the bounds are natural numbers and
that a page has at least one step.

The safety properties are not inductive: that a stage is asserted in the hook of
a task follows only from what the other tasks are at the time.  `IInv` adds
`ConsistentStorage`, the four combinations of stage and task states that
exist between hooks; `JustStarted`, the moment between the start of the group
and of its first task, when storage is in none of them; `LoopPosition`, that the
tasks before the index of the loop are finished; and `SinceSaved`, that what a
revert would restore is consistent too and how far this page has gone from it.
`SinceSaved` is what the refinement needs: the abstract state during a page is
the saved one, and the last step of the page must be one `Advance` or `Complete`.
`NextIInv` has one case per action; each theorem follows from `IInv`; the
refinement has one lemma per kind of step.

`TickClockProofs` proves, for any set of pairs and any bounds, that blocks stay
in order and that waits are within the configured limits.  The inductive
invariant needs that the two limits are in order (each setter checks the other
one) and that a block number is never 0 (0 means that no tick is running).  The
arithmetic is in lemmas of its own (`DivIsNat`, `WaitBetweenLimits`), because the
solver does not reason about a product and a quotient inside a record.  The
action property comes from the lemma `NextTickWaits`.  `BusyPairsTickSooner`
follows from the invariant because a quotient shrinks as its divisor grows
(`DivIsAntitone`) and the two limits keep the order of what they bound.

`MatchSequenceProofs` proves the seven properties of `MCMatchSequence` for all
amounts, commissions, prices, rates and precisions (naturals; amounts of new
orders, prices and precisions positive: `SettlementAssumption` and
`MatchSequenceAssumption`), over any number of matches.  Its lemmas are the
arithmetic of one match: `CommissionForBounds`, `MatchBounds` and, from them,
`MatchIsPossible`, that nothing in `executeMatch` fails.  `MatchIInv` relates
each order to the account of its owner: `Balances`, everything locked is in one of
five places; `Reserves`, what was charged and what is left of the commission do not
exceed what was reserved; and `Shares`.  `CommissionIsProportional` is not
inductive without the second half of `Shares`, that the commission left in an order
is at least the share of the amount left in it: it holds because each match rounds
its share down (`RestIsProportional`), and makes the next share large enough
(`ShareIsProportional`).  `SellerPays` needs that a refund is never zero, so that an
order withdrawn is told from one filled.  `RoundsTheExactMatch` needs of the
invariant only that the price is between those of the orders: `ExactMatchIs` writes
the fractions that the tests compute, `AboutIs` says when an integer is near one, and
`ConvertedIsAbout` is the case that costs one unit more, the quotient of a quotient.

`ExchangeProofs` proves of `Exchange`, for any number of orders, prices, ticks and
owners who refuse tokens, and any constants that `SettlementAssumption` and
`ExchangeAssumption` admit, that types are kept and `Solvency`.
What a transfer leaves in the contract is what the
lists hold only if no list holds an order twice and no order is in two lists, so
`SolvencyIInv` has three parts besides the types: the lists of a side are `Tidy` (each
order once, in a list of its type); ids are given once; and `Accounted`, that for each
token what the contract has, less commissions and tokens stranded by failed transfers,
is what the orders of the lists hold.  The sum over a set of orders is a fold;
`HeldByWith` and `HeldByWithout` say what one order more or less does to it, after
which each action has one lemma: what it takes out of a list or puts into it is what it
moves in the ledger (`AccountsMatchStep` for the longest of them, from `SettlePays`).

It also proves the three properties of the matching, for
all of that and any number of matches in a tick: `EveryMatchIsFair`,
`MatchingIsComplete`, and, when no fee takes the whole amount of an
order (`FeeIsAPart`; finding 3 is what happens otherwise), `MatchNeverReverts`.  None of
them says anything of the simulation, but each holds because of it: nothing in a step of
the matching compares prices or looks for an end other than the last two ids that
the simulation left in the page memory.  The argument is about *runs* of
matches.  A moment of a match is what is left of the two books: the orders that have
not expired and how much of the first of each is filled (`Now`; `After` is
the moment after its match).
The simulation reads the books without changing them, so its invariant (`Simulating`)
is that what it has done is a run from the books as they are to the moment
its page memory describes (`Simulates`); a step makes the run one match longer (`RunGrows`), and
its end leaves the ids of the last match and the average of its prices
(`Announces`).  The matching does change the books; its invariant (`Simulated`) is
that a run from the books as they now are, up to the announced match, is still to be done.  Each
match is the first of that run (`MatchIsAfter`) and leaves the rest (`RunShrinks`); it is
the last exactly when its ids are the announced ones, because no two matches of
a run have the same two orders (`NoneTwice`): that is `MatchingIsComplete`.  The prices of a
run close on each other, a buyer's falls and a seller's rises, so the price of
the last match, between its two prices, suits every earlier match (`Closing`): that
is `EveryMatchIsFair`, and, with `MatchIsPossible` and what is left of an order being more than
its share of the fee (`Whole`), `MatchNeverReverts`.
`MatchingIInv` adds to `SolvencyIInv` and these two what they rest on: `Ordered`, the books
are in price-time order, the queues in order of arrival and behind their books; and `Quiet`,
between two ticks the queues, the page memory and the counter are empty.

`LinkedBookProofs` proves, for any number of orders, prices, ticks and steps, on buy and on
sell books, the types, the four invariants and the action property of
`MCLinkedBook`, the refinement of `PriorityBook`, `BookedOrdersHaveTheirLifespan`, and that
every stored order can be canceled between two ticks without a hint
(`OrdersCanBeCanceled`).  Its theorems have the two hypotheses its runs have.
`HintsInBook`: the hints of `matchOrdersWithHints` name no pending order; finding 1 shows
what happens otherwise.  `0 \notin Lifespans`: an order of lifespan 0 may be expired out of a
queue, with the wrong counters decreased (see Findings).  No other hint and no starting
point of `processExpired` is restricted, whether it names an order of the list or not.

`Good(d, b, q, F)` says that the Data `d` consists of the books `b` and queues `q`,
sequences of ids: pointers link them in their order (`Chained`), they share no order, every
stored order is in one of them or in `F`, the orders an operation has on their way,
books are in price-time order (`Ranked`), queues in order of arrival and after their books, and the
counters are their lengths.  What a loop over pointers does is an induction over the places
of a sequence: a walk from the first order of a list reads the list
(`WalkIs`), so the search without a hint stops at the one place where the price belongs
(`Spot`, `FindIs`), and a hint that `validatePreviousOrder` lets pass is that place too.  Each operation
of the library then has its effect on the sequences: `Inserted` at the spot, `Cut` of
one place, and, for `ExpireLoop`, an invariant of its iterations.  Each action is put together from
these (`InsertEffect`, `WaitEffect`, `CancelEffect`, `PopEffect`, `ExpireEffect`, `MoveEffect`),
and `IInv` adds to `Good` what the order of the actions gives: the queues are empty
between two ticks, ids grow, and no order expires while it is in a queue.

For the refinement the lists become sequences of records (`Items`).  An insertion at the spot is
`Place`, a pop is `Tail`.  That a removal is `Without` follows from a fact
about the orders alone: two lists of the same orders, both ranked, are the same list
(`RankedIsUnique`, `WithoutItems`).  For the lifespans `HInv` gives the count of each
order from its expiry and the number of the tick (`HadChances`); it needs of the lists only
that between two ticks every stored order is in a book.

`ChangerScriptsProofs` proves of `PairPrices!PricesSpec`, where governance may call every setter
with any arguments at any time, that types are kept, every listed pair converts,
and the EMA stays in its range.  `PricesIInv` adds to these `ListedInOrder`: the base
token of a listed pair is the common one or is listed against it.
Convertibility follows from it by the cases of `convertTokenToCommonBase`.  For
the EMA the induction is arithmetic: a new value is not above the greater of its
two parts (`NewEMAIsNotAbove`), and, if the old value is at most `Drift` below the
lowest price, neither is the new one (`NewEMAIsNotBelow`), since `Drift *
smoothing` makes up for what rounding loses (`PairPricesAssumption`).
With the smoothing factor of the deployment, 0.01653, and 18 decimals, a `Drift`
of 61 wei is enough for ever.

It also proves the six properties of `MCChangerScripts`, and its
types, for any number of scripts, running at once, and of changes by hand.
`ScriptsIInv` consists of `PricesIInv`, sound settings, and, for the prices and
providers, what every changer that is deployed or on its way satisfies: it
is one of those that scripts or hands can build, whose provider quotes the pair
it is for.  That is a fact about the constants (`JobsAreGood`, `PreparedIsGood`),
proved from the definitions of the scripts; so the invariant is about the order
of executions only, and holds whatever that order is.  `ReportsStayTrue` needs an
invariant of its own, `ReportsIInv`: a script that waits has its change on its way and
no effect yet (`Awaited`), one that has heard of it has the effect it heard of
(`Recorded`), and what was kept still stands (`KeptStand`).  `ExecutedIsInForce` says what
each setter does, `OtherChangeStands` that it touches nothing another change is about,
`TickStands` that a tick touches none of it but the closing price.  `JobsAreGood` shows
on the way that no `addPair` can be deployed.

`DeploymentProofs` proves the types and the four safety properties of `MCDeployment` for any
networks and addresses, any bound of the transactions in flight and any number of
runs and failures.  A fact about the script comes first: `MigrationIs`, that the
batches of every network are small enough and in a good order (`First`: a proxy is
created before it is given away, the delegator is initialized before it gets the `ProxyAdmin`,
and the pairs come after everything that governs them) and that nothing is missing
(`Complete`).  It is put together from the parts of the migration by
`GoodConcat`; `BatchedIs` is the arithmetic of the chunks.  The invariant, `IInv`, then says where in that
list the script is (`At`): all batches before the last one sent have their effect, also
when the run has stopped, and of the last one what is not pending, unless a transaction
failed.  `MinedKeepsIInv` is the only place where the order matters: of what has been
done only a `setAdmin` could be undone, by creating the same proxy afterwards.
`TradingIsGoverned` and `OnlyGovernanceIsLeft` say what the migration does achieve, that
the code is replaced through the Governor alone, and of whom the Governor is: of the
deployer, where the migration creates it (see Findings).

Induction.  The library states its induction theorems for an operator, which the
provers cannot instantiate.  `Lemmas` has them for sets, from the fact that the
natural numbers are well founded: `NaturalInduction` for the set of the numbers
with a property, `SubsetInduction` for a set of finite sets, `RecursionExists` and `FoldExists`
for the functions that recursive definitions and folds choose.  No module uses
`RECURSIVE`.

Only model-checked: liveness, since the provers do not handle it under fairness, nor
`ENABLED`: `TickFinishes` of both models and that a migration ends.  Every safety
property, action property and refinement of a passing run is a theorem.

## Findings

1. `PendingHint`.  `validateOrderIntendedPreviousOrder` accepts as a hint an
   order that is not in the book.  With `matchOrdersWithHints` an order moved
   with a hint that names a pending order, possibly itself, is linked outside
   of the book.
2. `ShortLife`.  An order inserted during a tick is available in one tick less
   than its lifespan, since its expiry is counted from the running tick.
3. `WholeFee`.  A limit order whose fee equals its amount is accepted; matching
   it divides by zero and its tick never ends.  A market order in that situation
   is refused.

Met while modelling, without a run of their own:

- An order of lifespan 0 in the pending queue can be expired by its id, with the
  wrong counters decreased (`RestrictiveOrderListing.sol:31`).
- A spot price of a market order that rounds to 0 makes the simulation divide by
  zero (`MoCExchangeLib.sol:1271`).
- `addPair.js` cannot work: `deployAddTokenPairChanger` gives five arguments to a
  constructor with six, without a price provider (`deployContracts.js:114`).
  In `ChangerScripts` it is a script that never deploys its changer.
- `stop.js`, `unstop.js` and `executeChange.js` require `./changerHelper`, which
  does not exist; `stopUnstop.md` describes `stop.js` as the way to pause.
- The scripts use `rskTestnet` by default, which `script-config.json` gives an
  empty address of the exchange and no governor: nothing gets past the deployment of
  a `UnityPriceProvider`.
- `setMinMultiplyFactor` and `setMaxMultiplyFactor` check nothing: a minimum above
  the maximum stops every insertion of market orders.  `AreSound` leaves the two out.
- A tick can close at price 0 (a limit order of price 1 against a market order
  whose spot price rounds to 0); a provider that falls back on it then has no
  price.  `AlwaysHasAPrice` excepts it, and an oracle that takes 0 for a valid price.
- The migration initializes the Governor and the Stopper with the deployer as their
  owner (`utils.js:36-50`) and no script hands them over: where governance is
  deployed, one key decides on changes and upgrades, and on pauses, until the owner
  transfers them by hand.  `GovernedBeforeTrading` and
  `DeployerKeepsOnlyGovernance` say so.
- `addTokenPair` accepts a `priceComparisonPrecision` of 0
  (`TokenPairListing.sol:141-164`).  Such a pair is in `tokenPairAddresses` without being
  valid (`isValid`, `MoCExchangeLib.sol:1279`): nothing can be done with it, its
  secondary token has no conversion, and it can be added a second time.
- The fake exchange that the migration creates is given the fee manager whose owner
  is the real one: it cannot charge a commission through it.
- If a migration that stopped is run again at once, what is pending of its last batch
  adds to the first batch of the new run; `Rerun` waits for it.

## Not modelled

Token contracts, interfaces, test doubles.  Scripts that print views, serve the
price provider of the tests, or require a missing file; `withdrawCommissions.js`,
one transaction, is `WithdrawCommissions` of `Exchange`.  Events and views
(`getEmergentPrice`, `getLastMatchingOrders`, `getStatus`), except
`areOrdersToExpire`.  Gas: a page that runs out of it is a revert.  The width of
integers: amounts are natural numbers, `uint64` tick numbers do not wrap.
Reentrancy of a token into the exchange.  A price precision of
0, or of its own for each pair: the models have one, above 0, so what `PairPrices`
says of listed pairs is about those that were added with a precision.  `Exchange` does not include
the check of `minOrderAmount` through `convertTokenToCommonBase`, nor the hints that
`matchOrdersWithHints` consumes over several moves; rates are constants there, and
change in `MatchSequence`.

## Order of the work

The execution of ticks (the skeleton of everything), the linked lists and
their abstraction, the arithmetic, the pair as a whole, the clock; proofs of the
execution and of the clock.  Then prices and conversion, the migration, the
governance scripts, rates that change, the reference of the tests; proofs of the
prices, of the scripts and of the settlement.  Then the proofs of the pair
(its tokens, the simulation and the matching), of the migration and of the
linked lists.

What could follow: `minOrderAmount` and the rates as variables of `Exchange`; the
fee and the lifespan of an order at their limits in runs of their own.
