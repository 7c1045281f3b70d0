--------------------------- MODULE ChangerScripts ---------------------------
(***************************************************************************)
(* How the exchange is governed: the scripts of scripts/changers, which    *)
(* deploy a price provider (some of them), then a changer, a contract with *)
(* the arguments of one change, and then have the governor execute it.     *)
(* Each is a transaction of its own, of the same account.                  *)
(*                                                                         *)
(* Scripts run side by side, with the ticks between any two of their       *)
(* transactions.  A script hears of a transaction some time after it was   *)
(* mined; if it waits too long it gives up, and the transaction may still  *)
(* be mined.  A changer that is deployed can be executed again at any      *)
(* later time.                                                             *)
(***************************************************************************)
EXTENDS PairPrices, Sequences, FiniteSets

CONSTANTS
    InitialSettings,    \* what the migration initialized the contracts with
    Migrated,           \* the pairs the migration lists, with a provider of its own
    Jobs,        \* the scripts that are run: a function from their names
    Prepared,    \* changers that were deployed by hand
    MaxRun,      \* bound of the scripts that are run in one behaviour
    MaxSent      \* bound of the changes the governor is asked for

Scripts == DOMAIN Jobs

Fields ==
    {"minBlocksForTick", "maxBlocksForTick", "expectedOrdersForTick", "minOrderAmount", "maxOrderLifespan",
     "minMultiplyFactor", "maxMultiplyFactor", "beneficiaryAddress", "commissionRate", "minimumCommission",
     "cancelationPenaltyRate", "expirationPenaltyRate"}

\* What the initialize functions require; address 0 is nobody.
AreSound(s) ==
    /\ s.minBlocksForTick <= s.maxBlocksForTick
    /\ s.expectedOrdersForTick >= 2
    /\ s.beneficiaryAddress # 0
    /\ s.commissionRate <= RatePrecision
    /\ s.cancelationPenaltyRate <= RatePrecision
    /\ s.expirationPenaltyRate <= RatePrecision

ASSUME ChangerScriptsAssumption ==
    /\ Migrated \subseteq Pairs
    /\ \A p \in Migrated : p[1] = commonBaseToken \/ <<commonBaseToken, p[1]>> \in Migrated
    /\ InitialSettings \in [Fields -> Nat]
    /\ AreSound(InitialSettings)
    /\ "hand" \notin Scripts
    /\ MaxSent \in Nat

VARIABLES
    settings,    \* the settings of the exchange and of its CommissionManager
    state,       \* where each script is
    deployed,    \* changers on the chain
    sent,        \* changes sent to the governor and not mined yet, in the order of their nonces
    asked,       \* how many were sent, for their bound
    effect       \* what became of the change of each script (history)

scriptVars == <<state, deployed, sent, asked, effect>>
vars == <<priceVars, settings, scriptVars>>

-----------------------------------------------------------------------------
(* deployContracts.js: the arguments each changer is constructed with.  A
   changer is a record: its contract, the configured address it is given, its
   pair and its values where it has them (upTo is that of a range), and how
   many arguments it gets. *)

NoPair == <<commonBaseToken, commonBaseToken>>

NoProvider == [kind |-> "none", pair |-> NoPair]

Changer(contract, target, p, value, arguments) ==
    [contract |-> contract, target |-> target, pair |-> p, value |-> value, upTo |-> 0,
     provider |-> NoProvider, arguments |-> arguments]

deployTokenEnabler(p) == Changer("TokenPairEnabler", "dex", p, 0, 3)
deployTokenDisabler(p) == Changer("TokenPairDisabler", "dex", p, 0, 3)
deployBeneficiaryAddressChanger(address) ==
    Changer("BeneficiaryAddressChanger", "commissionManager", NoPair, address, 2)
deployCancelationPenaltyRateChanger(rate) ==
    Changer("CancelationPenaltyRateChanger", "commissionManager", NoPair, rate, 2)
deployCommissionRateChanger(rate) == Changer("CommissionRateChanger", "commissionManager", NoPair, rate, 2)
deployExpectedOrdersForTickChanger(n) == Changer("ExpectedOrdersForTickChanger", "dex", NoPair, n, 2)
deployExpirationPenaltyRateChanger(rate) ==
    Changer("ExpirationPenaltyRateChanger", "commissionManager", NoPair, rate, 2)
deployLastClosingPriceChanger(p, price) == Changer("LastClosingPriceChanger", "dex", p, price, 4)
deployMaxBlocksForTickChanger(n) == Changer("MaxBlocksForTickChanger", "dex", NoPair, n, 2)
deployMaxOrderLifespanChanger(n) == Changer("MaxOrderLifespanChanger", "dex", NoPair, n, 2)
deployMinBlocksForTickChanger(n) == Changer("MinBlocksForTickChanger", "dex", NoPair, n, 2)
deployMinOrderAmountChanger(n) == Changer("MinOrderAmountChanger", "dex", NoPair, n, 2)
deployAddTokenPairChanger(p, price) == Changer("AddTokenPairChanger", "dex", p, price, 5)
deployChangePriceProvider(p, provider) ==
    [Changer("PriceProviderChanger", "dex", p, 0, 4) EXCEPT !.provider = provider]

\* Price providers: the kind, the pair they are given, and the configured address.
deployPriceProviderLastClosingPrice(p) == [kind |-> "lastClosing", pair |-> p]
deployPriceProviderFallback(p) == [kind |-> "external", pair |-> p]

\* MUTANT of deployMocStatePriceProvider: gives the tokens in the other order.
deployMocStateInverse(p) == [kind |-> "mocState", pair |-> <<p[2], p[1]>>]

deployMocStatePriceProvider(p) == [kind |-> "mocState", pair |-> p]
deployUnityPriceProvider == [kind |-> "unity", pair |-> NoPair]

\* The parameters of the constructors.
Parameters(contract) ==
    CASE contract \in {"TokenPairEnabler", "TokenPairDisabler"} -> 3
      [] contract \in {"LastClosingPriceChanger", "PriceProviderChanger"} -> 4
      [] contract = "AddTokenPairChanger" -> 6
      [] OTHER -> 2

-----------------------------------------------------------------------------
(* The scripts: the network they are run on, the provider they deploy first, if
   any, and their changer. *)

Script(network, provider, changer) == [network |-> network, provider |-> provider, changer |-> changer]

ProviderScript(network, p, provider) == Script(network, provider, deployChangePriceProvider(p, provider))

enablePair(network, p) == Script(network, NoProvider, deployTokenEnabler(p))
disablePair(network, p) == Script(network, NoProvider, deployTokenDisabler(p))
changeBeneficiaryAddress(network, address) ==
    Script(network, NoProvider, deployBeneficiaryAddressChanger(address))
changeCancelationPenaltyRate(network, rate) ==
    Script(network, NoProvider, deployCancelationPenaltyRateChanger(rate))
changeCommissionRate(network, rate) == Script(network, NoProvider, deployCommissionRateChanger(rate))
changeExpectedOrdersForTick(network, n) == Script(network, NoProvider, deployExpectedOrdersForTickChanger(n))
changeExpirationPenaltyRate(network, rate) ==
    Script(network, NoProvider, deployExpirationPenaltyRateChanger(rate))
changeLastClosingPrice(network, p, price) ==
    Script(network, NoProvider, deployLastClosingPriceChanger(p, price))
changeMaxBlocksForTick(network, n) == Script(network, NoProvider, deployMaxBlocksForTickChanger(n))
changeMaxOrderLifespan(network, n) == Script(network, NoProvider, deployMaxOrderLifespanChanger(n))
changeMinBlocksForTick(network, n) == Script(network, NoProvider, deployMinBlocksForTickChanger(n))
changeMinOrderAmount(network, n) == Script(network, NoProvider, deployMinOrderAmountChanger(n))
addPair(network, p, price) == Script(network, NoProvider, deployAddTokenPairChanger(p, price))
changePriceProviderLastClosingPrice(network, p) == ProviderScript(network, p, deployPriceProviderLastClosingPrice(p))
changePriceProviderFallback(network, p) == ProviderScript(network, p, deployPriceProviderFallback(p))
changePriceProviderMocBproBtc(network, p) == ProviderScript(network, p, deployMocStatePriceProvider(p))
changePriceProviderMocBproUsd(network, p) == ProviderScript(network, p, deployMocStatePriceProvider(p))
changePriceProviderUnity(network, p) == ProviderScript(network, p, deployUnityPriceProvider)

\* Every script there is, with a value for its argument.
ScriptsOf(network, p, n) ==
    {enablePair(network, p), disablePair(network, p), changeBeneficiaryAddress(network, n),
     changeCancelationPenaltyRate(network, n), changeCommissionRate(network, n),
     changeExpectedOrdersForTick(network, n), changeExpirationPenaltyRate(network, n),
     changeLastClosingPrice(network, p, n), changeMaxBlocksForTick(network, n),
     changeMaxOrderLifespan(network, n), changeMinBlocksForTick(network, n),
     changeMinOrderAmount(network, n), addPair(network, p, n),
     changePriceProviderLastClosingPrice(network, p), changePriceProviderFallback(network, p),
     changePriceProviderMocBproBtc(network, p), changePriceProviderMocBproUsd(network, p),
     changePriceProviderUnity(network, p)}

-----------------------------------------------------------------------------
(* The setters that are not about a pair. *)

\* setMinBlocksForTick and its like change one setting under a condition.
set(field, value, condition) ==
    /\ condition
    /\ settings' = [settings EXCEPT ![field] = value]
    /\ UNCHANGED priceVars

\* MUTANT of setMinBlocksForTick: without its require.
setAnyMinBlocksForTick(n) == set("minBlocksForTick", n, TRUE)

setMinBlocksForTick(n) == set("minBlocksForTick", n, n <= settings.maxBlocksForTick)
setMaxBlocksForTick(n) == set("maxBlocksForTick", n, n >= settings.minBlocksForTick)
setExpectedOrdersForTick(n) == set("expectedOrdersForTick", n, n >= 2)
setMinOrderAmount(n) == set("minOrderAmount", n, TRUE)
setMaxOrderLifespan(n) == set("maxOrderLifespan", n, TRUE)
setMinimumCommission(n) == set("minimumCommission", n, TRUE)
setBeneficiaryAddress(address) == set("beneficiaryAddress", address, address # 0)
setCommissionRate(rate) == set("commissionRate", rate, rate <= RatePrecision)
setCancelationPenaltyRate(rate) == set("cancelationPenaltyRate", rate, rate <= RatePrecision)
setExpirationPenaltyRate(rate) == set("expirationPenaltyRate", rate, rate <= RatePrecision)

\* setMinMultiplyFactor and setMaxMultiplyFactor, of one changer; neither has a condition.
setMultiplyFactors(from, upTo) ==
    /\ settings' = [settings EXCEPT !.minMultiplyFactor = from, !.maxMultiplyFactor = upTo]
    /\ UNCHANGED priceVars

\* execute of each changer, called by the governor.
Execute(changer) ==
    LET Is(contract) == changer.contract = contract
    IN  \/ /\ \/ Is("TokenPairEnabler") /\ enableTokenPair(changer.pair)
              \/ Is("TokenPairDisabler") /\ disableTokenPair(changer.pair)
              \/ Is("LastClosingPriceChanger") /\ setLastClosingPrice(changer.pair, changer.value)
              \/ Is("PriceProviderChanger") /\ setPriceProvider(changer.pair, changer.provider)
              \/ Is("SmoothingFactorChanger") /\ setTokenPairSmoothingFactor(changer.pair, changer.value)
              \/ Is("EmaPriceChanger") /\ setTokenPairEmaPrice(changer.pair, changer.value)
              \/ Is("AddTokenPairChanger") /\ addTokenPair(changer.pair, changer.provider, changer.value)
           /\ UNCHANGED settings
        \/ Is("MinBlocksForTickChanger") /\ setMinBlocksForTick(changer.value)
        \/ Is("MaxBlocksForTickChanger") /\ setMaxBlocksForTick(changer.value)
        \/ Is("ExpectedOrdersForTickChanger") /\ setExpectedOrdersForTick(changer.value)
        \/ Is("MinOrderAmountChanger") /\ setMinOrderAmount(changer.value)
        \/ Is("MaxOrderLifespanChanger") /\ setMaxOrderLifespan(changer.value)
        \/ Is("MarketOrderSettingsChanger") /\ setMultiplyFactors(changer.value, changer.upTo)
        \/ Is("MinimumCommissionChanger") /\ setMinimumCommission(changer.value)
        \/ Is("BeneficiaryAddressChanger") /\ setBeneficiaryAddress(changer.value)
        \/ Is("CommissionRateChanger") /\ setCommissionRate(changer.value)
        \/ Is("CancelationPenaltyRateChanger") /\ setCancelationPenaltyRate(changer.value)
        \/ Is("ExpirationPenaltyRateChanger") /\ setExpirationPenaltyRate(changer.value)

-----------------------------------------------------------------------------
(* The scripts at work. *)

\* script-config.json: what it says of a network.
getConfig(network) ==
    IF network = "development" THEN {"dex", "commissionManager", "governor"} ELSE {}

\* Changers no script can deploy: the AddTokenPairChanger, with the six arguments of
\* its constructor, those of the EMA, of the minimum commission and of market orders.
AddTokenPairByHand(p, price) ==
    [Changer("AddTokenPairChanger", "dex", p, price, 6) EXCEPT
        !.provider = deployPriceProviderLastClosingPrice(p)]
EmaPriceByHand(p, price) == Changer("EmaPriceChanger", "dex", p, price, 4)
SmoothingFactorByHand(p, factor) == Changer("SmoothingFactorChanger", "dex", p, factor, 4)
MinimumCommissionByHand(n) == Changer("MinimumCommissionChanger", "commissionManager", NoPair, n, 2)
MarketOrderSettingsByHand(from, upTo) ==
    [Changer("MarketOrderSettingsChanger", "dex", NoPair, from, 3) EXCEPT !.upTo = upTo]

MigratedPairs ==
    [p \in Pairs |-> IF p \in Migrated THEN NewPair(deployPriceProviderLastClosingPrice(p), PricePrecision) ELSE Unlisted]

ASSUME JobsAssumption ==
    \A s \in Scripts : LET w == Jobs[s].network
                          n == Jobs[s].changer.value
                      IN  n \in Nat /\ \E p \in Pairs : Jobs[s] \in ScriptsOf(w, p, n)

ASSUME PreparedAssumption ==
    \A changer \in Prepared :
        LET n == changer.value
        IN  /\ n \in Nat /\ changer.upTo \in Nat
            /\ \E p \in Pairs : \/ changer \in {AddTokenPairByHand(p, n), EmaPriceByHand(p, n)}
                                \/ changer \in {MinimumCommissionByHand(n),
                                               MarketOrderSettingsByHand(n, changer.upTo)}
                                \/ /\ changer = SmoothingFactorByHand(p, n)
                                   /\ n \in Smoothings \union {0} \/ n > RatePrecision

\* The exchange as the migration leaves it.
Init ==
    /\ listed = Migrated
    /\ pair = MigratedPairs
    /\ range = [p \in Pairs |-> IF p \in Migrated THEN [low |-> PricePrecision, high |-> PricePrecision] ELSE [low |-> 0, high |-> 0]]
    /\ settings = InitialSettings
    /\ state = [s \in Scripts |-> "idle"]
    /\ deployed = Prepared
    /\ sent = <<>>
    /\ asked = 0
    /\ effect = [s \in Scripts |-> "none"]

\* The scripts that may take a step: those that run and, as long as they are few, any.
Active ==
    LET started == {s \in Scripts : state[s] # "idle"}
    IN  IF Cardinality(started) < MaxRun THEN Scripts ELSE started

\* The inputs of web3: an address that is configured, as many arguments as the
\* constructor has.
CanDeployProvider(s) ==
    LET job == Jobs[s] IN job.provider.kind = "unity" \/ "dex" \in getConfig(job.network)

CanDeployChanger(s) ==
    LET job == Jobs[s]
    IN  /\ job.changer.target \in getConfig(job.network)
        /\ job.changer.arguments = Parameters(job.changer.contract)

DeployProvider(s) ==
    /\ state[s] = "idle"
    /\ Jobs[s].provider # NoProvider
    /\ CanDeployProvider(s)
    /\ state' = [state EXCEPT ![s] = "provider"]
    /\ UNCHANGED <<priceVars, settings, deployed, sent, asked, effect>>

DeployChanger(s) ==
    /\ state[s] = "provider" \/ (state[s] = "idle" /\ Jobs[s].provider = NoProvider)
    /\ CanDeployChanger(s)
    /\ state' = [state EXCEPT ![s] = "changer"]
    /\ deployed' = deployed \union {Jobs[s].changer}
    /\ UNCHANGED <<priceVars, settings, sent, asked, effect>>

\* MUTANT of executeChange: does not wait for the transaction.
executeChangeHurried(s) ==
    /\ state[s] = "changer"
    /\ asked < MaxSent
    /\ "governor" \in getConfig(Jobs[s].network)
    /\ state' = [state EXCEPT ![s] = "completed"]
    /\ sent' = Append(sent, [changer |-> Jobs[s].changer, by |-> s])
    /\ asked' = asked + 1
    /\ UNCHANGED <<priceVars, settings, deployed, effect>>

executeChange(s) ==
    /\ state[s] = "changer"
    /\ asked < MaxSent
    /\ "governor" \in getConfig(Jobs[s].network)
    /\ state' = [state EXCEPT ![s] = "executing"]
    /\ sent' = Append(sent, [changer |-> Jobs[s].changer, by |-> s])
    /\ asked' = asked + 1
    /\ UNCHANGED <<priceVars, settings, deployed, effect>>

\* The owner of the governor has a changer executed by hand, for the first time or again.
ExecuteByHand(changer) ==
    /\ asked < MaxSent
    /\ changer \in deployed
    /\ sent' = Append(sent, [changer |-> changer, by |-> "hand"])
    /\ asked' = asked + 1
    /\ UNCHANGED <<priceVars, settings, state, deployed, effect>>

\* The first change is mined; the receipt waits for the script that sent it.
Answer(outcome) ==
    LET s == Head(sent).by
    IN  /\ state' = IF s \in Scripts /\ state[s] = "executing" THEN [state EXCEPT ![s] = outcome] ELSE state
        /\ sent' = Tail(sent)
        /\ UNCHANGED <<deployed, asked>>

\* What a change is about: no two changers but those of one line set the same thing.
Concerns(changer) ==
    <<IF changer.contract \in {"TokenPairEnabler", "TokenPairDisabler"} THEN "disabled" ELSE changer.contract,
      changer.pair>>

MineChange ==
    /\ sent # <<>>
    /\ Execute(Head(sent).changer)
    /\ Answer("mined")
    /\ LET Again(s) == effect[s] = "kept" /\ Concerns(Jobs[s].changer) = Concerns(Head(sent).changer)
       IN  effect' = [s \in Scripts |-> IF s = Head(sent).by THEN "kept"
                                        ELSE IF Again(s) THEN "replaced" ELSE effect[s]]

RefuseChange ==
    /\ sent # <<>>
    /\ ~ENABLED Execute(Head(sent).changer)
    /\ Answer("refused")
    /\ UNCHANGED <<priceVars, settings, effect>>

\* The script polls the receipt and ends with "Completed" or with the error.
Report(s) ==
    /\ \/ state[s] = "mined" /\ state' = [state EXCEPT ![s] = "completed"]
       \/ state[s] = "refused" /\ state' = [state EXCEPT ![s] = "failed"]
    /\ UNCHANGED <<priceVars, settings, deployed, sent, asked, effect>>

\* A script that ends with an exception of web3, of a missing configuration or of the
\* node between two transactions is one that takes no further step.

\* No receipt in the blocks web3 waits for, or none that reaches the script.
GiveUp(s) ==
    /\ state[s] \in {"executing", "mined", "refused"}
    /\ state' = [state EXCEPT ![s] = "abandoned"]
    /\ UNCHANGED <<priceVars, settings, deployed, sent, asked, effect>>

ScriptStep ==
    \/ \E s \in Active : DeployProvider(s) \/ DeployChanger(s) \/ executeChange(s) \/ Report(s) \/ GiveUp(s)
    \/ \E changer \in deployed : ExecuteByHand(changer)
    \/ MineChange
    \/ RefuseChange

\* Of what scripts set, a tick sets only the closing price.
ClosesAnew(changer) ==
    /\ changer.contract = "LastClosingPriceChanger"
    /\ pair'[changer.pair].lastClosingPrice # pair[changer.pair].lastClosingPrice

TickBetween(p) ==
    /\ Tick(p)
    /\ effect' = [s \in Scripts |-> IF effect[s] = "kept" /\ ClosesAnew(Jobs[s].changer)
                                     THEN "replaced" ELSE effect[s]]
    /\ UNCHANGED <<settings, state, deployed, sent, asked>>

Next == ScriptStep \/ \E p \in Pairs : TickBetween(p)

Spec == Init /\ [][Next]_vars

-----------------------------------------------------------------------------

TypeOK ==
    /\ PricesTypeOK
    /\ state \in [Scripts -> {"idle", "provider", "changer", "executing", "mined", "refused",
                          "completed", "failed", "abandoned"}]
    /\ effect \in [Scripts -> {"none", "kept", "replaced"}]
    /\ settings \in [Fields -> Nat]
    /\ asked \in 0 .. MaxSent

\* In whatever order scripts, repeated executions and abandoned transactions reach
\* the governor, the exchange can compute the wait of a tick (2 orders or more are
\* expected, the limits are not crossed), a penalty is never above what an order
\* reserved, and the commissions have somebody to go to.
SettingsAreSound == AreSound(settings)

\* No interleaving of the scripts gives a pair the provider of another one.
ProviderQuotesItsPair ==
    \A p \in listed : pair[p].priceProvider.kind # "unity" => pair[p].priceProvider.pair = p

\* A pair always has a price for its next tick, whatever the source outside the
\* exchange answers, unless its last tick closed at 0 or the oracle itself takes 0
\* for a valid price.
AlwaysHasAPrice ==
    \A p \in listed, answer \in OracleAnswers :
        \/ peek(pair[p].priceProvider, answer).has
        \/ pair[p].lastClosingPrice = 0
        \/ pair[p].priceProvider.kind = "external" /\ answer = [price |-> 0, valid |-> TRUE]

FieldOf ==
    [BeneficiaryAddressChanger     |-> "beneficiaryAddress",
     CancelationPenaltyRateChanger |-> "cancelationPenaltyRate",
     CommissionRateChanger         |-> "commissionRate",
     ExpectedOrdersForTickChanger  |-> "expectedOrdersForTick",
     ExpirationPenaltyRateChanger  |-> "expirationPenaltyRate",
     MaxBlocksForTickChanger       |-> "maxBlocksForTick",
     MaxOrderLifespanChanger       |-> "maxOrderLifespan",
     MinBlocksForTickChanger       |-> "minBlocksForTick",
     MinimumCommissionChanger      |-> "minimumCommission",
     MinOrderAmountChanger         |-> "minOrderAmount"]

InForce(changer) ==
    CASE changer.contract = "TokenPairEnabler"  -> ~pair[changer.pair].disabled
      [] changer.contract = "TokenPairDisabler" -> pair[changer.pair].disabled
      [] changer.contract = "LastClosingPriceChanger" -> pair[changer.pair].lastClosingPrice = changer.value
      [] changer.contract = "PriceProviderChanger" -> pair[changer.pair].priceProvider = changer.provider
      [] changer.contract = "SmoothingFactorChanger" -> pair[changer.pair].smoothingFactor = changer.value
      [] changer.contract = "EmaPriceChanger" -> pair[changer.pair].emaPrice = changer.value
      [] changer.contract = "AddTokenPairChanger" -> changer.pair \in listed
      [] changer.contract = "MarketOrderSettingsChanger" ->
             settings.minMultiplyFactor = changer.value /\ settings.maxMultiplyFactor = changer.upTo
      [] OTHER -> settings[FieldOf[changer.contract]] = changer.value

\* A script that says "Completed" has had its change, however late it says so: the
\* change is still in force unless a later one about the same thing, or a tick that
\* closed at another price, replaced it, and no other change touches it.  A script
\* whose change was refused has changed nothing, not even later.
ReportsAreTrue ==
    \A s \in Scripts :
        /\ state[s] = "completed" => /\ effect[s] # "none"
                                     /\ effect[s] = "kept" => InForce(Jobs[s].changer)
        /\ state[s] = "failed" => effect[s] = "none"
=============================================================================
